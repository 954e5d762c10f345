----------------------------- MODULE AllowanceCache -----------------------------
(***************************************************************************)
(* Who refreshes the exchange's allowance of a token before a SELL:        *)
(* ConditionalAllowanceCache (data/balance_cache.py), the engine's         *)
(* _ensure_allowance_cached() in front of every SELL placement             *)
(* (core/live_engine.py) and the background task _run_allowance_refresh()  *)
(* of bot_main_loop.py.                                                    *)
(*                                                                         *)
(* The exchange takes a SELL when the allowance was refreshed after the    *)
(* BUY's fill.  A call of its API runs in a worker thread; it may fail,    *)
(* which ensure_conditional_allowance() logs and hides.                    *)
(***************************************************************************)
EXTENDS Naturals, Sequences, FiniteSets, SequencesExt

CONSTANTS
  Tokens,       \* conditional tokens
  QueueMax,     \* MAX_REFRESH_QUEUE_SIZE
  MaxEntries,   \* _max_allowance_entries
  MaxAttempts   \* placements of one SELL, GTC and FAK together

ASSUME AllowanceCacheAssumption ==
  QueueMax \in Nat \ {0} /\ MaxEntries \in Nat \ {0} /\ MaxAttempts \in Nat \ {0}

VARIABLES
  allowed,    \* exchange: tokens whose shares can be sold
  active,     \* token_up_id and token_down_id
  held,       \* the token whose shares the bot holds
  filled,     \* tokens whose BUY fill the main loop has not handled yet
  cached,     \* the keys of _cache by last_refresh
  expired,    \* the cached tokens whose entry has expired
  queue,      \* _refresh_queue
  refresher,  \* the tokens the background task has calls out for
  seller,     \* close_position(): its token, step and attempt
  wanted      \* history: tokens scheduled, not evicted, whose refresh has not begun

cacheVars == <<cached, expired>>
vars == <<allowed, active, held, filled, cached, expired, queue, refresher, seller, wanted>>

Idle == [step |-> "idle", tokens |-> {}, attempt |-> 0]

---------------------------------------------------------------------------
(* The cache. *)

\* _trim_conditional_locked
Trimmed(keys, old) ==
  LET left == SelectSeq(keys, LAMBDA t : t \notin old)
  IN SubSeq(left, IF Len(left) > MaxEntries THEN Len(left) - MaxEntries + 1 ELSE 1, Len(left))

Trim(keys, old) == cached' = Trimmed(keys, old) /\ expired' = {}

SetAllowance(t) == Trim(Append(Remove(cached, t), t), expired \ {t})

\* An entry is served whether or not it has expired.
Hit(t) == t \in ToSet(cached)

Expire ==
  /\ \E i \in DOMAIN cached :
       /\ expired' = expired \cup {cached[j] : j \in 1..i} /\ expired' # expired
  /\ UNCHANGED <<allowed, active, held, filled, cached, queue, refresher, seller, wanted>>

\* The cleaner thread.
Clean ==
  /\ Trim(cached, expired)
  /\ UNCHANGED <<allowed, active, held, filled, queue, refresher, seller, wanted>>

\* schedule_refresh: a full queue drops its oldest token.
Scheduled(q, t) ==
  IF t \in ToSet(q) THEN q
  ELSE Append(IF Len(q) >= QueueMax THEN Tail(q) ELSE q, t)

\* The token that makes room for t.
Evicted(q, t) == IF t \in ToSet(q) \/ Len(q) < QueueMax THEN {} ELSE {Head(q)}

\* History: who waits for a refresh once t is scheduled.
Waiting(w, q, t) == (w \ Evicted(q, t)) \cup {t}

---------------------------------------------------------------------------
(* The main loop and its market. *)

SwitchMarket ==
  /\ active' \in SUBSET Tokens /\ Cardinality(active') \in {0, 2} /\ active' # active
  /\ UNCHANGED <<allowed, held, filled, cacheVars, queue, refresher, seller, wanted>>

Fill(t) ==
  /\ t \in active /\ held = {} /\ seller = Idle
  /\ held' = {t} /\ filled' = {t} /\ allowed' = allowed \ {t}
  /\ UNCHANGED <<active, cacheVars, queue, refresher, seller, wanted>>

\* After a fill both tokens of the market are scheduled; an adopted position's token alone.
Schedule ==
  /\ filled # {} /\ filled' = {}
  /\ \E t \in filled : \E other \in active \cup {t} :
       /\ queue' = Scheduled(Scheduled(queue, t), other)
       /\ wanted' = Waiting(Waiting(wanted, queue, t), Scheduled(queue, t), other)
  /\ Trim(cached, expired)
  /\ UNCHANGED <<allowed, active, held, refresher, seller>>

---------------------------------------------------------------------------
(* ensure_conditional_allowance: one call of the exchange's API. *)

Answer(t, ok) == allowed' = IF ok THEN allowed \cup {t} ELSE allowed

---------------------------------------------------------------------------
(* close_position(): a SELL.  "calling" waits for the API after a miss of the cache, "forced"  *)
(* because the chain shows no shares; "cross" is an order at any price, with no call before   *)
(* it: of a position too small for a limit order, or the emergency exit after the last try.   *)

At(step, n) == [seller EXCEPT !.step = step, !.attempt = n]

StartSell(t) ==
  /\ seller = Idle /\ filled = {} /\ t \in active \cap held
  /\ \E first \in {<<"ensure", 1>>, <<"forced", 0>>, <<"cross", 0>>} :
       seller' = [step |-> first[1], tokens |-> {t}, attempt |-> first[2]]
  /\ UNCHANGED <<allowed, active, held, filled, cacheVars, queue, refresher, wanted>>

\* Attempt 0 waits for the chain to show the shares and ensures the allowance before each look;
\* so does the wait between two placements.
Ensured ==
  CASE seller.attempt = 0 -> {At("ensure", 0), At("ensure", 1), At("cross", 0)}
    [] seller.attempt = 1 -> {At("place", 1)}
    [] OTHER -> {At("ensure", seller.attempt), At("place", seller.attempt)}

\* _ensure_allowance_cached
Ensure ==
  /\ seller.step = "ensure"
  /\ \E t \in seller.tokens :
       IF Hit(t) THEN seller' \in Ensured ELSE seller' = At("calling", seller.attempt)
  /\ UNCHANGED <<allowed, active, held, filled, cacheVars, queue, refresher, wanted>>

SellerAnswered(ok) ==
  /\ seller.step \in {"calling", "forced"}
  /\ \E t \in seller.tokens :
       /\ Answer(t, ok)
       /\ IF seller.step = "calling" THEN SetAllowance(t) ELSE UNCHANGED cacheVars
  /\ seller' \in Ensured
  /\ UNCHANGED <<active, held, filled, queue, refresher, wanted>>

\* The exchange takes the order or rejects it.
PlaceSell ==
  /\ seller.step \in {"place", "cross"}
  /\ IF seller.tokens \subseteq allowed THEN seller' = Idle /\ held' = {}
     ELSE /\ UNCHANGED held
          /\ CASE seller.step = "cross" -> seller' = Idle
               [] seller.attempt < MaxAttempts -> seller' = At("ensure", seller.attempt + 1)
               [] OTHER -> seller' = At("cross", 0)
  /\ UNCHANGED <<allowed, active, filled, cacheVars, queue, refresher, wanted>>

---------------------------------------------------------------------------
(* _run_allowance_refresh *)

\* Mutant of Collected: only what is scheduled.
CollectedScheduled == ToSet(queue)

\* What is scheduled and the market's tokens.
Collected == ToSet(queue) \cup active

\* get_refresh_queue clears the queue.
Collect ==
  /\ refresher = {} /\ refresher' = Collected
  /\ queue' = <<>>
  /\ wanted' = wanted \ Collected
  /\ UNCHANGED <<allowed, active, held, filled, cacheVars, seller>>

\* Mutant of Afterwards: the queue is cleared when a call is back.
AfterwardsCleared == <<>>

\* A call that comes back touches neither the queue nor the cache.
Afterwards == queue

RefresherAnswered(t, ok) ==
  /\ t \in refresher /\ refresher' = refresher \ {t}
  /\ Answer(t, ok)
  /\ queue' = Afterwards
  /\ UNCHANGED <<active, held, filled, cacheVars, seller, wanted>>

---------------------------------------------------------------------------
\* A session: the cache is empty; shares held before cannot be sold.
Init ==
  /\ allowed = {} /\ active = {} /\ held = {} /\ filled = {} /\ cached = <<>> /\ expired = {}
  /\ queue = <<>> /\ refresher = {} /\ seller = Idle /\ wanted = {}

Loop == SwitchMarket \/ Schedule \/ \E t \in Tokens : Fill(t) \/ StartSell(t)
Selling == Ensure \/ PlaceSell \/ \E ok \in BOOLEAN : SellerAnswered(ok)
Refreshing == Collect \/ \E t \in Tokens, ok \in BOOLEAN : RefresherAnswered(t, ok)

Next == Loop \/ Selling \/ Refreshing \/ Expire \/ Clean

Spec == Init /\ [][Next]_vars

\* The event loop runs the background task, a call comes back, and one that is made again
\* and again succeeds in the end.
Fairness ==
  /\ WF_vars(Refreshing)
  /\ \A t \in Tokens : SF_vars(RefresherAnswered(t, TRUE))

FairSpec == Spec /\ Fairness

---------------------------------------------------------------------------
(* Properties. *)

\* A scheduled token stays in the queue until a refresh of it begins, also when it is scheduled
\* while the background task awaits other calls; only a full queue drops its oldest token.
ScheduledIsNotLost == wanted \subseteq ToSet(queue)

\* A token that was bought can be sold in the end, through the background task alone, unless
\* its market ends; also one that a full queue has dropped.
AllowanceReturns ==
  \A t \in Tokens :
    (t \in active /\ t \notin allowed) ~> (t \in allowed \/ t \notin active)
=============================================================================
