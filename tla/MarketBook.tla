------------------------------- MODULE MarketBook -------------------------------
(***************************************************************************)
(* ClobMarketBookCache (data/clob_market_ws.py): the order book of one     *)
(* token as the market channel describes it, and its readers.  The event   *)
(* loop's thread applies messages and serves the trading loop              *)
(* (sync_poly_book_from_cache) from a cached snapshot with a dirty flag;   *)
(* worker threads ask get_orderbook_snapshot() of core/live_engine.py for  *)
(* prices and, when there is no book, fetch it over HTTP.                  *)
(*                                                                         *)
(* A side of a book is the set of its price levels: sizes are left out.    *)
(* The exchange may number its messages or not; a connection delivers them *)
(* in order or breaks, and a new one, perhaps to the backup address, which *)
(* may lag, starts with the whole book as of some message and goes on from *)
(* there.                                                                  *)
(***************************************************************************)
EXTENDS Integers, Sequences, FiniteSetsExt, SequencesExt

CONSTANTS
  Prices,          \* price levels, between 0 and Ceiling
  Ceiling,         \* the price 1.0
  MaxChanges,      \* levels one price_change message changes
  Modes,           \* which of the configurations below there may be
  MaxSeq,          \* bound: messages the exchange sends
  QueueCap         \* bound: messages under way beyond which the exchange is quiet

ASSUME MarketBookAssumption ==
  /\ Ceiling \in Nat /\ Prices \subseteq 1..(Ceiling - 1) /\ Prices # {}
  /\ MaxChanges \in Nat \ {0}
  /\ Modes \subseteq SUBSET {"best_bid_ask", "http", "unnumbered"}
  /\ MaxSeq \in Nat /\ QueueCap \in Nat

VARIABLES
  mode,          \* CLOB_MARKET_WS_CUSTOM_FEATURES, live mode, messages without number
  sent,          \* history: every message, with the exchange's book after it
  net,           \* messages under way on the connection
  conn,          \* the connection: "up" or "down"
  reconnecting,  \* _reconnecting
  book,          \* _bids and _asks
  last,          \* _last_sequence
  heard,         \* history: the message applied last, or 0
  age,           \* age of _last_ts: "none", "new", "old" (over max_stale), "dead" (over twice)
  cached,        \* _cached_snapshot, or None
  dirty,         \* _snapshot_dirty
  reader,        \* the levels the event loop's thread computes a snapshot of, or None
  fetch,         \* the worker thread: "idle", or "asked" when it waits for HTTP
  poly           \* the top of book the strategy sees, or None

netVars == <<mode, sent, net, conn, reconnecting>>
bookVars == <<book, last, heard, age>>
vars == <<netVars, bookVars, cached, dirty, reader, fetch, poly>>

Empty == [bids |-> {}, asks |-> {}]
None == [none |-> TRUE]
Crossed(b) == \E p \in b.bids, q \in b.asks : p >= q

\* _snapshot_from_levels: an empty side reads 0.0 or 1.0.
Best(b) == [bid |-> Max(b.bids \cup {0}), ask |-> Min(b.asks \cup {Ceiling})]

seq == Len(sent)
AsOf(n) == sent[n].after
Current == AsOf(seq)

---------------------------------------------------------------------------
(* The exchange and the connection (external). *)

Change == [side : {"bids", "asks"}, price : Prices, present : BOOLEAN]
Changed(b, c) ==
  [b EXCEPT ![c.side] = IF c.present THEN @ \cup {c.price} ELSE @ \ {c.price}]
AllChanged(b, cs) == FoldLeft(Changed, b, cs)

\* "sequence" of the n-th message, 0 when there is none.
Number(n) == IF "unnumbered" \in mode THEN 0 ELSE n

BookMessage(n, b) == [kind |-> "book", pos |-> n, seq |-> Number(n), after |-> b]
ChangeMessage(n, b, cs) ==
  [kind |-> "price_change", pos |-> n, seq |-> Number(n), after |-> b, changes |-> cs]

\* The best prices, 0 for an empty side.
Told(b) == [bid |-> Best(b).bid, ask |-> IF b.asks = {} THEN 0 ELSE Best(b).ask]
BestMessage(n, b) ==
  [kind |-> "best_bid_ask", pos |-> n, seq |-> Number(n), after |-> b, best |-> Told(b)]

\* One event changes a few levels; price_change tells them all, and
\* best_bid_ask the new top if it differs, before or after.
Event(cs, b) ==
  IF "best_bid_ask" \in mode /\ Best(b) # Best(Current)
    THEN {<<ChangeMessage(seq + 1, b, cs), BestMessage(seq + 2, b)>>,
          <<BestMessage(seq + 1, b), ChangeMessage(seq + 2, b, cs)>>}
    ELSE {<<ChangeMessage(seq + 1, b, cs)>>}

ExchangeChanges(cs) ==
  LET b == AllChanged(Current, cs)
  IN /\ seq < MaxSeq /\ Len(net) < QueueCap
     /\ b # Current /\ ~Crossed(b)
     /\ \E ms \in Event(cs, b) :
          /\ seq + Len(ms) <= MaxSeq
          /\ sent' = sent \o ms
          /\ net' = IF conn = "up" THEN net \o ms ELSE net
     /\ UNCHANGED <<mode, conn, reconnecting, bookVars, cached, dirty, reader, fetch, poly>>

\* The connection breaks and what was under way is lost.  An error sets
\* _reconnecting; a connection that was closed in order does not.
Disconnect ==
  /\ conn = "up" /\ conn' = "down" /\ net' = <<>>
  /\ reconnecting' \in {reconnecting, TRUE}
  /\ UNCHANGED <<mode, sent, bookVars, cached, dirty, reader, fetch, poly>>

\* run_forever() connects and subscribes: the exchange answers with its book
\* and what has followed.  Nothing resets _reconnecting.
Connect ==
  /\ conn = "down" /\ conn' = "up"
  /\ \E n \in Max({1, seq - QueueCap})..seq :
       net' = <<BookMessage(n, AsOf(n))>> \o SubSeq(sent, n + 1, seq)
  /\ UNCHANGED <<mode, sent, reconnecting, bookVars, cached, dirty, reader, fetch, poly>>

---------------------------------------------------------------------------
(* Messages. *)

\* Mutant of Valid: only the next message is taken.
ValidIfNext(n, l) == n = 0 \/ l = 0 \/ n = l + 1

\* _check_sequence: is a message with this number to be applied?  One without always is.
Valid(n, l) == n = 0 \/ n > l

\* ... and the last number then.
Remembered(n, l) == IF n = 0 THEN l ELSE n

\* Mutant of Touch: the snapshot is not marked.
TouchKeepsSnapshot == age' = "new" /\ UNCHANGED <<dirty, cached>>

\* _touch, and the invalidation that follows every update.
Touch == age' = "new" /\ dirty' = TRUE /\ cached' = None

\* Mutant of ApplyChange: a level of size 0 is stored.
ApplyChangeKeepsLevels(r, m, c) ==
  IF Valid(m.seq, r.last)
    THEN [book |-> IF c.present THEN Changed(r.book, c) ELSE r.book,
          last |-> Remembered(m.seq, r.last)]
    ELSE r

\* Mutant of ApplyChange: the number is not remembered.
ApplyChangeForgets(r, m, c) ==
  IF Valid(m.seq, r.last) THEN [r EXCEPT !.book = Changed(@, c)] ELSE r

\* _apply_price_change: every change of the message is checked against the
\* message's number, and the first one has moved _last_sequence to it.
ApplyChange(r, m, c) ==
  IF Valid(m.seq, r.last)
    THEN [book |-> Changed(r.book, c), last |-> Remembered(m.seq, r.last)] ELSE r

\* _apply_best_bid_ask: the old top level moves to the new price.
Moved(side, top, new) == IF new = 0 THEN side ELSE (side \ {top}) \cup {new}
MoveTop(b, best) == [bids |-> Moved(b.bids, Best(b).bid, best.bid),
                     asks |-> Moved(b.asks, Best(b).ask, best.ask)]

\* _apply_book: both sides are replaced.
Replaced(b, m) == m.after

\* Is a message applied, if only in part?  One that tells no best price is not.
Taken(m) == Valid(m.seq, last) /\ (m.kind = "best_bid_ask" => m.best # Told(Empty))

\* The book and the last number after a message that is.
Applied(m) ==
  LET now == [book |-> book, last |-> last]
      number == Remembered(m.seq, last)
  IN CASE m.kind = "price_change" ->
            FoldLeft(LAMBDA r, c : ApplyChange(r, m, c), now, m.changes)
       [] m.kind = "book" -> [book |-> Replaced(book, m), last |-> number]
       [] m.kind = "best_bid_ask" -> [book |-> MoveTop(book, m.best), last |-> number]

\* The event loop's thread applies the next message.  It cannot do so while
\* it computes a snapshot.
Deliver ==
  /\ conn = "up" /\ net # <<>> /\ reader = None
  /\ net' = Tail(net)
  /\ IF Taken(Head(net))
       THEN /\ book' = Applied(Head(net)).book /\ last' = Applied(Head(net)).last
            /\ heard' = Head(net).pos /\ Touch
       ELSE UNCHANGED <<bookVars, cached, dirty>>
  /\ UNCHANGED <<mode, sent, conn, reconnecting, reader, fetch, poly>>

---------------------------------------------------------------------------
(* Readers. *)

\* is_fresh
IsFresh == age = "new" \/ (age = "old" /\ reconnecting)

\* _valid_spread
ValidSpread(t) == 0 < t.bid /\ t.bid < t.ask

Shown(b) == IF IsFresh /\ ValidSpread(Best(b)) THEN Best(b) ELSE poly

\* sync_poly_book_from_cache: the clean cached snapshot is served, or the
\* levels are read under the lock ...
Sync ==
  /\ reader = None /\ IsFresh
  /\ IF ~dirty /\ cached # None
       THEN poly' = Shown(cached) /\ UNCHANGED reader
       ELSE book # Empty /\ reader' = book /\ UNCHANGED poly
  /\ UNCHANGED <<netVars, bookVars, cached, dirty, fetch>>

\* ... and the snapshot computed from them is stored and marked clean.
StoreSnapshot == cached' = reader /\ dirty' = FALSE

SyncStores ==
  /\ reader # None /\ reader' = None
  /\ StoreSnapshot
  /\ poly' = Shown(reader)
  /\ UNCHANGED <<netVars, bookVars, fetch>>

\* get_orderbook_snapshot() on a worker thread finds no book and asks the SDK.
FetchBook ==
  /\ "http" \in mode /\ fetch = "idle" /\ book = Empty
  /\ fetch' = "asked"
  /\ UNCHANGED <<netVars, bookVars, cached, dirty, reader, poly>>

\* _apply_snapshot() of the answer: the summary has neither "bids" nor "asks",
\* so both sides become empty and the token fresh.
FetchApplies ==
  /\ fetch = "asked" /\ fetch' = "idle"
  /\ book' = Empty /\ Touch
  /\ UNCHANGED <<netVars, last, heard, reader, poly>>

\* The SDK call raises.
FetchFails ==
  /\ fetch = "asked" /\ fetch' = "idle"
  /\ UNCHANGED <<netVars, bookVars, cached, dirty, reader, poly>>

\* max_stale_sec, then as much again, pass without an update.
TimePasses ==
  /\ \/ age = "new" /\ age' = "old"
     \/ age = "old" /\ age' = "dead"
  /\ UNCHANGED <<netVars, book, last, heard, cached, dirty, reader, fetch, poly>>

---------------------------------------------------------------------------
\* The exchange's first book has an ask at the highest price and a bid at every
\* other one.
Init ==
  /\ mode \in Modes
  /\ sent = <<BookMessage(1, [bids |-> Prices \ {Max(Prices)}, asks |-> {Max(Prices)}])>>
  /\ net = <<>> /\ conn = "down" /\ reconnecting = FALSE
  /\ book = Empty /\ last = 0 /\ heard = 0 /\ age = "none"
  /\ cached = None /\ dirty = TRUE /\ reader = None /\ fetch = "idle" /\ poly = None

Next ==
  \/ \E n \in 1..MaxChanges : \E cs \in [1..n -> Change] : ExchangeChanges(cs)
  \/ Disconnect \/ Connect \/ Deliver
  \/ Sync \/ SyncStores
  \/ FetchBook \/ FetchApplies \/ FetchFails
  \/ TimePasses

Spec == Init /\ [][Next]_vars

\* run_forever() connects again and again, the event loop reads what arrives,
\* and the trading loop polls the cache.
Fairness == WF_vars(Connect) /\ WF_vars(Deliver) /\ WF_vars(SyncStores)

FairSpec == Spec /\ Fairness

---------------------------------------------------------------------------
(* Properties. *)

Levels == {"bids", "asks"} \X Prices
LevelOf(c) == <<c.side, c.price>>

\* The levels that the numbered messages up to the n-th changed last by a change after
\* their first one, which is the only one the cache applies.
Untold(n) ==
  {level \in Levels :
     /\ "unnumbered" \notin mode
     /\ \E i \in 2..n :
          /\ sent[i].kind = "price_change"
          /\ \E k \in DOMAIN sent[i].changes \ {1} : LevelOf(sent[i].changes[k]) = level
          /\ \A j \in (i + 1)..n :
               sent[j].kind = "price_change" => LevelOf(sent[j].changes[1]) # level}

\* Two books agree but for some levels.
Agree(b, d, but) == \A level \in Levels \ but : level[2] \in b[level[1]] <=> level[2] \in d[level[1]]

\* The cached levels are the exchange's as of the last message applied, but for the
\* untold ones, through lost connections, gaps and repeated books; when whole books
\* and price_change messages are the only sources.
MirrorsExchange ==
  mode \subseteq {"unnumbered"} /\ heard > 0 => Agree(book, AsOf(heard), Untold(heard))

\* A snapshot that is marked clean is that of the current levels, as long as
\* the event loop's thread alone changes them.
CleanSnapshotIsCurrent ==
  "http" \notin mode /\ ~dirty /\ cached # None => cached = book

\* No level is invented and none but an untold one outlives its removal by more than
\* a message, even when a fetch has emptied the cache, and when a best_bid_ask message
\* moves the top before the levels are told.
LevelsExist ==
  heard > 0 =>
    \A level \in Levels \ Untold(heard) :
      level[2] \in book[level[1]] =>
        level[2] \in AsOf(heard)[level[1]] \cup AsOf(Max({1, heard - 1}))[level[1]]

\* When the connection stays up in the end, the cache catches up with the exchange,
\* whatever was lost before, but for levels that are untold.
CatchesUp ==
  mode \subseteq {"unnumbered"} /\ <>[](conn = "up") => <>[]Agree(book, Current, Untold(seq))
=============================================================================
