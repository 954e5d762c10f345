------------------------------- MODULE MarketSlots -------------------------------
(***************************************************************************)
(* The five-minute markets the main loop (bot_main_loop.py, main) trades   *)
(* one after the other, found by MarketSelector (core/selector.py): the    *)
(* change of the tokens with every await in it, what belongs to a market   *)
(* and has to change with it (subscriptions, the price to beat, the book   *)
(* PolyOrderBook and the task that feeds it), the background refresh that  *)
(* writes into the book, and the sales that name a token.                  *)
(*                                                                         *)
(* Markets are numbered, one per slot.  A token is a market and a side, a  *)
(* quote is named by the market it was taken from.  An exception in an     *)
(* await ends the loop, as do the kill switch and the session's limits.    *)
(***************************************************************************)
EXTENDS Integers, FiniteSets

CONSTANTS Markets,     \* number of slots
          MaxBooks     \* bound of the books, one per switch and none at first

ASSUME CountsAssumption == Markets \in Nat \ {0} /\ MaxBooks \in Nat \ {0}

None == 0              \* no market: token_up_id = None
Mixed == Markets + 1   \* quotes made up around 0.5, or one side's among others
Side == {"UP", "DOWN"}
NoShares == [market |-> None, side |-> "none"]

VARIABLES
  live,        \* LIVE_MODE
  refreshing,  \* CLOB_ORDERBOOK_REFRESH_SEC > 0: the refresh task runs
  ageLimit,    \* LIVE_MAX_BOOK_AGE_SEC > 0: a live OPEN needs a fresh book
  slot,        \* the slot of get_current_slot_timestamp()
  loop,        \* where the main loop is: its await, and the slot it asked about
  checked,     \* last_slot_ts
  traded,      \* the market of token_up_id and token_down_id
  beat,        \* the market slot_price_to_beat is of
  subscribed,  \* the market of the market channel's asset ids
  watched,     \* the market of the user channel's markets
  wsPair,      \* has_valid_pair(): the channel's cache holds both books
  book,        \* poly_book: its number, whose quotes it shows, oracle price known?
  feeds,       \* numbers of the books whose connect() task is alive
  feed,        \* poly_connect_task: the number of its book
  fetch,       \* the refresh: the market of the fetch that is under way
  success,     \* last_clob_book_success_time: none, fresh or old loop time, wall time
  crossed,     \* history: a refresh's answer crossed a switch, the book unfilled since
  shares,      \* the position: the token that was bought
  rested,      \* has the market been looked up since the last close?
  order,       \* history: the last live OPEN, its market, whose quotes it used, and crossed
  sale         \* history: the last live sale, the shares and the token that was sold

vars == <<live, refreshing, ageLimit, slot, loop, checked, traded, beat, subscribed,
          watched, wsPair, book, feeds, feed, fetch, success, crossed, shares, rested,
          order, sale>>

channels == <<subscribed, watched, wsPair>>
quotes == <<book, feeds, feed, fetch, success, crossed>>
trades == <<shares, rested, order, sale>>
setting == <<live, refreshing, ageLimit>>

\* The awaits between the change of the tokens and the new book.
Switching == {"marketChannel", "userChannel", "cancelled"}

At(place) == loop.at = place
Goto(place) == loop' = [loop EXCEPT !.at = place]

---------------------------------------------------------------------------
(* Which market is traded. *)

\* Mutant of SlotDue: the market is looked up when the slot changes, and only then.
SlotDueOnce == checked # slot

\* should_check_slot: the slot has changed, or it is time to look again.
SlotDue == TRUE

CheckSlot ==
  /\ At("top") /\ SlotDue
  /\ checked' = slot /\ loop' = [at |-> "tokens", slot |-> slot]
  /\ rested' = TRUE
  /\ UNCHANGED <<setting, slot, traded, beat, channels, quotes, shares, order, sale>>

NoCheck ==
  /\ At("top") /\ checked = slot /\ Goto("tick")
  /\ UNCHANGED <<setting, slot, checked, traded, beat, channels, quotes, trades>>

\* Mutant of MaySwitch: the tokens change under an open position.
MaySwitchAlways == loop.slot # traded

\* "Never swap token IDs while a position is open."
MaySwitch == loop.slot # traded /\ shares = NoShares

\* fetch_up_down_token_ids() returned the tokens of the slot it was asked about.
TokensFound ==
  /\ At("tokens") /\ Goto(IF MaySwitch THEN "priceToBeat" ELSE "tick")
  /\ UNCHANGED <<setting, slot, checked, traded, beat, channels, quotes, trades>>

\* It returned None, for an error, a timeout or a market that is not listed yet.
TokensMissing ==
  /\ At("tokens") /\ Goto("tick")
  /\ UNCHANGED <<setting, slot, checked, traded, beat, channels, quotes, trades>>

\* Mutant of PriceToBeat: without an answer and a fallback the last price stays.
PriceToBeatStays(answered) ==
  beat' = IF answered \/ book.oracle THEN loop.slot ELSE beat

\* The slot's official price, or the oracle's present one, or none yet.
PriceToBeat(answered) ==
  beat' = IF answered \/ book.oracle THEN loop.slot ELSE None

\* Mutant of ForgetFreshness: what was known of the last market's book counts on.
FreshnessStays == UNCHANGED success

ForgetFreshness == success' = "none"

\* fetch_event_price_to_beat() answers; the tokens change and the market channel is
\* told to reconnect.  Its cache forgets the books of other tokens.
TokensChange(answered) ==
  /\ At("priceToBeat") /\ Goto("marketChannel")
  /\ PriceToBeat(answered) /\ ForgetFreshness /\ crossed' = FALSE
  /\ traded' = loop.slot /\ subscribed' = loop.slot /\ wsPair' = FALSE
  /\ UNCHANGED <<setting, slot, checked, watched, book, feeds, feed, fetch, trades>>

\* The user channel, if there is one, is told the market's condition id, or to follow
\* nothing when Gamma's answer had none.
UserChannelChanges ==
  /\ At("marketChannel") /\ Goto("userChannel")
  /\ watched' \in {traded, None}
  /\ UNCHANGED <<setting, slot, checked, traded, beat, subscribed, wsPair, quotes, trades>>

NewBook == [id |-> book.id + 1, quotes |-> None, oracle |-> FALSE]

\* A new book and the task that feeds it.
StartFeed ==
  /\ book' = NewBook /\ feed' = NewBook.id /\ feeds' = feeds \cup {NewBook.id}

\* Mutant of FeedToCancel: the old task is left to itself.
FeedToLeave == FALSE

\* Is there a task to cancel?
FeedToCancel == feed \in feeds

\* Both channels are told.  The engine is reset, the old book cleared, and the task
\* that fed it, if it still runs, is cancelled and awaited.
BookChanges ==
  /\ At("userChannel") /\ book.id < MaxBooks
  /\ IF FeedToCancel THEN Goto("cancelled") /\ UNCHANGED <<book, feeds, feed>>
     ELSE Goto("tick") /\ StartFeed
  /\ UNCHANGED <<setting, slot, checked, traded, beat, channels, fetch, success, crossed, trades>>

\* The cancelled task has closed its connection.
FeedEnds ==
  /\ At("cancelled") /\ Goto("tick")
  /\ book' = NewBook /\ feed' = NewBook.id /\ feeds' = (feeds \ {feed}) \cup {NewBook.id}
  /\ UNCHANGED <<setting, slot, checked, traded, beat, channels, fetch, success, crossed, trades>>

---------------------------------------------------------------------------
(* A tick: the price to beat, the quotes, and a decision. *)

WsFills == traded # None /\ wsPair

\* Nothing is decided before the book's feed has told the oracle's price.
NothingToDecide ==
  /\ At("tick") /\ ~book.oracle /\ Goto("top")
  /\ UNCHANGED <<setting, slot, checked, traded, beat, channels, quotes, trades>>

\* A price to beat that is still unknown is latched from the oracle, and the book
\* takes the quotes of the market channel if that has both sides.
Tick ==
  /\ At("tick") /\ book.oracle /\ traded # None /\ Goto("decide")
  /\ beat' = IF beat = None THEN traded ELSE beat
  /\ IF WsFills
     THEN book' = [book EXCEPT !.quotes = traded] /\ success' = "fresh" /\ crossed' = FALSE
     ELSE UNCHANGED <<book, success, crossed>>
  /\ UNCHANGED <<setting, slot, checked, traded, channels, feeds, feed, fetch, trades>>

Hold ==
  /\ At("decide") /\ Goto("top")
  /\ UNCHANGED <<setting, slot, checked, traded, beat, channels, quotes, trades>>

\* The engine enters again HFT_POST_CLOSE_REENTRY_COOLDOWN_SEC after a close at the
\* earliest, four times the time after which the market is looked up again.
MayOpen == shares = NoShares /\ rested

\* With an age limit a live OPEN is sent on a book that is known to be fresh; a time of
\* the wall clock is far ahead of the loop's and passes for fresh.
BookIsFresh == ageLimit => success \in {"fresh", "wall"}

OpenLive(side) ==
  /\ At("decide") /\ live /\ MayOpen /\ BookIsFresh
  /\ loop' = [loop EXCEPT !.at = IF side = "UP" THEN "openUp" ELSE "openDown"]
  /\ order' = [market |-> traded, quotes |-> book.quotes, crossed |-> crossed]
  /\ UNCHANGED <<setting, slot, checked, traded, beat, channels, quotes, shares, rested, sale>>

OpenAnswered(side, filled) ==
  /\ At(IF side = "UP" THEN "openUp" ELSE "openDown") /\ Goto("top")
  /\ shares' = IF filled THEN [market |-> traded, side |-> side] ELSE shares
  /\ UNCHANGED <<setting, slot, checked, traded, beat, channels, quotes, rested, order, sale>>

OpenPaper(side) ==
  /\ At("decide") /\ ~live /\ MayOpen /\ Goto("top")
  /\ shares' = [market |-> traded, side |-> side]
  /\ UNCHANGED <<setting, slot, checked, traded, beat, channels, quotes, rested, order, sale>>

\* Mutant of CloseSide: the side of the decision, which a reversal has turned round.
CloseDecisionSide(decided) == decided

\* The side of the open position, not of the decision.
CloseSide(decided) == IF shares.side \in Side THEN shares.side ELSE decided

\* _conditional_token_for_position_side()
ConditionalToken(side) == [market |-> traded, side |-> side]

CloseLive(decided) ==
  /\ At("decide") /\ live /\ shares # NoShares /\ Goto("closing")
  /\ sale' = [held |-> shares, sold |-> ConditionalToken(CloseSide(decided))]
  /\ rested' = FALSE
  /\ UNCHANGED <<setting, slot, checked, traded, beat, channels, quotes, shares, order>>

\* The position ends, sold or force-cleared, or a part of it stays.
CloseAnswered(all) ==
  /\ At("closing") /\ Goto("top")
  /\ shares' = IF all THEN NoShares ELSE shares
  /\ UNCHANGED <<setting, slot, checked, traded, beat, channels, quotes, rested, order, sale>>

ClosePaper ==
  /\ At("decide") /\ ~live /\ shares # NoShares /\ Goto("top")
  /\ shares' = NoShares /\ rested' = FALSE
  /\ UNCHANGED <<setting, slot, checked, traded, beat, channels, quotes, order, sale>>

---------------------------------------------------------------------------
(* What happens beside the main loop. *)

Running == loop.at \notin {"stopping", "ended"}

SlotPasses ==
  /\ slot < Markets /\ slot' = slot + 1
  /\ UNCHANGED <<setting, loop, checked, traded, beat, channels, quotes, trades>>

PairArrives ==
  /\ ~At("ended") /\ subscribed # None /\ ~wsPair /\ wsPair' = TRUE
  /\ UNCHANGED <<setting, slot, loop, checked, traded, beat, subscribed, watched, quotes, trades>>

PairLost ==
  /\ wsPair /\ wsPair' = FALSE
  /\ UNCHANGED <<setting, slot, loop, checked, traded, beat, subscribed, watched, quotes, trades>>

\* The oracle's price arrives.  A book without quotes gets some around 0.5.
OracleMessage ==
  /\ book.id \in feeds /\ ~book.oracle
  /\ book' = [book EXCEPT !.oracle = TRUE,
                          !.quotes = IF book.quotes = None THEN Mixed ELSE book.quotes]
  /\ UNCHANGED <<setting, slot, loop, checked, traded, beat, channels, feeds, feed, fetch,
                 success, crossed, trades>>

RefreshAsks ==
  /\ ~At("ended") /\ refreshing /\ traded # None /\ fetch = None /\ fetch' = traded
  /\ UNCHANGED <<setting, slot, loop, checked, traded, beat, channels, book, feeds, feed,
                 success, crossed, trades>>

\* The valid sides of the answer go into whatever book there is by now; when both
\* are valid its time is taken from the wall clock.
Answers == {"both", "one", "none"}
RefreshStores(valid) ==
  /\ fetch # None /\ fetch' = None
  /\ IF valid # "none" /\ book.id > 0
     THEN /\ book' = [book EXCEPT !.quotes = IF valid = "both" \/ @ = fetch THEN fetch
                                            ELSE Mixed]
          /\ success' = IF valid = "both" THEN "wall" ELSE success
          /\ crossed' = (\/ fetch # traded \/ loop.at \in Switching
                         \/ valid = "one" /\ crossed)
     ELSE UNCHANGED <<book, success, crossed>>
  /\ UNCHANGED <<setting, slot, loop, checked, traded, beat, channels, feeds, feed, trades>>

\* LIVE_MAX_BOOK_AGE_SEC have passed.
BookAges ==
  /\ success = "fresh" /\ success' = "old"
  /\ UNCHANGED <<setting, slot, loop, checked, traded, beat, channels, book, feeds, feed,
                 fetch, crossed, trades>>

---------------------------------------------------------------------------
(* The end. *)

\* A limit or the kill switch at the top, an exception anywhere.
Stop ==
  /\ Running /\ Goto("stopping")
  /\ UNCHANGED <<setting, slot, checked, traded, beat, channels, quotes, trades>>

\* A live position is sold, then the refresh, the feed and all other tasks are cancelled.
Shutdown ==
  /\ At("stopping") /\ Goto("ended")
  /\ sale' = IF live /\ traded # None /\ shares # NoShares
             THEN [held |-> shares, sold |-> ConditionalToken(CloseSide("UP"))] ELSE sale
  /\ feeds' = {} /\ fetch' = None
  /\ UNCHANGED <<setting, slot, checked, traded, beat, channels, book, feed, success,
                 crossed, shares, rested, order>>

---------------------------------------------------------------------------

Init ==
  /\ live \in BOOLEAN /\ ageLimit \in BOOLEAN
  /\ refreshing \in BOOLEAN /\ (refreshing => live)
  /\ slot = 1 /\ loop = [at |-> "top", slot |-> None] /\ checked = None
  /\ traded = None /\ beat = None /\ subscribed = None /\ watched = None /\ wsPair = FALSE
  /\ book = [id |-> 0, quotes |-> None, oracle |-> FALSE] /\ feeds = {} /\ feed = None
  /\ fetch = None /\ success = "none" /\ crossed = FALSE
  /\ shares = NoShares /\ rested = TRUE
  /\ order = [market |-> None, quotes |-> None, crossed |-> FALSE]
  /\ sale = [held |-> NoShares, sold |-> NoShares]

Switch ==
  \/ \E answered \in BOOLEAN : TokensChange(answered)
  \/ UserChannelChanges \/ BookChanges \/ FeedEnds

Decide ==
  \/ Hold \/ ClosePaper
  \/ \E side \in Side : OpenLive(side) \/ OpenPaper(side) \/ CloseLive(side)

Answered ==
  \/ \E side \in Side, filled \in BOOLEAN : OpenAnswered(side, filled)
  \/ \E all \in BOOLEAN : CloseAnswered(all)

LoopStep ==
  \/ CheckSlot \/ NoCheck \/ TokensFound \/ TokensMissing \/ Switch
  \/ NothingToDecide \/ Tick \/ Decide \/ Answered \/ Shutdown

Next ==
  \/ LoopStep \/ Stop
  \/ SlotPasses \/ PairArrives \/ PairLost \/ OracleMessage
  \/ RefreshAsks \/ (\E valid \in Answers : RefreshStores(valid)) \/ BookAges

Spec == Init /\ [][Next]_vars

\* The loop goes on whatever it awaits (each of its awaits has a timeout or is of a
\* task that ends), looks the market up every HFT_MIN_SLOT_POLL_SEC, and Gamma answers
\* again and again, while the bot is flat too.  The oracle speaks, and a position is closed in the end.
Fairness ==
  /\ WF_vars(LoopStep) /\ WF_vars(OracleMessage)
  /\ SF_vars(CheckSlot) /\ SF_vars(shares = NoShares /\ TokensFound)
  /\ SF_vars((\E side \in Side : CloseLive(side)) \/ ClosePaper)
  /\ SF_vars(CloseAnswered(TRUE))

FairSpec == Spec /\ Fairness

---------------------------------------------------------------------------
(* Properties. *)

Places == Switching \cup {"top", "tokens", "priceToBeat", "tick", "decide", "openUp",
                         "openDown", "closing", "stopping", "ended"}
Known == 0 .. Markets   \* a market or None
Token == [market : Known, side : Side \cup {"none"}]

\* Type invariant.
TypeOK ==
  /\ live \in BOOLEAN /\ refreshing \in BOOLEAN /\ ageLimit \in BOOLEAN
  /\ wsPair \in BOOLEAN /\ rested \in BOOLEAN /\ crossed \in BOOLEAN
  /\ slot \in 1 .. Markets /\ loop \in [at : Places, slot : Known]
  /\ checked \in Known /\ traded \in Known /\ beat \in Known
  /\ subscribed \in Known /\ watched \in Known /\ fetch \in Known
  /\ book \in [id : 0 .. MaxBooks, quotes : 0 .. Mixed, oracle : BOOLEAN]
  /\ feed \in 0 .. MaxBooks /\ feeds \subseteq 0 .. MaxBooks
  /\ success \in {"none", "fresh", "old", "wall"}
  /\ shares \in Token
  /\ order \in [market : Known, quotes : 0 .. Mixed, crossed : BOOLEAN]
  /\ sale \in [held : Token, sold : Token]

\* Every sale, of a close and of the shutdown, names the token that is held, although
\* it is built from the tokens of the moment and the slot may long be over.
SellsItsOwnToken == sale.sold = sale.held

\* With an age limit a live order is placed only on quotes of its own market, never on
\* those of the last market nor on made-up ones, but for one case: an answer of the
\* refresh crossed the switch (it was asked for the last market, or stored in the last
\* book) and neither the channel nor the refresh has filled the book since.
OpensOnItsOwnQuotes == ageLimit /\ ~order.crossed => order.quotes = order.market

\* The price to beat, when there is one, was taken for the market that is traded.
BeatIsThisMarkets == beat \in {None, traded}

\* No task of an earlier book is left, while the loop runs or when it has ended; and
\* while decisions are made everything is of the traded market, but for a user channel
\* that follows nothing (the market's condition id was missing): none follows another.
EverythingSwitches ==
  /\ feeds \subseteq {book.id} /\ (At("ended") => feeds = {})
  /\ At("decide") => /\ subscribed = traded /\ watched \in {traded, None}
                     /\ feeds = {book.id}

\* When the slots have passed the loop trades the last one, although the lookup may have
\* failed when it began or a position may have been open, unless the loop stops.
FollowsTheSlot == slot = Markets ~> traded = Markets \/ ~Running

=============================================================================
