--------------------------- MODULE MarketSlots_proofs ---------------------------
(***************************************************************************)
(* Proofs about MarketSlots: whatever the await in which the main loop is, *)
(* a sale names the token that is held, an order rests on quotes of its    *)
(* own market, and everything that belongs to a market changes with it.    *)
(*                                                                         *)
(* The inductive invariant Switched says what holds in which await of a    *)
(* switch.                                                                 *)
(***************************************************************************)
EXTENDS MarketSlots, TLAPS

\* The position is of the traded market: the tokens change only without one, and
\* from the moment this is decided until they change none can be acquired.
Positioned ==
  /\ shares # NoShares => shares.market = traded /\ shares.side \in Side
  /\ At("priceToBeat") => shares = NoShares
  /\ sale.sold = sale.held

\* One feed at most, of the book in use; it runs while the loop does, but for the
\* awaits in which the book changes.
OneFeed ==
  /\ feed = book.id /\ feeds \subseteq {feed}
  /\ At("ended") => feeds = {}
  /\ At("cancelled") => book.id < MaxBooks
  /\ traded # None /\ Running /\ loop.at \notin Switching => feeds = {book.id}

\* The subscriptions follow the tokens one await after the other.
Subscribed ==
  /\ traded # None /\ Running /\ loop.at \notin Switching =>
       subscribed = traded /\ watched \in {traded, None}
  /\ At("marketChannel") => subscribed = traded
  /\ loop.at \in {"userChannel", "cancelled"} =>
       subscribed = traded /\ watched \in {traded, None}
  /\ loop.at \in {"decide", "openUp", "openDown"} => traded # None
  /\ At("priceToBeat") \/ At("tokens") => loop.slot # None

\* Unless an answer of the refresh has crossed the switch, a known time of success means
\* quotes of the traded market, and none is known during a switch.
Quoted ==
  /\ beat \in {None, traded}
  /\ ~crossed => /\ success # "none" => book.quotes = traded /\ traded # None
                 /\ loop.at \in Switching => success = "none"
  /\ ageLimit /\ ~order.crossed => order.quotes = order.market

Switched == TypeOK /\ Positioned /\ OneFeed /\ Subscribed /\ Quoted

LEMMA CountsOK == Markets \in Nat /\ Markets >= 1 /\ MaxBooks \in Nat /\ MaxBooks >= 1
  BY CountsAssumption

LEMMA InitSwitched == Init => Switched
<1> SUFFICES ASSUME Init PROVE Switched
  OBVIOUS
<1>1. TypeOK
  <2>1. /\ 1 \in 1 .. Markets /\ 0 \in Known /\ 0 \in 0 .. MaxBooks /\ 0 \in 0 .. Mixed
        /\ "top" \in Places /\ NoShares \in Token
    BY CountsOK DEF Known, Mixed, Places, NoShares, Token, None
  <2> QED BY <2>1 DEF Init, TypeOK, None
<1>2. Positioned /\ OneFeed
  BY DEF Init, Positioned, OneFeed, At, None, Running
<1>3. Subscribed /\ Quoted
  BY DEF Init, Subscribed, Quoted, At, None, Switching
<1> QED BY <1>1, <1>2, <1>3 DEF Switched

---------------------------------------------------------------------------
(* One lemma per part of the invariant.  Most actions leave its variables  *)
(* alone, which is said once; the others have a step each.                 *)

\* The actions other than those of a switch, a tick, a decision or the end.
Aside ==
  \/ SlotPasses \/ PairArrives \/ PairLost \/ OracleMessage \/ RefreshAsks
  \/ (\E valid \in Answers : RefreshStores(valid)) \/ BookAges

\* The type invariant, by the state that changes together.
LoopTyped ==
  /\ live \in BOOLEAN /\ refreshing \in BOOLEAN /\ ageLimit \in BOOLEAN
  /\ slot \in 1 .. Markets
  /\ loop \in [at : Places, slot : Known]
  /\ checked \in Known /\ traded \in Known /\ beat \in Known

FeedTyped ==
  /\ subscribed \in Known /\ watched \in Known /\ wsPair \in BOOLEAN /\ fetch \in Known
  /\ success \in {"none", "fresh", "old", "wall"} /\ crossed \in BOOLEAN

BookTyped ==
  /\ book \in [id : 0 .. MaxBooks, quotes : 0 .. Mixed, oracle : BOOLEAN]
  /\ feed \in 0 .. MaxBooks /\ feeds \subseteq 0 .. MaxBooks

TradeTyped ==
  /\ shares \in Token /\ rested \in BOOLEAN
  /\ order \in [market : Known, quotes : 0 .. Mixed, crossed : BOOLEAN]
  /\ sale \in [held : Token, sold : Token]

LEMMA TypeParts == TypeOK <=> LoopTyped /\ FeedTyped /\ BookTyped /\ TradeTyped
  BY DEF TypeOK, LoopTyped, FeedTyped, BookTyped, TradeTyped

\* Markets are quotes, and there are the values a fresh state begins with.
LEMMA Members ==
  /\ None \in Known /\ Known \subseteq 0 .. Mixed /\ Mixed \in 0 .. Mixed
  /\ NoShares \in Token /\ \A side \in Side : side \in Side \cup {"none"}
  /\ \A id \in 0 .. MaxBooks : id < MaxBooks => id + 1 \in 0 .. MaxBooks
  BY CountsOK DEF None, Known, Mixed, NoShares, Token

LEMMA LoopTypedKept ==
  ASSUME TypeOK, Next
  PROVE  LoopTyped'
<1> USE TypeParts, Members DEF LoopTyped, Goto, Places, Switching, setting
<1>1. CASE CheckSlot
  <2>1. slot \in Known
    BY CountsOK DEF Known
  <2> QED BY <1>1, <2>1 DEF CheckSlot
<1>2. CASE NoCheck \/ TokensFound \/ TokensMissing
  BY <1>2 DEF NoCheck, TokensFound, TokensMissing
<1>3. ASSUME NEW answered \in BOOLEAN, TokensChange(answered) PROVE LoopTyped'
  BY <1>3 DEF TokensChange, PriceToBeat
<1>4. CASE UserChannelChanges \/ BookChanges \/ FeedEnds
  BY <1>4 DEF UserChannelChanges, BookChanges, FeedEnds
<1>5. CASE NothingToDecide \/ Tick \/ Hold
  BY <1>5 DEF NothingToDecide, Tick, Hold
<1>6. ASSUME NEW side \in Side, OpenLive(side) \/ OpenPaper(side) \/ CloseLive(side)
      PROVE  LoopTyped'
  BY <1>6 DEF OpenLive, OpenPaper, CloseLive
<1>7. CASE ClosePaper \/ Shutdown \/ Stop
  BY <1>7 DEF ClosePaper, Shutdown, Stop
<1>8. CASE Answered
  BY <1>8 DEF Answered, OpenAnswered, CloseAnswered
<1>9. CASE SlotPasses
  BY <1>9, CountsOK DEF SlotPasses
<1>10. CASE Aside /\ ~SlotPasses
  BY <1>10 DEF Aside, PairArrives, PairLost, OracleMessage, RefreshAsks, RefreshStores,
     BookAges
<1> QED BY <1>1, <1>2, <1>3, <1>4, <1>5, <1>6, <1>7, <1>8, <1>9, <1>10
        DEF Next, LoopStep, Switch, Decide, Answered, Aside

LEMMA FeedTypedKept ==
  ASSUME TypeOK, Next
  PROVE  FeedTyped'
<1> USE TypeParts, Members DEF LoopTyped, FeedTyped, channels, quotes
<1>1. CASE CheckSlot \/ NoCheck \/ TokensFound \/ TokensMissing
  BY <1>1 DEF CheckSlot, NoCheck, TokensFound, TokensMissing
<1>2. ASSUME NEW answered \in BOOLEAN, TokensChange(answered) PROVE FeedTyped'
  BY <1>2 DEF TokensChange, ForgetFreshness
<1>3. CASE UserChannelChanges \/ BookChanges \/ FeedEnds
  BY <1>3 DEF UserChannelChanges, BookChanges, FeedEnds
<1>4. CASE NothingToDecide \/ Tick \/ Hold
  BY <1>4 DEF NothingToDecide, Tick, Hold
<1>5. ASSUME NEW side \in Side, OpenLive(side) \/ OpenPaper(side) \/ CloseLive(side)
      PROVE  FeedTyped'
  BY <1>5 DEF OpenLive, OpenPaper, CloseLive
<1>6. CASE ClosePaper \/ Shutdown \/ Stop
  BY <1>6 DEF ClosePaper, Shutdown, Stop
<1>7. CASE Answered
  BY <1>7 DEF Answered, OpenAnswered, CloseAnswered
<1>8. CASE Aside
  BY <1>8 DEF Aside, SlotPasses, PairArrives, PairLost, OracleMessage, RefreshAsks,
     RefreshStores, BookAges
<1> QED BY <1>1, <1>2, <1>3, <1>4, <1>5, <1>6, <1>7, <1>8
        DEF Next, LoopStep, Switch, Decide, Answered, Aside

LEMMA BookTypedKept ==
  ASSUME TypeOK, OneFeed, Next
  PROVE  BookTyped'
<1> USE TypeParts, Members DEF BookTyped, quotes
<1>1. CASE UNCHANGED <<book, feed, feeds>>
  BY <1>1
<1>2. NewBook.id = book.id + 1 /\ (book.id < MaxBooks => NewBook \in
        [id : 0 .. MaxBooks, quotes : 0 .. Mixed, oracle : BOOLEAN])
  BY DEF NewBook
<1>3. CASE BookChanges
  <2>1. CASE FeedToCancel
    BY <1>1, <1>3, <2>1 DEF BookChanges
  <2>2. CASE ~FeedToCancel
    <3>1. book.id < MaxBooks /\ StartFeed
      BY <1>3, <2>2 DEF BookChanges
    <3>2. NewBook.id \in 0 .. MaxBooks
      BY <1>2, <3>1
    <3> HIDE DEF NewBook
    <3> QED BY <1>2, <3>1, <3>2 DEF StartFeed
  <2> QED BY <2>1, <2>2
<1>4. CASE FeedEnds
  <2>1. book.id < MaxBooks
    BY <1>4 DEF FeedEnds, OneFeed
  <2>2. NewBook.id \in 0 .. MaxBooks
    BY <1>2, <2>1
  <2> QED BY <1>2, <1>4, <2>1, <2>2 DEF FeedEnds
<1>5. CASE Tick
  BY <1>5 DEF Tick, LoopTyped
<1>6. CASE OracleMessage
  BY <1>6 DEF OracleMessage
<1>7. ASSUME NEW valid \in Answers, RefreshStores(valid) PROVE BookTyped'
  BY <1>7 DEF RefreshStores, FeedTyped
<1>8. CASE Shutdown
  BY <1>8 DEF Shutdown
<1>9. CASE CheckSlot \/ NoCheck \/ TokensFound \/ TokensMissing \/ UserChannelChanges
           \/ NothingToDecide \/ Hold \/ ClosePaper \/ Stop \/ Answered
           \/ (\E answered \in BOOLEAN : TokensChange(answered))
  BY <1>1, <1>9 DEF CheckSlot, NoCheck, TokensFound, TokensMissing, UserChannelChanges,
     NothingToDecide, Hold, ClosePaper, Stop, Answered, OpenAnswered, CloseAnswered,
     TokensChange
<1>10. CASE \E side \in Side : OpenLive(side) \/ OpenPaper(side) \/ CloseLive(side)
  BY <1>1, <1>10 DEF OpenLive, OpenPaper, CloseLive
<1>11. CASE SlotPasses \/ PairArrives \/ PairLost \/ RefreshAsks \/ BookAges
  BY <1>1, <1>11 DEF SlotPasses, PairArrives, PairLost, RefreshAsks, BookAges
<1> QED BY <1>3, <1>4, <1>5, <1>6, <1>7, <1>8, <1>9, <1>10, <1>11
        DEF Next, LoopStep, Switch, Decide

LEMMA TradeTypedKept ==
  ASSUME TypeOK, Next
  PROVE  TradeTyped'
<1> USE TypeParts, Members DEF TradeTyped, trades
<1>1. CASE UNCHANGED <<shares, order, sale>> /\ rested' \in BOOLEAN
  BY <1>1
<1>2. \A side \in Side : [market |-> traded, side |-> side] \in Token
  BY DEF LoopTyped, Token
<1>3. ConditionalToken(CloseSide("UP")) \in Token
      /\ \A side \in Side : ConditionalToken(CloseSide(side)) \in Token
  <2>1. \A side \in Side : CloseSide(side) \in Side
    BY DEF CloseSide
  <2> QED BY <1>2, <2>1 DEF ConditionalToken, Side
<1>4. ASSUME NEW side \in Side, OpenLive(side) PROVE TradeTyped'
  <2>1. order' \in [market : Known, quotes : 0 .. Mixed, crossed : BOOLEAN]
    BY <1>4 DEF OpenLive, LoopTyped, BookTyped, FeedTyped
  <2> QED BY <1>4, <2>1 DEF OpenLive
<1>5. ASSUME NEW side \in Side, OpenPaper(side) PROVE TradeTyped'
  BY <1>2, <1>5 DEF OpenPaper
<1>6. ASSUME NEW side \in Side, CloseLive(side) PROVE TradeTyped'
  BY <1>3, <1>6 DEF CloseLive
<1>7. ASSUME NEW side \in Side, NEW filled \in BOOLEAN, OpenAnswered(side, filled)
      PROVE  TradeTyped'
  BY <1>2, <1>7 DEF OpenAnswered
<1>8. ASSUME NEW all \in BOOLEAN, CloseAnswered(all) PROVE TradeTyped'
  BY <1>8 DEF CloseAnswered
<1>9. CASE ClosePaper
  BY <1>9 DEF ClosePaper
<1>10. CASE Shutdown
  BY <1>3, <1>10 DEF Shutdown
<1>11. CASE CheckSlot \/ NoCheck \/ TokensFound \/ TokensMissing \/ Switch
            \/ NothingToDecide \/ Tick \/ Hold \/ Stop
  BY <1>1, <1>11 DEF CheckSlot, NoCheck, TokensFound, TokensMissing, Switch, TokensChange,
     UserChannelChanges, BookChanges, FeedEnds, NothingToDecide, Tick, Hold, Stop
<1>12. CASE Aside
  BY <1>1, <1>12 DEF Aside, SlotPasses, PairArrives, PairLost, OracleMessage, RefreshAsks,
     RefreshStores, BookAges
<1> QED BY <1>4, <1>5, <1>6, <1>7, <1>8, <1>9, <1>10, <1>11, <1>12
        DEF Next, LoopStep, Decide, Answered, Aside

LEMMA TypeKept ==
  ASSUME TypeOK, OneFeed, Next
  PROVE  TypeOK'
<1>1. (TypeOK <=> LoopTyped /\ FeedTyped /\ BookTyped /\ TradeTyped)'
  BY DEF TypeOK, LoopTyped, FeedTyped, BookTyped, TradeTyped
<1> QED BY <1>1, LoopTypedKept, FeedTypedKept, BookTypedKept, TradeTypedKept

LEMMA PositionedKept ==
  ASSUME Switched, Next
  PROVE  Positioned'
<1> USE DEF Switched, Positioned, TypeOK, At, Goto
<1>1. CASE UNCHANGED <<shares, sale, traded>> /\ loop'.at # "priceToBeat"
  BY <1>1
<1>2. CASE TokensFound
  BY <1>2 DEF TokensFound, MaySwitch, trades
<1>3. ASSUME NEW answered \in BOOLEAN, TokensChange(answered) PROVE Positioned'
  BY <1>3 DEF TokensChange, trades
<1>4. ASSUME NEW side \in Side, NEW filled \in BOOLEAN, OpenAnswered(side, filled)
      PROVE  Positioned'
  BY <1>4 DEF OpenAnswered
<1>5. ASSUME NEW side \in Side, OpenPaper(side) \/ CloseLive(side)
      PROVE  Positioned'
  BY <1>5 DEF OpenPaper, CloseLive, CloseSide, ConditionalToken, Token
<1>6. CASE ClosePaper
  BY <1>6 DEF ClosePaper
<1>7. ASSUME NEW all \in BOOLEAN, CloseAnswered(all) PROVE Positioned'
  BY <1>7 DEF CloseAnswered
<1>8. CASE Shutdown
  BY <1>8 DEF Shutdown, CloseSide, ConditionalToken, Token
<1>9. CASE Aside \/ Stop
  <2>1. UNCHANGED <<shares, sale, traded>>
    BY <1>9 DEF Aside, SlotPasses, PairArrives, PairLost, OracleMessage, RefreshAsks,
       RefreshStores, BookAges, Stop, trades
  <2>2. loop' = loop \/ loop'.at = "stopping"
    BY <1>9 DEF Aside, SlotPasses, PairArrives, PairLost, OracleMessage, RefreshAsks,
       RefreshStores, BookAges, Stop
  <2> QED BY <2>1, <2>2
<1>10. CASE CheckSlot \/ NoCheck \/ TokensMissing \/ UserChannelChanges \/ BookChanges
            \/ FeedEnds \/ NothingToDecide \/ Tick \/ Hold
  <2>1. UNCHANGED <<shares, sale, traded>> /\ loop'.at # "priceToBeat"
    BY <1>10 DEF CheckSlot, NoCheck, TokensMissing, UserChannelChanges, BookChanges,
       FeedEnds, NothingToDecide, Tick, Hold, trades
  <2> QED BY <1>1, <2>1
<1>11. ASSUME NEW side \in Side, OpenLive(side) PROVE Positioned'
  BY <1>11 DEF OpenLive
<1> QED BY <1>2, <1>3, <1>4, <1>5, <1>6, <1>7, <1>8, <1>9, <1>10, <1>11
        DEF Next, LoopStep, Switch, Decide, Answered, Aside

LEMMA OneFeedKept ==
  ASSUME Switched, Next
  PROVE  OneFeed'
<1> USE DEF Switched, OneFeed, TypeOK, At, Goto, Running, Switching
<1>1. CASE CheckSlot \/ NoCheck \/ TokensFound \/ TokensMissing
  BY <1>1 DEF CheckSlot, NoCheck, TokensFound, TokensMissing, quotes, channels
<1>2. ASSUME NEW answered \in BOOLEAN, TokensChange(answered) PROVE OneFeed'
  BY <1>2 DEF TokensChange
<1>3. CASE UserChannelChanges
  BY <1>3 DEF UserChannelChanges, quotes
<1>4. CASE BookChanges
  BY <1>4 DEF BookChanges, FeedToCancel, StartFeed, NewBook
<1>5. CASE FeedEnds
  BY <1>5 DEF FeedEnds, NewBook
<1>6. CASE NothingToDecide \/ Tick \/ Hold
  BY <1>6 DEF NothingToDecide, Tick, Hold, quotes
<1>7. ASSUME NEW side \in Side, OpenLive(side) \/ OpenPaper(side) \/ CloseLive(side)
      PROVE  OneFeed'
  BY <1>7 DEF OpenLive, OpenPaper, CloseLive, quotes
<1>8. CASE ClosePaper \/ Shutdown \/ Stop
  BY <1>8 DEF ClosePaper, Shutdown, Stop, quotes
<1>9. CASE Answered
  BY <1>9 DEF Answered, OpenAnswered, CloseAnswered, quotes
<1>10. CASE Aside
  BY <1>10 DEF Aside, SlotPasses, PairArrives, PairLost, OracleMessage, RefreshAsks,
     RefreshStores, BookAges, quotes
<1> QED BY <1>1, <1>2, <1>3, <1>4, <1>5, <1>6, <1>7, <1>8, <1>9, <1>10
        DEF Next, LoopStep, Switch, Decide, Answered, Aside

LEMMA SubscribedKept ==
  ASSUME Switched, Next
  PROVE  Subscribed'
<1> USE DEF Switched, Subscribed, TypeOK, At, Goto, Running, Switching
<1>1. CASE CheckSlot \/ NoCheck \/ TokensFound \/ TokensMissing
  BY <1>1, CountsOK DEF CheckSlot, NoCheck, TokensFound, TokensMissing, channels, None
<1>2. ASSUME NEW answered \in BOOLEAN, TokensChange(answered) PROVE Subscribed'
  BY <1>2 DEF TokensChange
<1>3. CASE UserChannelChanges
  BY <1>3 DEF UserChannelChanges
<1>4. CASE BookChanges
  BY <1>4 DEF BookChanges, channels
<1>5. CASE FeedEnds
  BY <1>5 DEF FeedEnds, channels
<1>6. CASE NothingToDecide \/ Tick \/ Hold
  BY <1>6 DEF NothingToDecide, Tick, Hold, channels
<1>7. ASSUME NEW side \in Side, OpenLive(side) \/ OpenPaper(side) \/ CloseLive(side)
      PROVE  Subscribed'
  BY <1>7 DEF OpenLive, OpenPaper, CloseLive, channels
<1>8. CASE ClosePaper \/ Shutdown \/ Stop
  BY <1>8 DEF ClosePaper, Shutdown, Stop, channels
<1>9. CASE Answered
  BY <1>9 DEF Answered, OpenAnswered, CloseAnswered, channels
<1>10. CASE Aside
  BY <1>10 DEF Aside, SlotPasses, PairArrives, PairLost, OracleMessage, RefreshAsks,
     RefreshStores, BookAges, channels
<1> QED BY <1>1, <1>2, <1>3, <1>4, <1>5, <1>6, <1>7, <1>8, <1>9, <1>10
        DEF Next, LoopStep, Switch, Decide, Answered, Aside

LEMMA QuotedKept ==
  ASSUME Switched, Next
  PROVE  Quoted'
<1> USE DEF Switched, Quoted, TypeOK, At, Goto, Switching, setting
<1>1. CASE CheckSlot \/ NoCheck \/ TokensFound \/ TokensMissing
  BY <1>1 DEF CheckSlot, NoCheck, TokensFound, TokensMissing, quotes, trades
<1>2. ASSUME NEW answered \in BOOLEAN, TokensChange(answered) PROVE Quoted'
  BY <1>2 DEF TokensChange, PriceToBeat, ForgetFreshness, trades
<1>3. CASE UserChannelChanges
  BY <1>3 DEF UserChannelChanges, quotes, trades
<1>4. CASE BookChanges \/ FeedEnds
  BY <1>4 DEF BookChanges, FeedEnds, trades
<1>5. CASE NothingToDecide \/ Hold
  BY <1>5 DEF NothingToDecide, Hold, quotes, trades
<1>6. CASE Tick
  BY <1>6 DEF Tick, trades
<1>7. ASSUME NEW side \in Side, OpenLive(side) PROVE Quoted'
  BY <1>7 DEF OpenLive, BookIsFresh, quotes
<1>8. ASSUME NEW side \in Side, OpenPaper(side) \/ CloseLive(side)
      PROVE  Quoted'
  BY <1>8 DEF OpenPaper, CloseLive, quotes
<1>9. CASE ClosePaper \/ Shutdown \/ Stop
  BY <1>9 DEF ClosePaper, Shutdown, Stop, quotes, trades
<1>10. CASE Answered
  BY <1>10 DEF Answered, OpenAnswered, CloseAnswered, quotes
<1>11. CASE OracleMessage
  BY <1>11 DEF OracleMessage, trades, None
<1>12. CASE RefreshAsks
  BY <1>12 DEF RefreshAsks, trades
<1>13. ASSUME NEW valid \in Answers, RefreshStores(valid) PROVE Quoted'
  <2>1. UNCHANGED <<loop, traded, beat, ageLimit, order>> /\ fetch # None
    BY <1>13 DEF RefreshStores, trades
  <2>2. CASE UNCHANGED <<book, success, crossed>>
    BY <2>1, <2>2
  <2>3. CASE valid # "none" /\ book.id > 0 /\ ~crossed'
    <3> HIDE DEF Switching
    <3>1. /\ book' = [book EXCEPT !.quotes = IF valid = "both" \/ @ = fetch THEN fetch
                                              ELSE Mixed]
          /\ success' = IF valid = "both" THEN "wall" ELSE success
          /\ crossed' = (\/ fetch # traded \/ loop.at \in Switching
                         \/ valid = "one" /\ crossed)
      BY <1>13, <2>3 DEF RefreshStores, quotes, trades, setting, channels
    <3>2. fetch = traded /\ loop.at \notin Switching /\ (valid = "one" => ~crossed)
      BY <2>3, <3>1
    <3>3. book'.quotes = IF valid = "both" \/ book.quotes = fetch THEN fetch ELSE Mixed
      BY <3>1
    <3>4. CASE valid = "both"
      BY <2>1, <2>3, <3>1, <3>2, <3>3, <3>4
    <3>5. CASE valid = "one"
      BY <2>1, <2>3, <3>1, <3>2, <3>3, <3>5
    <3> QED BY <2>3, <3>4, <3>5 DEF Answers
  <2>4. CASE crossed'
    BY <2>1, <2>4
  <2> QED BY <1>13, <2>2, <2>3, <2>4 DEF RefreshStores
<1>14. CASE SlotPasses \/ PairArrives \/ PairLost \/ BookAges
  BY <1>14 DEF SlotPasses, PairArrives, PairLost, BookAges, quotes, trades
<1> QED BY <1>1, <1>2, <1>3, <1>4, <1>5, <1>6, <1>7, <1>8, <1>9, <1>10, <1>11, <1>12, <1>13, <1>14
        DEF Next, LoopStep, Switch, Decide, Answered

LEMMA NextSwitched == Switched /\ [Next]_vars => Switched'
<1> SUFFICES ASSUME Switched, [Next]_vars PROVE Switched'
  OBVIOUS
<1>1. CASE Next
  BY <1>1, TypeKept, PositionedKept, OneFeedKept, SubscribedKept, QuotedKept DEF Switched
<1>2. CASE UNCHANGED vars
  BY <1>2 DEF vars, Switched, TypeOK, Positioned, OneFeed, Subscribed, Quoted, At, Running,
     setting, channels, quotes, trades
<1> QED BY <1>1, <1>2

LEMMA SpecSwitched == Spec => []Switched
  BY InitSwitched, NextSwitched, PTL DEF Spec

---------------------------------------------------------------------------
(* The theorems. *)

\* Type correctness of the main loop's state.
THEOREM TypeCorrect == Spec => []TypeOK
  BY SpecSwitched, PTL DEF Switched

\* A sale names the token that is held, however long its slot is over.
THEOREM SalesNameTheToken == Spec => []SellsItsOwnToken
<1>1. Switched => SellsItsOwnToken
  BY DEF Switched, Positioned, SellsItsOwnToken
<1> QED BY <1>1, SpecSwitched, PTL

\* With an age limit an order rests on quotes of its own market, unless an answer of the
\* refresh crossed the switch and the book has not been filled since.
THEOREM OrdersRestOnTheirQuotes == Spec => []OpensOnItsOwnQuotes
<1>1. Switched => OpensOnItsOwnQuotes
  BY DEF Switched, Quoted, OpensOnItsOwnQuotes
<1> QED BY <1>1, SpecSwitched, PTL

\* The price to beat never outlives its market.
THEOREM BeatIsTheMarkets == Spec => []BeatIsThisMarkets
<1>1. Switched => BeatIsThisMarkets
  BY DEF Switched, Quoted, BeatIsThisMarkets
<1> QED BY <1>1, SpecSwitched, PTL

\* One feed at most, and when decisions are made nothing is of another market than the
\* traded one.
THEOREM AllSwitched == Spec => []EverythingSwitches
<1>1. Switched => EverythingSwitches
  BY DEF Switched, OneFeed, Subscribed, EverythingSwitches, At, Running, Switching
<1> QED BY <1>1, SpecSwitched, PTL

=============================================================================
