----------------------------- MODULE MCTradeJournal -----------------------------
(* TradeJournal with a queue of two rows, and a bound on the rows. *)
EXTENDS TradeJournal
=============================================================================
