------------------------------ MODULE MCMarketBook ------------------------------
(* TLC instances of MarketBook. *)
EXTENDS MarketBook
=============================================================================
