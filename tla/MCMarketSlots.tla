------------------------------ MODULE MCMarketSlots ------------------------------
(* TLC instances of MarketSlots. *)
EXTENDS MarketSlots
=============================================================================
