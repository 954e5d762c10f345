---------------------------- MODULE MCTradingLoop ----------------------------
(* TLC instances of TradingLoop. *)
EXTENDS TradingLoop

Losing == -1
=============================================================================
