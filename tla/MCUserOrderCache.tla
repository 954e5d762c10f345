---------------------------- MODULE MCUserOrderCache ----------------------------
(* UserOrderCache with two orders and two calls. *)
EXTENDS UserOrderCache

CONSTANTS o1, o2, w1, w2

TwoOrders == {o1, o2}
TwoCalls == {w1, w2}
=============================================================================
