---------------------------- MODULE MCFeedConnection ----------------------------
(* FeedConnection as the user feed and as the market feed. *)
EXTENDS FeedConnection
=============================================================================
