---------------------------- MODULE MCOrderEngine ----------------------------
(* TLC instances of OrderEngine. *)
EXTENDS OrderEngine

\* Constraint: a behaviour is not continued once its last request has returned,
\* no poll waits and the worker has nothing to do.  No FSM is registered then, so
\* whatever the exchange still does reaches only queue entries the worker drops.
SomebodyWaits ==
  result.n < MaxRequests \/ caller.at # "idle" \/ polls # {} \/ worker.at # "idle"

\* Constraint: nor is one in which a message waits about an order that has no FSM
\* and that nobody is about to register: the worker will drop it, and the
\* behaviours in which the channel never delivers it are there.
MessagesFindTheirOrder ==
  \A i \in 1..Len(queue) : LET o == queue[i].oid IN
    o = None \/ fsms[o] # None \/ o \in {caller.order, worker.order}
=============================================================================
