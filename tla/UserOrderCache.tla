----------------------------- MODULE UserOrderCache -----------------------------
(***************************************************************************)
(* ClobUserOrderCache (data/clob_user_ws.py): what the user channel's      *)
(* order and trade messages make of an order's row, its state and the      *)
(* pending orders, who is woken, and what get_order_fill() answers.        *)
(*                                                                         *)
(* Every order has Size shares.  Everything runs on the event loop, except *)
(* get_order_fill(), which worker threads call too, under the lock.  The   *)
(* socket delivers in order; what the exchange says while it is down is    *)
(* lost.  Which endpoint is used and the sequence numbers are the module   *)
(* FeedConnection's.                                                       *)
(*                                                                         *)
(* Nothing in the repository waits for an order with this class yet: the   *)
(* calls here are any that keep to its methods.                            *)
(***************************************************************************)
EXTENDS Naturals, Sequences, FiniteSets, SequencesExt, FiniteSetsExt

CONSTANTS
  Orders,    \* the orders of the account
  Waiters,   \* calls of wait_for_fill_with_timeout()
  Size,      \* shares of an order
  CacheMax,  \* _max_order_entries
  WireMax,   \* bound: messages under way
  MaxMatched \* bound: shares matched of all orders

ASSUME UserOrderCacheAssumption ==
  Size \in Nat \ {0} /\ CacheMax \in Nat \ {0} /\ WireMax \in Nat \ {0}
  /\ MaxMatched \in Nat

VARIABLES
  book,          \* exchange: each order is "new", "resting" or "gone"
  matched,       \* exchange: shares matched of each order
  trades,        \* exchange: trades that can still be confirmed or fail
  wire,          \* messages on the socket
  up,            \* the socket is open
  reconnecting,  \* _reconnecting
  rows,          \* _orders: status, filled and the age of ts, as far as it matters
  recent,        \* the keys of rows by ts
  states,        \* _state_machine: the state of each order
  pending,       \* _pending_orders
  waiter,        \* each call: its order and phase; a call that returned may be made again
  listed,        \* _order_events: the calls whose event is in its order's list
  heard,         \* history: the calls whose order was touched after they registered
  cut            \* history: the calls whose order was evicted while they waited

exchangeVars == <<book, matched, trades>>
cacheVars == <<rows, recent, states, pending>>
waitVars == <<waiter, listed, heard, cut>>
vars == <<book, matched, trades, wire, up, reconnecting, rows, recent, states, pending,
          waiter, listed, heard, cut>>

None == "none"
Idle == [order |-> None, phase |-> "idle"]

---------------------------------------------------------------------------
(* The exchange: not in the repository, as the messages the code expects.  *)

Said(o, type, n, role) == [order |-> o, type |-> type, size |-> n, role |-> role]

Send(msgs) ==
  IF up THEN Len(wire) + Len(msgs) <= WireMax /\ wire' = wire \o msgs
        ELSE UNCHANGED wire

Place(o) ==
  /\ book[o] = "new" /\ book' = [book EXCEPT ![o] = "resting"]
  /\ Send(<<Said(o, "PLACEMENT", 0, "maker")>>)
  /\ UNCHANGED <<matched, trades, up, reconnecting, cacheVars, waitVars>>

\* The order's own update and the trade come in either order.  The role matters to the
\* code only when the trade settles, and is chosen there.
Match(o, n) ==
  LET total  == matched[o] + n
      update == Said(o, "UPDATE", total, "maker")
      trade  == Said(o, "MATCHED", n, "maker")
  IN /\ book[o] = "resting" /\ total <= Size
     /\ n + SumFunction(matched) <= MaxMatched
     /\ matched' = [matched EXCEPT ![o] = total]
     /\ book' = IF total = Size THEN [book EXCEPT ![o] = "gone"] ELSE book
     /\ trades' = trades \cup {[order |-> o, size |-> n, upto |-> total]}
     /\ Send(<<update, trade>>) \/ Send(<<trade, update>>)
     /\ UNCHANGED <<up, reconnecting, cacheVars, waitVars>>

Settle(t) ==
  /\ t \in trades /\ trades' = trades \ {t}
  /\ \E type \in {"CONFIRMED", "FAILED"}, role \in {"taker", "maker"} :
       Send(<<Said(t.order, type, t.size, role)>>)
  /\ UNCHANGED <<book, matched, up, reconnecting, cacheVars, waitVars>>

Cancel(o) ==
  /\ book[o] = "resting" /\ book' = [book EXCEPT ![o] = "gone"]
  /\ Send(<<Said(o, "CANCELLATION", matched[o], "maker")>>)
  /\ UNCHANGED <<matched, trades, up, reconnecting, cacheVars, waitVars>>

---------------------------------------------------------------------------
(* run_forever, as far as the cache depends on it. *)

\* An error ends the connection, or a clean close does, which is no error.
Disconnect ==
  /\ up /\ up' = FALSE /\ wire' = <<>>
  /\ reconnecting' \in {TRUE, reconnecting}
  /\ UNCHANGED <<exchangeVars, cacheVars, waitVars>>

Connect ==
  /\ ~up /\ up' = TRUE /\ reconnecting' = FALSE
  /\ UNCHANGED <<exchangeVars, wire, cacheVars, waitVars>>

\* Rows grow old, the ones not touched longest first.
TimePasses ==
  /\ \E n \in 1..Len(recent) :
       LET aged == {o \in {recent[i] : i \in 1..n} : rows[o].age < 2}
       IN /\ aged # {}
          /\ rows' = [o \in DOMAIN rows |->
                        IF o \in aged THEN [rows[o] EXCEPT !.age = @ + 1] ELSE rows[o]]
  /\ UNCHANGED <<exchangeVars, wire, up, reconnecting, recent, states, pending, waitVars>>

---------------------------------------------------------------------------
(* _apply_order_msg, _apply_trade_msg and _touch. *)

\* The status and the fill a message stands for, as a set: empty if ignored.
Meaning(m) ==
  LET is(status, n) == {[status |-> status, filled |-> n]}
  IN CASE m.type = "CANCELLATION" -> is("canceled", m.size)
       [] m.type = "PLACEMENT" -> is("live", m.size)
       [] m.type = "UPDATE" -> is(IF m.size = Size THEN "matched"
                                  ELSE IF m.size > 0 THEN "partially_matched" ELSE "live", m.size)
       [] m.type = "MATCHED" -> is("matched", m.size)
       [] m.type = "CONFIRMED" -> IF m.role = "taker" THEN is("matched", m.size) ELSE {}
       [] m.type = "FAILED" -> IF m.role = "taker" THEN is("failed", 0) ELSE {}

StateOf(status) ==
  CASE status = "matched" -> "FILLED"
    [] status = "canceled" -> "CANCELLED"
    [] status = "partially_matched" -> "PARTIAL"
    [] status = "live" -> "PENDING"
    [] status = "failed" -> "FAILED"

\* Mutant of RowFor: fills are added up.
RowForAdded(o, a) ==
  [status |-> a.status, age |-> 0,
   filled |-> a.filled + IF o \in DOMAIN rows THEN rows[o].filled ELSE 0]

RowFor(o, a) == [status |-> a.status, filled |-> a.filled, age |-> 0]

Completes(status) == status \in {"matched", "canceled", "failed"}

\* _trim_order_caches_locked: the rows touched longest ago go.
Excess(keys) == IF Len(keys) > CacheMax THEN Len(keys) - CacheMax ELSE 0
EvictedOf(keys) == {keys[i] : i \in 1..Excess(keys)}

\* Mutant of StatesLeft: the trim forgets the state machine.
StatesLeftAll(all, evicted) == all

StatesLeft(all, evicted) == [k \in DOMAIN all \ evicted |-> all[k]]

Put(f, o, v) == [k \in DOMAIN f \cup {o} |-> IF k = o THEN v ELSE f[k]]

Touch(o, a) ==
  LET keys    == Append(RemoveFirst(recent, o), o)
      evicted == EvictedOf(keys)
      kept    == listed \ {w \in listed : waiter[w].order \in evicted}
      called  == {w \in kept : waiter[w].order = o}
      waits   == {w \in Waiters : waiter[w].phase = "waiting"}
  IN /\ rows' = [k \in (DOMAIN rows \cup {o}) \ evicted |->
                   IF k = o THEN RowFor(o, a) ELSE rows[k]]
     /\ recent' = SubSeq(keys, Excess(keys) + 1, Len(keys))
     /\ states' = StatesLeft(Put(states, o, StateOf(a.status)), evicted)
     /\ pending' = IF Completes(a.status) THEN pending \ {o}
                   ELSE IF a.status = "live" THEN pending \cup {o} ELSE pending
     /\ listed' = kept
     /\ waiter' = [w \in Waiters |->
                     IF w \in called THEN [waiter[w] EXCEPT !.phase = "woken"] ELSE waiter[w]]
     /\ heard' = heard \cup {w \in waits : waiter[w].order = o}
     /\ cut' = cut \cup {w \in waits : waiter[w].order \in evicted}

Deliver ==
  /\ up /\ wire # <<>> /\ wire' = Tail(wire)
  /\ IF Meaning(Head(wire)) = {} THEN UNCHANGED <<cacheVars, waitVars>>
     ELSE \E a \in Meaning(Head(wire)) : Touch(Head(wire).order, a)
  /\ UNCHANGED <<exchangeVars, up, reconnecting>>

---------------------------------------------------------------------------
(* Readers. *)

\* The limit is doubled while reconnecting.
MaxAge == IF reconnecting THEN 1 ELSE 0

Readable(o) == o \in DOMAIN rows /\ rows[o].age <= MaxAge

\* wait_for_fill_with_timeout: the cache answers at once, or the call registers its event.
Ask(w, o) ==
  /\ waiter[w].phase = "idle"
  /\ ~(Readable(o) /\ rows[o].status \in {"matched", "partially_matched"})
  /\ waiter' = [waiter EXCEPT ![w] = [order |-> o, phase |-> "waiting"]]
  /\ listed' = listed \cup {w}
  /\ UNCHANGED <<exchangeVars, wire, up, reconnecting, cacheVars, heard, cut>>

\* Mutant of Unlisted: the order's whole list goes.
UnlistedAll(w) == {v \in listed : waiter[v].order = waiter[w].order}

\* The finally clause takes the call's own event out of the list.
Unlisted(w) == {w}

\* Woken, the call reads the cache again; timed out, it returns None.
Return(w, phase) ==
  /\ waiter[w].phase = phase
  /\ waiter' = [waiter EXCEPT ![w] = Idle]
  /\ listed' = listed \ Unlisted(w)
  /\ heard' = heard \ {w} /\ cut' = cut \ {w}
  /\ UNCHANGED <<exchangeVars, wire, up, reconnecting, cacheVars>>

Resume(w) == Return(w, "woken")

Timeout(w) == Return(w, "waiting")

---------------------------------------------------------------------------
Init ==
  /\ book = [o \in Orders |-> "new"] /\ matched = [o \in Orders |-> 0] /\ trades = {}
  /\ wire = <<>> /\ up = TRUE /\ reconnecting = FALSE
  /\ rows = <<>> /\ recent = <<>> /\ states = <<>> /\ pending = {}
  /\ waiter = [w \in Waiters |-> Idle]
  /\ listed = {} /\ heard = {} /\ cut = {}

Exchange ==
  \/ \E o \in Orders : Place(o) \/ Cancel(o)
  \/ \E o \in Orders, n \in 1..Size : Match(o, n)
  \/ \E t \in trades : Settle(t)

Calls == \E w \in Waiters : Resume(w) \/ Timeout(w) \/ \E o \in Orders : Ask(w, o)

Next == Exchange \/ Disconnect \/ Connect \/ TimePasses \/ Deliver \/ Calls

Spec == Init /\ [][Next]_vars

---------------------------------------------------------------------------
(* Properties. *)

\* The three maps speak of the same orders, however they are trimmed: the rows,
\* bounded, their states and their age, the ones touched last being youngest.
CacheAndStatesAgree ==
  /\ Cardinality(DOMAIN rows) <= CacheMax
  /\ DOMAIN states = DOMAIN rows /\ ToSet(recent) = DOMAIN rows /\ IsInjective(recent)
  /\ \A o \in DOMAIN rows : states[o] = StateOf(rows[o].status)
  /\ \A i, j \in DOMAIN recent : i < j => rows[recent[i]].age >= rows[recent[j]].age

\* No row shows more shares than the exchange has matched, whatever updates,
\* trades and confirmations of the same shares came in whatever order.
FilledIsReal == \A o \in DOMAIN rows : rows[o].filled <= matched[o]

\* Every call still waiting has not missed an update of its order: other calls
\* that end do not take its event away, nor does the eviction of other orders.
\* Only its own order's does.  ("Returns True if an event was received within
\* timeout".)
WaitersMissNothing == \A w \in heard \ cut : waiter[w].phase # "waiting"
===============================================================================
