-------------------------- MODULE UserOrderCache_proofs --------------------------
(***************************************************************************)
(* Proofs about UserOrderCache, for any orders, waiting calls, sizes and   *)
(* limits.                                                                 *)
(*                                                                         *)
(* The three safety properties are not inductive by themselves.  FilledIs- *)
(* Real needs that no message under way, and no trade that can still be    *)
(* confirmed, speaks of more shares than were matched (SaidIsReal).        *)
(* WaitersMissNothing needs that a waiting call's event is in the list     *)
(* unless its own order was evicted (WaitersAreListed): only then does a   *)
(* touch of its order wake it.  CacheAndStatesAgree follows the keys       *)
(* through a touch: taking one out and appending it keeps the others in    *)
(* order, at most one is too many, and the oldest goes.                    *)
(***************************************************************************)
EXTENDS UserOrderCache, FiniteSetTheorems, WellFoundedInduction, TLAPS

---------------------------------------------------------------------------
(* Sequences without repetition. *)

\* Every two elements of r come in the same order in s.
InOrder(r, s) ==
  \A i, j \in DOMAIN r : i < j => \E a, b \in DOMAIN s : a < b /\ r[i] = s[a] /\ r[j] = s[b]

\* A non-empty set of naturals has a least element.
LEMMA LeastNat ==
  ASSUME NEW T \in SUBSET Nat, T # {}
  PROVE  \E n \in T : \A m \in T : n <= m
<1> DEFINE R == {ss \in Nat \X Nat : ss[1] < ss[2]}
<1>1. IsWellFoundedOn(R, Nat)
  BY NatLessThanWellFounded DEF OpToRel
<1>2. \A m, k \in Nat : m < k => <<m, k>> \in R
  OBVIOUS
<1> HIDE DEF R
<1>3. PICK n \in T : \A m \in T : ~(<<m, n>> \in R)
  <2>1. T \subseteq Nat
    OBVIOUS
  <2>2. QED
    BY <1>1, <2>1, WFMin
<1>4. ASSUME NEW m \in T PROVE n <= m
  <2>1. n \in Nat /\ m \in Nat /\ ~(<<m, n>> \in R)
    BY <1>3
  <2>2. ~(m < n)
    BY <2>1, <1>2
  <2>3. QED
    BY <2>1, <2>2
<1>5. QED
  BY <1>4

\* The first occurrence goes.
LEMMA FirstGoes ==
  ASSUME NEW S, NEW s \in Seq(S), NEW e, e \in ToSet(s)
  PROVE  \E n \in DOMAIN s :
           /\ s[n] = e
           /\ RemoveFirst(s, e) = SubSeq(s, 1, n - 1) \o SubSeq(s, n + 1, Len(s))
<1> DEFINE I == {i \in 1..Len(s) : s[i] = e}
<1>1. I # {} /\ I \in SUBSET Nat /\ DOMAIN s = 1..Len(s)
  BY DEF ToSet
<1>2. PICK n \in I : \A m \in I : n <= m
  BY <1>1, LeastNat
<1>3. Min(I) \in I
  BY <1>2 DEF Min
<1>4. SelectInSeq(s, LAMBDA v : v = e) = Min(I)
  BY <1>1 DEF SelectInSeq
<1>5. \E i \in 1..Len(s) : s[i] = e
  BY <1>1
<1>6. RemoveFirst(s, e) = RemoveAt(s, SelectInSeq(s, LAMBDA v : v = e))
  BY <1>5 DEF RemoveFirst
<1>7. RemoveFirst(s, e) = RemoveAt(s, Min(I))
  BY <1>4, <1>6
<1>8. QED
  BY <1>3, <1>7, <1>1 DEF RemoveAt

\* What is left when an element is taken out.
LEMMA RemoveFirstIs ==
  ASSUME NEW S, NEW s \in Seq(S), IsInjective(s), NEW e
  PROVE  /\ RemoveFirst(s, e) \in Seq(S) /\ Len(RemoveFirst(s, e)) <= Len(s)
         /\ ToSet(RemoveFirst(s, e)) = ToSet(s) \ {e}
         /\ IsInjective(RemoveFirst(s, e)) /\ InOrder(RemoveFirst(s, e), s)
<1>1. CASE e \notin ToSet(s)
  <2>1. RemoveFirst(s, e) = s
    BY <1>1 DEF RemoveFirst, ToSet
  <2>2. QED
    BY <2>1, <1>1 DEF InOrder, ToSet
<1>2. CASE e \in ToSet(s)
  <2>1. PICK n \in DOMAIN s :
          s[n] = e /\ RemoveFirst(s, e) = SubSeq(s, 1, n - 1) \o SubSeq(s, n + 1, Len(s))
    BY <1>2, FirstGoes
  <2> DEFINE r == RemoveFirst(s, e)
             At == [i \in 1..(Len(s) - 1) |-> IF i < n THEN i ELSE i + 1]
  <2>2. /\ SubSeq(s, 1, n - 1) \in Seq(S) /\ Len(SubSeq(s, 1, n - 1)) = n - 1
        /\ \A i \in 1..(n - 1) : SubSeq(s, 1, n - 1)[i] = s[i]
    BY <2>1
  <2>3. /\ SubSeq(s, n + 1, Len(s)) \in Seq(S) /\ Len(SubSeq(s, n + 1, Len(s))) = Len(s) - n
        /\ \A i \in 1..(Len(s) - n) : SubSeq(s, n + 1, Len(s))[i] = s[n + i]
    BY <2>1
  <2> HIDE DEF r
  <2>4. PICK x \in Seq(S), y \in Seq(S) :
          /\ r = x \o y /\ Len(x) = n - 1 /\ Len(y) = Len(s) - n
          /\ \A i \in 1..(n - 1) : x[i] = s[i]
          /\ \A i \in 1..(Len(s) - n) : y[i] = s[n + i]
    BY <2>1, <2>2, <2>3 DEF r
  <2>12. n \in Nat /\ 1 <= n /\ n <= Len(s) /\ Len(s) \in Nat
    BY <2>1
  <2>13. r \in Seq(S) /\ Len(r) = Len(s) - 1 /\ DOMAIN r = 1..(Len(s) - 1)
    BY <2>4, <2>12
  <2>14. ASSUME NEW i \in 1..(Len(s) - 1)
         PROVE  r[i] = s[IF i < n THEN i ELSE i + 1]
    <3>1. CASE i < n
      BY <3>1, <2>4, <2>12
    <3>2. CASE ~(i < n)
      <4>1. r[i] = y[i - (n - 1)] /\ i - (n - 1) \in 1..(Len(s) - n)
        BY <3>2, <2>4, <2>12
      <4>2. \A j \in 1..(Len(s) - n) : y[j] = s[n + j]
        BY <2>4
      <4>3. PICK j \in 1..(Len(s) - n) : j = i - (n - 1)
        BY <4>1
      <4>4. n + j = i + 1
        BY <4>3, <2>12
      <4>5. QED
        BY <3>2, <4>1, <4>2, <4>3, <4>4
    <3>3. QED
      BY <3>1, <3>2
  <2>5. /\ \A i \in 1..(Len(s) - 1) : r[i] = s[At[i]] /\ At[i] \in DOMAIN s \ {n}
        /\ \A i, j \in 1..(Len(s) - 1) : i < j => At[i] < At[j]
    <3>1. \A i \in 1..(Len(s) - 1) : At[i] = IF i < n THEN i ELSE i + 1
      OBVIOUS
    <3>2. \A i \in 1..(Len(s) - 1) : r[i] = s[At[i]]
      BY <2>14, <3>1
    <3>3. QED
      BY <3>1, <3>2, <2>12
  <2>6. \A k \in DOMAIN s \ {n} : \E i \in 1..(Len(s) - 1) : At[i] = k
    <3>1. \A k \in DOMAIN s \ {n} : LET i == IF k < n THEN k ELSE k - 1
                                    IN i \in 1..(Len(s) - 1) /\ At[i] = k
      BY <2>1
    <3>2. QED
      BY <3>1, <2>1
  <2> HIDE DEF At
  <2>7. \A k \in DOMAIN s : k # n => s[k] # e
    BY <2>1 DEF IsInjective
  <2>8. ToSet(r) = ToSet(s) \ {e}
    <3>1. ASSUME NEW v \in ToSet(r) PROVE v \in ToSet(s) \ {e}
      BY <2>13, <2>5, <2>7 DEF ToSet
    <3>2. ASSUME NEW v \in ToSet(s) \ {e} PROVE v \in ToSet(r)
      <4>1. PICK k \in DOMAIN s \ {n} : s[k] = v
        BY <2>1 DEF ToSet
      <4>2. PICK i \in 1..(Len(s) - 1) : At[i] = k
        BY <2>6
      <4>3. QED
        BY <4>1, <4>2, <2>5, <2>13 DEF ToSet
    <3>3. QED
      BY <3>1, <3>2
  <2>9. IsInjective(r)
    <3>1. SUFFICES ASSUME NEW i \in 1..(Len(s) - 1), NEW j \in 1..(Len(s) - 1), r[i] = r[j]
                   PROVE  i = j
      BY <2>13 DEF IsInjective
    <3>2. At[i] = At[j]
      BY <3>1, <2>5 DEF IsInjective
    <3>3. ~(i < j) /\ ~(j < i)
      BY <3>2, <2>5 DEF At
    <3>4. QED
      BY <3>3
  <2>10. InOrder(r, s)
    <3>1. ASSUME NEW i \in DOMAIN r, NEW j \in DOMAIN r, i < j
          PROVE  \E a, b \in DOMAIN s : a < b /\ r[i] = s[a] /\ r[j] = s[b]
      <4>1. i \in 1..(Len(s) - 1) /\ j \in 1..(Len(s) - 1)
        BY <2>13
      <4>2. At[i] < At[j] /\ At[i] \in DOMAIN s /\ At[j] \in DOMAIN s
        BY <3>1, <4>1, <2>5
      <4>3. r[i] = s[At[i]] /\ r[j] = s[At[j]]
        BY <4>1, <2>5
      <4>4. QED
        BY <4>2, <4>3
    <3>2. QED
      BY <3>1 DEF InOrder
  <2>11. QED
    BY <2>13, <2>8, <2>9, <2>10 DEF r
<1>3. QED
  BY <1>1, <1>2

\* A sequence without repetition is as long as its set is large.
LEMMA InjectiveLength ==
  ASSUME NEW S, NEW s \in Seq(S), IsInjective(s)
  PROVE  IsFiniteSet(ToSet(s)) /\ Cardinality(ToSet(s)) = Len(s)
<1>1. s \in Bijection(1..Len(s), ToSet(s))
  BY DEF Bijection, Injection, Surjection, IsInjective, ToSet
<1>2. Len(s) \in Nat /\ ExistsBijection(1..Len(s), ToSet(s))
  BY <1>1 DEF ExistsBijection
<1>3. QED
  BY <1>2, FS_NatBijection, FS_CountingElements
---------------------------------------------------------------------------
(* The inductive invariant. *)

\* What the variables hold.
Statuses == {"matched", "partially_matched", "live", "canceled", "failed"}
Row == [status : Statuses, filled : Nat, age : 0..2]
Message == [order : Orders,
            type : {"PLACEMENT", "UPDATE", "CANCELLATION", "MATCHED", "CONFIRMED", "FAILED"},
            size : Nat, role : {"taker", "maker"}]
Trade == [order : Orders, size : Nat, upto : Nat]
Call == [order : Orders \cup {None}, phase : {"idle", "waiting", "woken"}]

States == {"FILLED", "CANCELLED", "PARTIAL", "PENDING", "FAILED"}

\* The type invariant.
TypeOK ==
  /\ book \in [Orders -> {"new", "resting", "gone"}]
  /\ matched \in [Orders -> Nat]
  /\ trades \subseteq Trade
  /\ wire \in Seq(Message)
  /\ up \in BOOLEAN /\ reconnecting \in BOOLEAN
  /\ rows \in [DOMAIN rows -> Row] /\ DOMAIN rows \subseteq Orders
  /\ recent \in Seq(Orders)
  /\ states \in [DOMAIN states -> States]
  /\ pending \subseteq Orders
  /\ waiter \in [Waiters -> Call]
  /\ listed \subseteq Waiters /\ heard \subseteq Waiters /\ cut \subseteq Waiters

\* Nothing that is said, or can still be said, exceeds what was matched.
SaidIsReal ==
  /\ \A i \in DOMAIN wire : wire[i].size <= matched[wire[i].order]
  /\ \A t \in trades : t.size <= matched[t.order]

\* A call that waits has its event in the list, unless its order was evicted.
WaitersAreListed ==
  \A w \in Waiters : waiter[w].phase = "waiting" => w \in listed \cup cut

\* The history is of calls that were made.
HeardAreCalls == \A w \in heard \cup cut : waiter[w].phase # "idle"

\* The keys fit the cache.
KeysFit == Len(recent) <= CacheMax

\* The inductive invariant.
IInv ==
  /\ TypeOK
  /\ CacheAndStatesAgree /\ KeysFit
  /\ FilledIsReal /\ SaidIsReal
  /\ WaitersMissNothing /\ WaitersAreListed /\ HeardAreCalls

USE DEF None

---------------------------------------------------------------------------
(* The exchange's steps. *)

\* What is sent joins the messages under way, or is lost.
LEMMA SendIs ==
  ASSUME TypeOK, NEW msgs \in Seq(Message), Send(msgs), NEW m \in [Orders -> Nat],
         \A i \in DOMAIN wire : wire[i].size <= m[wire[i].order],
         \A i \in DOMAIN msgs : msgs[i].size <= m[msgs[i].order]
  PROVE  wire' \in Seq(Message) /\ \A i \in DOMAIN wire' : wire'[i].size <= m[wire'[i].order]
<1>1. CASE wire' = wire
  BY <1>1 DEF TypeOK
<1>2. CASE wire' = wire \o msgs
  <2>1. wire \in Seq(Message) /\ wire' \in Seq(Message)
    BY <1>2 DEF TypeOK
  <2>2. ASSUME NEW i \in DOMAIN wire'
        PROVE  \/ i \in DOMAIN wire /\ wire'[i] = wire[i]
               \/ i - Len(wire) \in DOMAIN msgs /\ wire'[i] = msgs[i - Len(wire)]
    BY <1>2, <2>1
  <2>3. QED
    BY <2>1, <2>2
<1>3. QED
  BY <1>1, <1>2 DEF Send

\* A step of the exchange keeps IInv when it only adds to what was matched and
\* sends what was matched.
ExchangeStep(msgs) ==
  /\ msgs \in Seq(Message) /\ Send(msgs)
  /\ matched' \in [Orders -> Nat] /\ \A o \in Orders : matched[o] <= matched'[o]
  /\ \A i \in DOMAIN msgs : msgs[i].size <= matched'[msgs[i].order]
  /\ book' \in [Orders -> {"new", "resting", "gone"}]
  /\ trades' \subseteq Trade /\ \A t \in trades' : t.size <= matched'[t.order]
  /\ UNCHANGED <<up, reconnecting, cacheVars, waitVars>>

\* A step of the exchange keeps the invariant when what it says is matched.
LEMMA ExchangeStepInv == ASSUME IInv, NEW msgs, ExchangeStep(msgs) PROVE IInv'
<1> USE DEF IInv, ExchangeStep, cacheVars, waitVars
<1>1. \A i \in DOMAIN wire : wire[i] \in Message /\ wire[i].size <= matched'[wire[i].order]
  <2>1. ASSUME NEW i \in DOMAIN wire PROVE wire[i] \in Message
    BY DEF TypeOK
  <2>2. \A i \in DOMAIN wire : wire[i].order \in Orders /\ wire[i].size \in Nat
    BY <2>1 DEF Message
  <2>3. matched \in [Orders -> Nat]
    BY DEF TypeOK
  <2>4. QED
    BY <2>1, <2>2, <2>3 DEF SaidIsReal
<1>2. wire' \in Seq(Message) /\ \A i \in DOMAIN wire' : wire'[i].size <= matched'[wire'[i].order]
  BY <1>1, SendIs
<1>3. TypeOK'
  BY <1>2 DEF TypeOK
<1>4. FilledIsReal'
  BY DEF FilledIsReal, TypeOK, Row
<1>5. SaidIsReal'
  BY <1>2 DEF SaidIsReal
<1>6. CacheAndStatesAgree' /\ KeysFit'
  BY DEF CacheAndStatesAgree, KeysFit
<1>7. WaitersMissNothing' /\ WaitersAreListed' /\ HeardAreCalls'
  BY DEF WaitersMissNothing, WaitersAreListed, HeardAreCalls
<1>8. QED
  BY <1>2, <1>3, <1>4, <1>5, <1>6, <1>7

\* An order that is placed shows no shares.
LEMMA PlaceInv == ASSUME IInv, NEW o \in Orders, Place(o) PROVE IInv'
<1>1. ExchangeStep(<<Said(o, "PLACEMENT", 0, "maker")>>)
  BY DEF IInv, Place, ExchangeStep, TypeOK, Said, Message, SaidIsReal
<1>2. QED
  BY <1>1, ExchangeStepInv

\* A cancelled order keeps its matched shares.
LEMMA CancelInv == ASSUME IInv, NEW o \in Orders, Cancel(o) PROVE IInv'
<1>1. ExchangeStep(<<Said(o, "CANCELLATION", matched[o], "maker")>>)
  BY DEF IInv, Cancel, ExchangeStep, TypeOK, Said, Message, SaidIsReal
<1>2. QED
  BY <1>1, ExchangeStepInv

\* A trade is confirmed or fails with the shares it had.
LEMMA SettleInv == ASSUME IInv, NEW t \in trades, Settle(t) PROVE IInv'
<1>1. PICK type \in {"CONFIRMED", "FAILED"}, role \in {"taker", "maker"} :
        Send(<<Said(t.order, type, t.size, role)>>)
  BY DEF Settle
<1>2. t \in Trade /\ t.size <= matched[t.order] /\ t.order \in Orders /\ t.size \in Nat
  BY DEF IInv, TypeOK, SaidIsReal, Trade
<1>3. ExchangeStep(<<Said(t.order, type, t.size, role)>>)
  BY <1>1, <1>2 DEF IInv, Settle, ExchangeStep, TypeOK, Said, Message, SaidIsReal
<1>4. QED
  BY <1>3, ExchangeStepInv

\* The matched shares only grow, and the order's update and trade say no more.
LEMMA MatchInv == ASSUME IInv, NEW o \in Orders, NEW n \in 1..Size, Match(o, n) PROVE IInv'
<1>1. matched \in [Orders -> Nat] /\ n \in Nat /\ matched[o] \in Nat
  BY UserOrderCacheAssumption DEF IInv, TypeOK, UserOrderCacheAssumption
<1>2. PICK total \in Nat : total = matched[o] + n
  BY <1>1
<1> DEFINE update == Said(o, "UPDATE", total, "maker")
           trade  == Said(o, "MATCHED", n, "maker")
<1>3. matched' = [matched EXCEPT ![o] = total]
  BY <1>2 DEF Match
<1>4. /\ book' = [book EXCEPT ![o] = "gone"] \/ book' = book
      /\ trades' = trades \cup {[order |-> o, size |-> n, upto |-> total]}
      /\ Send(<<update, trade>>) \/ Send(<<trade, update>>)
      /\ UNCHANGED <<up, reconnecting, cacheVars, waitVars>>
  BY <1>2 DEF Match
<1>5. matched' \in [Orders -> Nat] /\ \A p \in Orders : matched[p] <= matched'[p]
  BY <1>1, <1>2, <1>3
<1>6. /\ update \in Message /\ update.order = o /\ update.size = total
      /\ trade \in Message /\ trade.order = o /\ trade.size = n
  BY <1>1 DEF Said, Message
<1>7. matched'[o] = total /\ n <= total
  BY <1>1, <1>2, <1>3
<1>8. trades' \subseteq Trade /\ \A t \in trades' : t.size <= matched'[t.order]
  <2>1. \A t \in trades : /\ t \in Trade /\ t.order \in Orders
                          /\ t.size \in Nat /\ t.size <= matched[t.order]
    BY DEF IInv, TypeOK, SaidIsReal, Trade
  <2>2. \A t \in trades : t.size <= matched'[t.order]
    BY <2>1, <1>1, <1>5
  <2>3. PICK t \in Trade : t = [order |-> o, size |-> n, upto |-> total]
    BY <1>1 DEF Trade
  <2>4. t.size <= matched'[t.order]
    BY <2>3, <1>7
  <2>5. QED
    BY <2>1, <2>2, <2>3, <2>4, <1>4
<1>9. book' \in [Orders -> {"new", "resting", "gone"}]
  BY <1>4 DEF IInv, TypeOK
<1> HIDE DEF update, trade
<1>10. CASE Send(<<update, trade>>)
  <2>1. ExchangeStep(<<update, trade>>)
    BY <1>4, <1>5, <1>6, <1>7, <1>8, <1>9, <1>10 DEF ExchangeStep
  <2>2. QED
    BY <2>1, ExchangeStepInv
<1>11. CASE Send(<<trade, update>>)
  <2>1. ExchangeStep(<<trade, update>>)
    BY <1>4, <1>5, <1>6, <1>7, <1>8, <1>9, <1>11 DEF ExchangeStep
  <2>2. QED
    BY <2>1, ExchangeStepInv
<1>12. QED
  BY <1>4, <1>10, <1>11

---------------------------------------------------------------------------
(* The connection, and the age of the rows. *)

\* A lost connection loses messages, never a row or an event.
LEMMA ConnectionInv == ASSUME IInv, Disconnect \/ Connect PROVE IInv'
<1> USE DEF IInv, Disconnect, Connect, exchangeVars, cacheVars, waitVars
<1>1. wire' \in Seq(Message) /\ (wire' = wire \/ DOMAIN wire' = {})
  <2>1. CASE wire' = wire
    BY <2>1 DEF TypeOK
  <2>2. CASE wire' = <<>>
    <3>1. <<>> \in Seq(Message) /\ Len(<<>>) = 0
      OBVIOUS
    <3>2. DOMAIN wire' = 1..Len(wire')
      BY <2>2, <3>1
    <3>3. QED
      BY <2>2, <3>1, <3>2
  <2>3. QED
    BY <2>1, <2>2
<1>2. TypeOK'
  BY <1>1 DEF TypeOK
<1>3. SaidIsReal'
  BY <1>1 DEF SaidIsReal
<1>4. FilledIsReal' /\ CacheAndStatesAgree' /\ KeysFit'
  BY DEF FilledIsReal, CacheAndStatesAgree, KeysFit
<1>5. WaitersMissNothing' /\ WaitersAreListed' /\ HeardAreCalls'
  BY DEF WaitersMissNothing, WaitersAreListed, HeardAreCalls
<1>6. QED
  BY <1>2, <1>3, <1>4, <1>5

\* Rows grow old in the order of the keys.
LEMMA TimePassesInv == ASSUME IInv, TimePasses PROVE IInv'
<1> USE DEF IInv
<1>1. PICK n \in 1..Len(recent) :
        LET aged == {o \in {recent[i] : i \in 1..n} : rows[o].age < 2}
        IN rows' = [o \in DOMAIN rows |->
                      IF o \in aged THEN [rows[o] EXCEPT !.age = @ + 1] ELSE rows[o]]
  BY DEF TimePasses
<1> DEFINE aged == {o \in {recent[i] : i \in 1..n} : rows[o].age < 2}
<1>2. /\ DOMAIN rows' = DOMAIN rows /\ rows \in [DOMAIN rows -> Row]
      /\ \A o \in DOMAIN rows :
           rows'[o] = IF o \in aged THEN [rows[o] EXCEPT !.age = @ + 1] ELSE rows[o]
  BY <1>1 DEF TypeOK
<1>3. ASSUME NEW o \in DOMAIN rows
      PROVE  /\ rows'[o] \in Row /\ rows'[o].status = rows[o].status
             /\ rows'[o].filled = rows[o].filled
             /\ rows'[o].age = IF o \in aged THEN rows[o].age + 1 ELSE rows[o].age
             /\ rows[o].age \in 0..2
  <2>1. PICK r \in Row : r = rows[o]
    BY <1>2
  <2>2. CASE o \in aged
    <3>1. rows'[o] = [r EXCEPT !.age = r.age + 1] /\ r.age < 2
      BY <1>2, <2>1, <2>2
    <3>2. QED
      BY <2>1, <2>2, <3>1 DEF Row
  <2>3. CASE o \notin aged
    BY <1>2, <2>1, <2>3 DEF Row
  <2>4. QED
    BY <2>2, <2>3
<1>4. /\ recent \in Seq(Orders) /\ recent' = recent /\ states' = states
      /\ UNCHANGED <<book, matched, trades, wire, up, reconnecting, pending>>
      /\ UNCHANGED <<waiter, listed, heard, cut>>
  BY DEF TypeOK, TimePasses, exchangeVars, waitVars
<1>5. TypeOK'
  <2>1. rows' \in [DOMAIN rows' -> Row]
    BY <1>1, <1>2, <1>3
  <2>2. QED
    BY <1>2, <1>4, <2>1 DEF TypeOK
<1>6. ASSUME NEW i \in DOMAIN recent, NEW j \in DOMAIN recent, i < j
      PROVE  rows'[recent[i]].age >= rows'[recent[j]].age
  <2>1. recent[i] \in DOMAIN rows /\ recent[j] \in DOMAIN rows /\ i \in Nat /\ j \in Nat
    BY <1>4 DEF CacheAndStatesAgree, ToSet
  <2>2. PICK a \in 0..2, b \in 0..2 : a = rows[recent[i]].age /\ b = rows[recent[j]].age
    BY <2>1, <1>3
  <2>3. a >= b
    BY <2>2, <1>6 DEF CacheAndStatesAgree
  <2>4. recent[j] \in aged => recent[i] \in aged \/ a = 2
    <3>1. SUFFICES ASSUME recent[j] \in aged PROVE recent[i] \in aged \/ a = 2
      OBVIOUS
    <3>2. PICK k \in 1..n : recent[k] = recent[j]
      BY <3>1
    <3>3. k \in DOMAIN recent
      BY <1>4
    <3>4. k = j
      BY <3>2, <3>3 DEF CacheAndStatesAgree, IsInjective
    <3>5. i \in 1..n
      BY <3>4, <1>6, <2>1, <1>4
    <3>6. QED
      BY <3>5, <2>2
  <2>5. recent[j] \in aged => b < 2
    BY <2>2
  <2>6. recent[i] \in aged => a < 2
    BY <2>2
  <2>7. /\ rows'[recent[i]].age = IF recent[i] \in aged THEN a + 1 ELSE a
        /\ rows'[recent[j]].age = IF recent[j] \in aged THEN b + 1 ELSE b
    BY <1>3, <2>1, <2>2
  <2> HIDE DEF aged
  <2>8. QED
    BY <2>3, <2>4, <2>5, <2>6, <2>7, <2>2
<1>7. CacheAndStatesAgree' /\ KeysFit'
  <2>1. \A o \in DOMAIN rows' : states'[o] = StateOf(rows'[o].status)
    BY <1>2, <1>3, <1>4 DEF CacheAndStatesAgree
  <2>3. \A i, j \in DOMAIN recent' : i < j => rows'[recent'[i]].age >= rows'[recent'[j]].age
    BY <1>4, <1>6
  <2>4. QED
    BY <1>2, <1>4, <2>1, <2>3 DEF CacheAndStatesAgree, KeysFit
<1>8. FilledIsReal' /\ SaidIsReal'
  BY <1>2, <1>3, <1>4 DEF FilledIsReal, SaidIsReal
<1>9. WaitersMissNothing' /\ WaitersAreListed' /\ HeardAreCalls'
  BY <1>4 DEF WaitersMissNothing, WaitersAreListed, HeardAreCalls
<1>10. QED
  BY <1>5, <1>7, <1>8, <1>9

---------------------------------------------------------------------------
(* The calls. *)

\* A call that registers is in the list and has missed nothing.
LEMMA AskInv == ASSUME IInv, NEW w \in Waiters, NEW o \in Orders, Ask(w, o) PROVE IInv'
<1> USE DEF IInv, Ask, exchangeVars, cacheVars
<1>1. \A v \in Waiters :
        waiter'[v] = IF v = w THEN [order |-> o, phase |-> "waiting"] ELSE waiter[v]
  BY DEF TypeOK
<1>2. TypeOK'
  BY DEF TypeOK, Call
<1>3. FilledIsReal' /\ SaidIsReal' /\ CacheAndStatesAgree' /\ KeysFit'
  BY DEF FilledIsReal, SaidIsReal, CacheAndStatesAgree, KeysFit
<1>4. w \notin heard \cup cut
  BY DEF HeardAreCalls
<1>5. WaitersMissNothing' /\ WaitersAreListed' /\ HeardAreCalls'
  BY <1>1, <1>4 DEF WaitersMissNothing, WaitersAreListed, HeardAreCalls, TypeOK
<1>6. QED
  BY <1>2, <1>3, <1>5

\* A call that returns takes no other call's event away.
LEMMA ReturnInv == ASSUME IInv, NEW w \in Waiters, NEW phase, Return(w, phase) PROVE IInv'
<1> USE DEF IInv, Return, exchangeVars, cacheVars
<1>1. \A v \in Waiters : waiter'[v] = IF v = w THEN Idle ELSE waiter[v]
  BY DEF TypeOK
<1>2. TypeOK'
  BY DEF TypeOK, Call, Idle, Unlisted
<1>3. FilledIsReal' /\ SaidIsReal' /\ CacheAndStatesAgree' /\ KeysFit'
  BY DEF FilledIsReal, SaidIsReal, CacheAndStatesAgree, KeysFit
<1>4. Idle.phase = "idle" /\ listed' = listed \ {w} /\ heard' = heard \ {w} /\ cut' = cut \ {w}
  BY DEF Idle, Unlisted
<1>5. WaitersMissNothing' /\ WaitersAreListed' /\ HeardAreCalls'
  BY <1>1, <1>4 DEF WaitersMissNothing, WaitersAreListed, HeardAreCalls, TypeOK
<1>6. QED
  BY <1>2, <1>3, <1>5

---------------------------------------------------------------------------
(* A message is applied. *)

\* The keys after a touch, before and after the trim.
Touched(o) == Append(RemoveFirst(recent, o), o)
KeysLeft(o) == SubSeq(Touched(o), Excess(Touched(o)) + 1, Len(Touched(o)))

\* The touched key is the youngest of at most one too many.
LEMMA TouchedIs ==
  ASSUME IInv, NEW o \in Orders
  PROVE  /\ Touched(o) \in Seq(Orders) /\ Len(Touched(o)) \in 1..(CacheMax + 1)
         /\ Touched(o)[Len(Touched(o))] = o
         /\ ToSet(Touched(o)) = DOMAIN rows \cup {o}
         /\ IsInjective(Touched(o))
         /\ \A i, j \in DOMAIN Touched(o) : i < j /\ j < Len(Touched(o)) =>
              /\ Touched(o)[i] \in DOMAIN rows \ {o} /\ Touched(o)[j] \in DOMAIN rows \ {o}
              /\ rows[Touched(o)[i]].age >= rows[Touched(o)[j]].age
<1>1. /\ recent \in Seq(Orders) /\ IsInjective(recent) /\ ToSet(recent) = DOMAIN rows
      /\ Len(recent) <= CacheMax /\ CacheMax \in Nat
      /\ \A i, j \in DOMAIN recent : i < j => rows[recent[i]].age >= rows[recent[j]].age
  BY UserOrderCacheAssumption
     DEF IInv, TypeOK, CacheAndStatesAgree, KeysFit, UserOrderCacheAssumption
<1>2. PICK r \in Seq(Orders) :
        /\ r = RemoveFirst(recent, o) /\ Len(r) <= Len(recent)
        /\ ToSet(r) = DOMAIN rows \ {o} /\ IsInjective(r) /\ InOrder(r, recent)
  BY <1>1, RemoveFirstIs
<1>3. PICK k \in Seq(Orders) : k = Touched(o) /\ k = Append(r, o)
  <2>1. Touched(o) = Append(r, o)
    BY <1>2 DEF Touched
  <2>2. Append(r, o) \in Seq(Orders)
    BY <1>2
  <2>3. QED
    BY <2>1, <2>2
<1>4. /\ Len(k) = Len(r) + 1 /\ k[Len(k)] = o /\ DOMAIN k = 1..(Len(r) + 1)
      /\ \A i \in 1..Len(r) : k[i] = r[i] /\ k[i] \in DOMAIN rows \ {o}
  BY <1>2, <1>3 DEF ToSet
<1>5. ToSet(k) = DOMAIN rows \cup {o}
  <2>1. \A v \in DOMAIN rows \ {o} : \E i \in 1..Len(r) : r[i] = v
    BY <1>2 DEF ToSet
  <2>2. QED
    BY <2>1, <1>4 DEF ToSet
<1>6. IsInjective(k)
  <2>1. ASSUME NEW i \in DOMAIN k, NEW j \in DOMAIN k, k[i] = k[j] PROVE i = j
    <3>1. CASE i \in 1..Len(r) /\ j \in 1..Len(r)
      BY <3>1, <2>1, <1>2, <1>4 DEF IsInjective
    <3>2. CASE ~(i \in 1..Len(r) /\ j \in 1..Len(r))
      BY <3>2, <2>1, <1>4, <1>2
    <3>3. QED
      BY <3>1, <3>2
  <2>2. QED
    BY <2>1 DEF IsInjective
<1>7. ASSUME NEW i \in DOMAIN k, NEW j \in DOMAIN k, i < j, j < Len(k)
      PROVE  /\ k[i] \in DOMAIN rows \ {o} /\ k[j] \in DOMAIN rows \ {o}
             /\ rows[k[i]].age >= rows[k[j]].age
  <2>1. i \in DOMAIN r /\ j \in DOMAIN r /\ i \in 1..Len(r) /\ j \in 1..Len(r)
    BY <1>7, <1>4, <1>2
  <2>2. PICK a \in DOMAIN recent, b \in DOMAIN recent :
          a < b /\ r[i] = recent[a] /\ r[j] = recent[b]
    BY <2>1, <1>2, <1>7 DEF InOrder
  <2>3. QED
    BY <2>1, <2>2, <1>1, <1>4
<1>8. Len(k) \in 1..(CacheMax + 1)
  BY <1>1, <1>2, <1>4
<1>9. QED
  BY <1>3, <1>4, <1>5, <1>6, <1>7, <1>8

\* The trim leaves the youngest, as many as fit.
LEMMA KeysLeftAre ==
  ASSUME IInv, NEW o \in Orders
  PROVE  /\ KeysLeft(o) \in Seq(Orders) /\ Len(KeysLeft(o)) <= CacheMax
         /\ EvictedOf(Touched(o)) \subseteq DOMAIN rows \ {o}
         /\ ToSet(KeysLeft(o)) = (DOMAIN rows \cup {o}) \ EvictedOf(Touched(o))
         /\ IsInjective(KeysLeft(o))
         /\ \A i, j \in DOMAIN KeysLeft(o) : i < j =>
              /\ KeysLeft(o)[i] \in DOMAIN rows \ {o}
              /\ \/ KeysLeft(o)[j] = o
                 \/ /\ KeysLeft(o)[j] \in DOMAIN rows \ {o}
                    /\ rows[KeysLeft(o)[i]].age >= rows[KeysLeft(o)[j]].age
<1>1. PICK k \in Seq(Orders) :
        /\ k = Touched(o) /\ Len(k) \in 1..(CacheMax + 1) /\ k[Len(k)] = o
        /\ ToSet(k) = DOMAIN rows \cup {o} /\ IsInjective(k)
        /\ \A i, j \in DOMAIN k : i < j /\ j < Len(k) =>
              /\ k[i] \in DOMAIN rows \ {o} /\ k[j] \in DOMAIN rows \ {o}
              /\ rows[k[i]].age >= rows[k[j]].age
  BY TouchedIs
<1>2. CacheMax \in Nat \ {0} /\ Len(k) \in Nat
  BY <1>1, UserOrderCacheAssumption DEF UserOrderCacheAssumption
<1>3. PICK x \in {0, 1} : /\ x = Excess(k) /\ (x = 0 => Len(k) <= CacheMax) /\ (x = 1 => 1 < Len(k))
                          /\ Len(k) - x <= CacheMax
  BY <1>1, <1>2 DEF Excess
<1>4. PICK s \in Seq(Orders) :
        /\ s = KeysLeft(o) /\ Len(s) = Len(k) - x /\ DOMAIN s = 1..(Len(k) - x)
        /\ \A i \in 1..(Len(k) - x) : s[i] = k[i + x]
  <2>1. KeysLeft(o) = SubSeq(k, x + 1, Len(k))
    BY <1>1, <1>3 DEF KeysLeft
  <2>2. /\ SubSeq(k, x + 1, Len(k)) \in Seq(Orders) /\ Len(SubSeq(k, x + 1, Len(k))) = Len(k) - x
        /\ \A i \in 1..(Len(k) - x) : SubSeq(k, x + 1, Len(k))[i] = k[i + x]
    BY <1>1, <1>2, <1>3
  <2>3. PICK s : s = SubSeq(k, x + 1, Len(k))
    OBVIOUS
  <2>4. s \in Seq(Orders) /\ Len(s) = Len(k) - x /\ \A i \in 1..(Len(k) - x) : s[i] = k[i + x]
    BY <2>2, <2>3
  <2>5. s = KeysLeft(o) /\ DOMAIN s = 1..(Len(k) - x)
    BY <2>1, <2>3, <2>4
  <2>6. QED
    BY <2>4, <2>5
<1>5. EvictedOf(k) = {k[i] : i \in 1..x} /\ DOMAIN k = 1..Len(k)
  BY <1>1, <1>3 DEF EvictedOf
<1>6. EvictedOf(k) \subseteq DOMAIN rows \ {o}
  <2>1. \A i \in 1..x : i \in DOMAIN k /\ i < Len(k) /\ Len(k) \in DOMAIN k
    BY <1>2, <1>3, <1>5
  <2>2. \A i \in 1..x : k[i] # o
    BY <2>1, <1>1 DEF IsInjective
  <2>3. QED
    BY <2>1, <2>2, <1>1, <1>5 DEF ToSet
<1>7. ToSet(s) = (DOMAIN rows \cup {o}) \ EvictedOf(k)
  <2>1. ASSUME NEW v \in ToSet(s) PROVE v \in ToSet(k) \ EvictedOf(k)
    <3>1. PICK i \in 1..(Len(k) - x) : v = k[i + x]
      BY <1>4 DEF ToSet
    <3>2. i + x \in DOMAIN k /\ \A j \in 1..x : j \in DOMAIN k /\ j # i + x
      BY <1>2, <1>3, <1>5
    <3>3. \A j \in 1..x : k[j] # v
      BY <3>1, <3>2, <1>1 DEF IsInjective
    <3>4. QED
      BY <3>1, <3>2, <3>3, <1>5 DEF ToSet
  <2>2. ASSUME NEW v \in ToSet(k) \ EvictedOf(k) PROVE v \in ToSet(s)
    <3>1. PICK i \in 1..Len(k) : v = k[i] /\ i \notin 1..x
      BY <1>5 DEF ToSet
    <3>2. i - x \in DOMAIN s /\ s[i - x] = k[i]
      <4>1. i - x \in 1..(Len(k) - x) /\ (i - x) + x = i
        BY <3>1, <1>2, <1>3
      <4>2. QED
        BY <4>1, <1>4
    <3>3. QED
      BY <3>1, <3>2 DEF ToSet
  <2>3. QED
    BY <2>1, <2>2, <1>1
<1>8. IsInjective(s)
  <2>1. ASSUME NEW i \in DOMAIN s, NEW j \in DOMAIN s, s[i] = s[j] PROVE i = j
    <3>1. i + x \in DOMAIN k /\ j + x \in DOMAIN k /\ i \in Nat /\ j \in Nat
      BY <1>2, <1>3, <1>4, <1>5
    <3>2. i + x = j + x
      BY <2>1, <3>1, <1>1, <1>4 DEF IsInjective
    <3>3. QED
      BY <3>1, <3>2, <1>3
  <2>2. QED
    BY <2>1 DEF IsInjective
<1>9. ASSUME NEW i \in DOMAIN s, NEW j \in DOMAIN s, i < j
      PROVE  /\ s[i] \in DOMAIN rows \ {o}
             /\ \/ s[j] = o
                \/ s[j] \in DOMAIN rows \ {o} /\ rows[s[i]].age >= rows[s[j]].age
  <2>1. PICK a \in DOMAIN k, b \in DOMAIN k :
          a = i + x /\ b = j + x /\ a < b /\ s[i] = k[a] /\ s[j] = k[b]
    BY <1>2, <1>3, <1>4, <1>5, <1>9
  <2>2. k[a] \in DOMAIN rows \ {o}
    <3>1. a \in Nat /\ b \in Nat /\ a < Len(k) /\ b <= Len(k) /\ Len(k) \in DOMAIN k
      BY <2>1, <1>5, <1>2
    <3>2. k[a] # o
      BY <3>1, <1>1 DEF IsInjective
    <3>3. QED
      BY <3>2, <1>1 DEF ToSet
  <2>3. CASE b = Len(k)
    BY <2>1, <2>2, <2>3, <1>1
  <2>4. CASE b # Len(k)
    <3>1. b < Len(k)
      BY <2>4, <1>5, <1>2
    <3>2. QED
      BY <2>1, <3>1, <1>1
  <2>5. QED
    BY <2>3, <2>4
<1>10. QED
  BY <1>1, <1>2, <1>3, <1>4, <1>6, <1>7, <1>8, <1>9

\* A message stands for no more shares than it says.
LEMMA MeaningIs ==
  ASSUME NEW m \in Message, NEW a \in Meaning(m)
  PROVE  a.status \in Statuses /\ a.filled \in Nat /\ a.filled <= m.size
<1>1. /\ m.size \in Nat
      /\ m.type \in {"PLACEMENT", "UPDATE", "CANCELLATION", "MATCHED", "CONFIRMED", "FAILED"}
  BY DEF Message
<1>2. \/ m.type \in {"FAILED"} /\ a = [status |-> "failed", filled |-> 0]
      \/ \E s \in Statuses : a = [status |-> s, filled |-> m.size]
  BY <1>1 DEF Meaning, Statuses
<1>3. QED
  BY <1>1, <1>2 DEF Statuses

\* Every status has a state.
LEMMA StatesTyped ==
  ASSUME NEW s \in Statuses
  PROVE  StateOf(s) \in States
BY DEF StateOf, Statuses, States

\* A touch keeps the three maps together and wakes the calls of its order.
LEMMA TouchInv ==
  ASSUME IInv, NEW o \in Orders, NEW a, a.status \in Statuses, a.filled \in Nat,
         a.filled <= matched[o], Touch(o, a),
         wire' \in Seq(Message), \A i \in DOMAIN wire' : wire'[i].size <= matched[wire'[i].order],
         UNCHANGED <<exchangeVars, up, reconnecting>>
  PROVE  IInv'
<1> DEFINE gone == EvictedOf(Touched(o))
           kept == listed \ {w \in listed : waiter[w].order \in gone}
           called == {w \in kept : waiter[w].order = o}
           waits == {w \in Waiters : waiter[w].phase = "waiting"}
<1>1. /\ rows' = [k \in (DOMAIN rows \cup {o}) \ gone |-> IF k = o THEN RowFor(o, a) ELSE rows[k]]
      /\ recent' = KeysLeft(o)
      /\ states' = StatesLeft(Put(states, o, StateOf(a.status)), gone)
      /\ pending' \in {pending \ {o}, pending \cup {o}, pending}
      /\ listed' = kept
      /\ waiter' = [w \in Waiters |->
                      IF w \in called THEN [waiter[w] EXCEPT !.phase = "woken"] ELSE waiter[w]]
      /\ heard' = heard \cup {w \in waits : waiter[w].order = o}
      /\ cut' = cut \cup {w \in waits : waiter[w].order \in gone}
  BY DEF Touch, Touched, KeysLeft
<1>2. /\ recent' \in Seq(Orders) /\ Len(recent') <= CacheMax
      /\ gone \subseteq DOMAIN rows \ {o}
      /\ ToSet(recent') = (DOMAIN rows \cup {o}) \ gone /\ IsInjective(recent')
      /\ \A i, j \in DOMAIN recent' : i < j =>
           /\ recent'[i] \in DOMAIN rows \ {o}
           /\ \/ recent'[j] = o
              \/ /\ recent'[j] \in DOMAIN rows \ {o}
                 /\ rows[recent'[i]].age >= rows[recent'[j]].age
  BY <1>1, KeysLeftAre
<1> HIDE DEF gone
<1>3. RowFor(o, a) \in Row /\ RowFor(o, a).age = 0 /\ RowFor(o, a).filled = a.filled
      /\ RowFor(o, a).status = a.status
  BY DEF RowFor, Row
<1>4. /\ DOMAIN rows \subseteq Orders /\ rows \in [DOMAIN rows -> Row]
      /\ DOMAIN states = DOMAIN rows
      /\ \A k \in DOMAIN rows : states[k] = StateOf(rows[k].status) /\ rows[k].filled <= matched[k]
  BY DEF IInv, TypeOK, CacheAndStatesAgree, FilledIsReal
<1>5. /\ DOMAIN rows' = (DOMAIN rows \cup {o}) \ gone /\ rows'[o] = RowFor(o, a)
      /\ \A k \in DOMAIN rows' : k # o => k \in DOMAIN rows /\ rows'[k] = rows[k]
  BY <1>1, <1>2
<1>6. /\ DOMAIN states' = DOMAIN rows' /\ states'[o] = StateOf(a.status)
      /\ \A k \in DOMAIN rows' : k # o => states'[k] = states[k]
  BY <1>1, <1>2, <1>4, <1>5 DEF StatesLeft, Put
<1>7. \A k \in DOMAIN rows' : rows'[k] \in Row /\ rows'[k].filled <= matched[k]
                              /\ states'[k] = StateOf(rows'[k].status)
  BY <1>3, <1>4, <1>5, <1>6
<1>8. DOMAIN rows' \subseteq Orders /\ rows' \in [DOMAIN rows' -> Row]
  BY <1>1, <1>4, <1>5, <1>7
<1>9. states' \in [DOMAIN states' -> States]
  <2>1. states' = [k \in DOMAIN states' |-> states'[k]]
    BY <1>1 DEF StatesLeft
  <2>2. \A k \in DOMAIN states' : rows'[k].status \in Statuses
    BY <1>6, <1>7 DEF Row
  <2>3. \A k \in DOMAIN states' : states'[k] \in States
    BY <1>6, <1>7, <2>2, StatesTyped
  <2>4. QED
    BY <2>1, <2>3
<1>10. /\ waiter \in [Waiters -> Call] /\ listed \subseteq Waiters
       /\ heard \subseteq Waiters /\ cut \subseteq Waiters
  BY DEF IInv, TypeOK
<1>11. ASSUME NEW w \in Waiters
       PROVE  /\ waiter'[w] \in Call /\ waiter'[w].order = waiter[w].order
              /\ waiter'[w].phase = IF w \in called THEN "woken" ELSE waiter[w].phase
  <2>1. PICK c \in Call : c = waiter[w]
    BY <1>10
  <2>2. waiter'[w] = IF w \in called THEN [c EXCEPT !.phase = "woken"] ELSE c
    BY <1>1, <2>1
  <2> HIDE DEF called
  <2>3. QED
    BY <2>1, <2>2 DEF Call
<1>12. TypeOK'
  <2>1. waiter' \in [Waiters -> Call]
    BY <1>1, <1>11
  <2>2. listed' \subseteq Waiters /\ heard' \subseteq Waiters /\ cut' \subseteq Waiters
    BY <1>1, <1>10
  <2>3. pending' \subseteq Orders
    BY <1>1 DEF IInv, TypeOK
  <2>4. QED
    BY <1>2, <1>8, <1>9, <2>1, <2>2, <2>3 DEF IInv, TypeOK, exchangeVars
<1>13. CacheAndStatesAgree' /\ KeysFit'
  <2>1. Cardinality(DOMAIN rows') <= CacheMax
    BY <1>2, <1>5, InjectiveLength
  <2>2. ASSUME NEW i \in DOMAIN recent', NEW j \in DOMAIN recent', i < j
        PROVE  rows'[recent'[i]].age >= rows'[recent'[j]].age
    <3>1. /\ recent'[i] \in DOMAIN rows' /\ recent'[j] \in DOMAIN rows' /\ recent'[i] # o
          /\ rows'[recent'[i]] = rows[recent'[i]] /\ rows'[recent'[i]].age \in 0..2
      <4>1. recent'[i] \in ToSet(recent') /\ recent'[j] \in ToSet(recent') /\ recent'[i] # o
        BY <1>2, <2>2 DEF ToSet
      <4>2. QED
        BY <4>1, <1>2, <1>5, <1>7 DEF Row
    <3>2. CASE recent'[j] = o
      BY <3>1, <3>2, <1>3, <1>5
    <3>3. CASE recent'[j] # o
      BY <3>1, <3>3, <1>2, <1>5, <2>2
    <3>4. QED
      BY <3>2, <3>3
  <2>3. QED
    BY <1>2, <1>5, <1>6, <1>7, <2>1, <2>2 DEF CacheAndStatesAgree, KeysFit
<1>14. FilledIsReal' /\ SaidIsReal'
  BY <1>7 DEF FilledIsReal, SaidIsReal, exchangeVars, IInv
<1>15. WaitersAreListed'
  <2>1. SUFFICES ASSUME NEW w \in Waiters, waiter'[w].phase = "waiting"
                 PROVE  w \in listed' \cup cut'
    BY DEF WaitersAreListed
  <2>2. waiter[w].phase = "waiting"
    BY <2>1, <1>11
  <2>3. w \in listed \cup cut
    BY <2>2 DEF IInv, WaitersAreListed
  <2>4. QED
    BY <2>2, <2>3, <1>1
<1>16. WaitersMissNothing'
  <2>1. SUFFICES ASSUME NEW w \in heard', w \notin cut', waiter'[w].phase = "waiting" PROVE FALSE
    BY DEF WaitersMissNothing
  <2>2. w \in Waiters /\ waiter[w].phase = "waiting" /\ w \notin called
    BY <2>1, <1>1, <1>10, <1>11
  <2>3. w \notin cut /\ waiter[w].order \notin gone /\ w \in listed
    BY <2>1, <2>2, <1>1 DEF IInv, WaitersAreListed
  <2>4. w \in heard \/ waiter[w].order = o
    BY <2>1, <1>1
  <2>5. w \notin heard
    BY <2>2, <2>3 DEF IInv, WaitersMissNothing
  <2>6. QED
    BY <2>2, <2>3, <2>4, <2>5
<1>17. HeardAreCalls'
  <2>1. \A w \in heard' \cup cut' : w \in Waiters /\ waiter[w].phase # "idle"
    BY <1>1, <1>10 DEF IInv, HeardAreCalls
  <2>2. QED
    BY <2>1, <1>11 DEF HeardAreCalls
<1>18. QED
  BY <1>12, <1>13, <1>14, <1>15, <1>16, <1>17 DEF IInv

\* Each kind of message is ignored or touches its order with real shares.
LEMMA DeliverInv == ASSUME IInv, Deliver PROVE IInv'
<1>1. wire \in Seq(Message) /\ wire # <<>> /\ wire' = Tail(wire)
      /\ \A i \in DOMAIN wire : wire[i] \in Message /\ wire[i].size <= matched[wire[i].order]
  BY DEF IInv, TypeOK, SaidIsReal, Deliver
<1>2. PICK m \in Message : m = Head(wire) /\ m.size <= matched[m.order]
  <2>1. 1 \in DOMAIN wire /\ Head(wire) = wire[1]
    BY <1>1
  <2>2. QED
    BY <2>1, <1>1
<1>3. wire' \in Seq(Message) /\ \A i \in DOMAIN wire' : wire'[i].size <= matched[wire'[i].order]
  <2>1. /\ Tail(wire) \in Seq(Message)
        /\ \A i \in DOMAIN Tail(wire) : i + 1 \in DOMAIN wire /\ Tail(wire)[i] = wire[i + 1]
    BY <1>1
  <2>2. QED
    BY <2>1, <1>1
<1>4. UNCHANGED <<exchangeVars, up, reconnecting>>
  BY DEF Deliver
<1>5. CASE UNCHANGED <<cacheVars, waitVars>>
  <2> USE DEF IInv, cacheVars, waitVars, exchangeVars
  <2>1. TypeOK'
    BY <1>3, <1>4, <1>5 DEF TypeOK
  <2>2. SaidIsReal'
    BY <1>3, <1>4 DEF SaidIsReal
  <2>3. FilledIsReal' /\ CacheAndStatesAgree' /\ KeysFit'
    BY <1>4, <1>5 DEF FilledIsReal, CacheAndStatesAgree, KeysFit
  <2>4. WaitersMissNothing' /\ WaitersAreListed' /\ HeardAreCalls'
    BY <1>5 DEF WaitersMissNothing, WaitersAreListed, HeardAreCalls
  <2>5. QED
    BY <2>1, <2>2, <2>3, <2>4
<1>6. CASE \E a \in Meaning(m) : Touch(m.order, a)
  <2>1. PICK a \in Meaning(m) : Touch(m.order, a)
    BY <1>6
  <2>2. a.status \in Statuses /\ a.filled \in Nat /\ a.filled <= m.size
    BY MeaningIs
  <2>3. m.order \in Orders /\ m.size \in Nat /\ matched[m.order] \in Nat
    BY DEF Message, IInv, TypeOK
  <2>4. a.filled <= matched[m.order]
    BY <2>2, <2>3, <1>2
  <2>5. QED
    BY <2>1, <2>2, <2>3, <2>4, <1>3, <1>4, TouchInv
<1>7. QED
  BY <1>2, <1>5, <1>6 DEF Deliver

---------------------------------------------------------------------------
(* All steps. *)

\* An empty cache and an unopened book satisfy the invariant.
LEMMA InitInv == Init => IInv
<1> SUFFICES ASSUME Init PROVE IInv
  OBVIOUS
<1>1. Len(<<>>) = 0 /\ DOMAIN <<>> = {}
  OBVIOUS
<1>2. TypeOK
  <2>1. \A S : <<>> \in Seq(S) /\ <<>> \in [{} -> S]
    OBVIOUS
  <2>2. wire \in Seq(Message) /\ recent \in Seq(Orders)
    BY <2>1 DEF Init
  <2>3. /\ rows \in [DOMAIN rows -> Row] /\ DOMAIN rows \subseteq Orders
        /\ states \in [DOMAIN states -> States]
    BY <2>1, <1>1 DEF Init
  <2>4. waiter \in [Waiters -> Call]
    BY DEF Init, Idle, Call
  <2>5. QED
    BY <2>2, <2>3, <2>4 DEF Init, TypeOK
<1>3. SaidIsReal /\ FilledIsReal /\ WaitersMissNothing /\ HeardAreCalls
  BY <1>1 DEF Init, SaidIsReal, FilledIsReal, WaitersMissNothing, HeardAreCalls
<1>4. WaitersAreListed
  BY DEF Init, WaitersAreListed, Idle
<1>5. CacheAndStatesAgree /\ KeysFit
  <2>1. Cardinality({}) = 0 /\ CacheMax \in Nat
    BY FS_EmptySet, UserOrderCacheAssumption DEF UserOrderCacheAssumption
  <2>2. QED
    BY <1>1, <2>1 DEF Init, CacheAndStatesAgree, KeysFit, ToSet, IsInjective
<1>6. QED
  BY <1>2, <1>3, <1>4, <1>5 DEF IInv

\* Every step keeps the invariant.
LEMMA NextInv == ASSUME IInv, [Next]_vars PROVE IInv'
<1>1. CASE Exchange
  BY <1>1, PlaceInv, CancelInv, MatchInv, SettleInv DEF Exchange
<1>2. CASE Disconnect \/ Connect
  BY <1>2, ConnectionInv
<1>3. CASE TimePasses
  BY <1>3, TimePassesInv
<1>4. CASE Deliver
  BY <1>4, DeliverInv
<1>5. CASE Calls
  BY <1>5, AskInv, ReturnInv DEF Calls, Resume, Timeout
<1>6. CASE UNCHANGED vars
  <2> USE <1>6 DEF vars
  <2>1. TypeOK' /\ CacheAndStatesAgree' /\ KeysFit' /\ FilledIsReal' /\ SaidIsReal'
    BY DEF IInv, TypeOK, CacheAndStatesAgree, KeysFit, FilledIsReal, SaidIsReal
  <2>2. WaitersMissNothing' /\ WaitersAreListed' /\ HeardAreCalls'
    BY DEF IInv, WaitersMissNothing, WaitersAreListed, HeardAreCalls
  <2>3. QED
    BY <2>1, <2>2 DEF IInv
<1>7. QED
  BY <1>1, <1>2, <1>3, <1>4, <1>5, <1>6 DEF Next

\* The invariant holds in every reachable state.
LEMMA Inductive == Spec => []IInv
  BY InitInv, NextInv, PTL DEF Spec

---------------------------------------------------------------------------
(* The theorems. *)

\* Every variable of the cache keeps its type: an order has a row and a state
\* of the kind the readers expect, whatever messages come.
THEOREM TypeCorrect == Spec => []TypeOK
<1>1. IInv => TypeOK
  BY DEF IInv
<1>2. QED
  BY <1>1, Inductive, PTL

\* Touches and trims keep rows, states and ages of the same orders, of at most
\* as many as are allowed.
THEOREM MapsAgree == Spec => []CacheAndStatesAgree
<1>1. IInv => CacheAndStatesAgree
  BY DEF IInv
<1>2. QED
  BY <1>1, Inductive, PTL

\* No row shows more shares than were matched.
THEOREM FillsAreReal == Spec => []FilledIsReal
<1>1. IInv => FilledIsReal
  BY DEF IInv
<1>2. QED
  BY <1>1, Inductive, PTL

\* No call still waiting has missed an update of its order, unless the order
\* itself was evicted.
THEOREM WaitersAreWoken == Spec => []WaitersMissNothing
<1>1. IInv => WaitersMissNothing
  BY DEF IInv
<1>2. QED
  BY <1>1, Inductive, PTL
=============================================================================
