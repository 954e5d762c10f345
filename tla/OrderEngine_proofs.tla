-------------------------- MODULE OrderEngine_proofs --------------------------
(***************************************************************************)
(* The safety of OrderEngine for every value of its constants, from three  *)
(* inductive invariants.                                                   *)
(*                                                                         *)
(* IInv: types, waiting orders stay reachable by the worker, no FSM is     *)
(* orphaned, a woken waiter finds a final status, every open row is        *)
(* watched.  The worker is one task, so while it is inside                 *)
(* _reprice_or_emergency nobody else can finish the order it handles; and  *)
(* an order id that the exchange has answered but whose answer has not     *)
(* been processed yet occurs nowhere in the engine's maps.                 *)
(*                                                                         *)
(* Backed: no row and no return value reports more than the exchange       *)
(* traded.  Every order that a request places carries the request as its   *)
(* root, a row only ever moves among those orders, and what an event or an *)
(* answer reports of an order is at most what that order has traded.  What *)
(* a request has traded is a sum over its orders: the first section gives  *)
(* the sums of a function of naturals over a finite set.                   *)
(*                                                                         *)
(* Budgets: a request places few orders.  Each request has at most one     *)
(* waiting order, and the orders it has placed by now stay within an       *)
(* allowance that grows with the order's reprices, of which there are at   *)
(* most MaxReprice.                                                        *)
(***************************************************************************)
EXTENDS OrderEngine, FiniteSetTheorems, WellFoundedInduction, TLAPS
---------------------------------------------------------------------------
(* Sums of naturals over finite sets. *)

\* Induction on the subsets of a finite set.
LEMMA SubsetInduction ==
  ASSUME NEW S, IsFiniteSet(S), NEW P, {} \in P,
         \A s \in SUBSET S : s # {} /\ (\A r \in SUBSET S : r \subseteq s /\ r # s => r \in P) => s \in P
  PROVE  \A s \in SUBSET S : s \in P
<1> SUFFICES ASSUME (SUBSET S) \ P # {} PROVE FALSE
  OBVIOUS
<1> DEFINE R == StrictSubsetOrdering(S)
<1>1. IsWellFoundedOn(R, SUBSET S)
  BY FS_StrictSubsetOrderingWellFounded, FS_FiniteSubsetsOfFinite
<1>2. \A r, s \in SUBSET S : r \subseteq s /\ r # s => <<r, s>> \in R
  BY DEF StrictSubsetOrdering
<1> HIDE DEF R
<1>3. PICK s \in (SUBSET S) \ P : \A r \in (SUBSET S) \ P : ~(<<r, s>> \in R)
  <2>1. (SUBSET S) \ P \subseteq SUBSET S
    OBVIOUS
  <2>2. QED
    BY <1>1, <2>1, WFMin
<1>4. QED
  BY <1>2, <1>3

\* A running total over the subsets of S.
Totals(f, S, it) ==
  it = [s \in SUBSET S |-> IF s = {} THEN 0
                           ELSE LET x == CHOOSE x \in s : TRUE IN f[x] + it[s \ {x}]]

\* The sum of f over S is a running total, read at S.
LEMMA SumIsTotal ==
  ASSUME NEW f, NEW S
  PROVE  SumFunctionOnSet(f, S) = (CHOOSE it : Totals(f, S, it))[S]
BY DEF SumFunctionOnSet, FoldFunctionOnSet, MapThenFoldSet, Totals

\* Running totals over a finite set and over a larger one agree on its subsets.
LEMMA TotalsAgree ==
  ASSUME NEW f, NEW S, IsFiniteSet(S), NEW T, S \subseteq T,
         NEW i, NEW j, Totals(f, S, i), Totals(f, T, j)
  PROVE  \A s \in SUBSET S : i[s] = j[s]
<1> DEFINE P == {s \in SUBSET S : i[s] = j[s]}
<1>1. ASSUME NEW s \in SUBSET S
      PROVE  /\ i[s] = IF s = {} THEN 0 ELSE LET x == CHOOSE x \in s : TRUE IN f[x] + i[s \ {x}]
             /\ j[s] = IF s = {} THEN 0 ELSE LET x == CHOOSE x \in s : TRUE IN f[x] + j[s \ {x}]
  <2>1. s \in SUBSET T
    OBVIOUS
  <2>2. i = [r \in SUBSET S |-> IF r = {} THEN 0
                           ELSE LET x == CHOOSE x \in r : TRUE IN f[x] + i[r \ {x}]]
    BY DEF Totals
  <2>3. j = [r \in SUBSET T |-> IF r = {} THEN 0
                           ELSE LET x == CHOOSE x \in r : TRUE IN f[x] + j[r \ {x}]]
    BY DEF Totals
  <2>4. QED
    BY <2>1, <2>2, <2>3
<1>2. {} \in P
  BY <1>1
<1>3. ASSUME NEW s \in SUBSET S, s # {}, \A r \in SUBSET S : r \subseteq s /\ r # s => r \in P
      PROVE  s \in P
  <2> DEFINE x == CHOOSE x \in s : TRUE
  <2>1. x \in s
    BY <1>3
  <2>2. i[s \ {x}] = j[s \ {x}]
    BY <1>3, <2>1
  <2>3. QED
    BY <1>1, <1>3, <2>2
<1> HIDE DEF P
<1>4. \A s \in SUBSET S : s \in P
  BY <1>2, <1>3, SubsetInduction
<1>5. QED
  BY <1>4 DEF P

\* A finite set has a running total.
LEMMA TotalsExist ==
  ASSUME NEW f, NEW S, IsFiniteSet(S)
  PROVE  \E it : Totals(f, S, it)
<1> DEFINE P == {s \in SUBSET S : \E it : Totals(f, s, it)}
           Sum(s) == SumFunctionOnSet(f, s)
<1>1. ASSUME NEW r \in P
      PROVE  Totals(f, r, CHOOSE it : Totals(f, r, it))
  BY <1>1
<1>2. {} \in P
  <2>1. Totals(f, {}, [s \in SUBSET {} |-> 0])
    BY DEF Totals
  <2>2. QED
    BY <2>1
<1>3. ASSUME NEW s \in SUBSET S, s # {}, \A r \in SUBSET S : r \subseteq s /\ r # s => r \in P
      PROVE  s \in P
  <2> DEFINE c(r) == CHOOSE x \in r : TRUE
             rest(r) == r \ {c(r)}
             g == [r \in SUBSET s |-> IF r = s THEN f[c(s)] + Sum(rest(s)) ELSE Sum(r)]
  <2>1. ASSUME NEW r \in SUBSET s, r # s, r # {}
        PROVE  Sum(r) = f[c(r)] + Sum(rest(r))
    <3> DEFINE i == CHOOSE it : Totals(f, r, it)
               j == CHOOSE it : Totals(f, rest(r), it)
    <3>1. c(r) \in r
      BY <2>1
    <3>2. r \in P /\ rest(r) \in P /\ rest(r) \subseteq r
      BY <1>3, <2>1, <3>1
    <3>3. Totals(f, r, i) /\ Totals(f, rest(r), j)
      BY <1>1, <3>2
    <3>4. Sum(r) = i[r] /\ Sum(rest(r)) = j[rest(r)]
      BY SumIsTotal
    <3> HIDE DEF i, j
    <3>5. i[r] = f[c(r)] + i[rest(r)]
      BY <2>1, <3>3 DEF Totals
    <3>6. IsFiniteSet(rest(r))
      BY FS_Subset
    <3>7. j[rest(r)] = i[rest(r)]
      BY <3>2, <3>3, <3>6, TotalsAgree
    <3>8. QED
      BY <3>4, <3>5, <3>7
  <2>2. Sum({}) = 0
    <3> DEFINE i == CHOOSE it : Totals(f, {}, it)
    <3>1. Totals(f, {}, i)
      BY <1>1, <1>2
    <3>2. Sum({}) = i[{}]
      BY SumIsTotal
    <3> HIDE DEF i
    <3>3. QED
      BY <3>1, <3>2 DEF Totals
  <2>3. \A r \in SUBSET s : r # {} => c(r) \in r
    OBVIOUS
  <2> HIDE DEF Sum, c
  <2>4. \A r \in SUBSET s : r # {} => g[rest(r)] = Sum(rest(r))
    <3>1. \A r \in SUBSET s : r # {} => rest(r) \in SUBSET s /\ rest(r) # s
      BY <2>3
    <3>2. QED
      BY <3>1
  <2>5. \A r \in SUBSET s : g[r] = IF r = {} THEN 0 ELSE f[c(r)] + g[rest(r)]
    <3>1. SUFFICES ASSUME NEW r \in SUBSET s
                   PROVE  g[r] = IF r = {} THEN 0 ELSE f[c(r)] + g[rest(r)]
      OBVIOUS
    <3>2. g[r] = IF r = s THEN f[c(s)] + Sum(rest(s)) ELSE Sum(r)
      OBVIOUS
    <3> HIDE DEF g, rest
    <3>3. CASE r = {}
      BY <1>3, <2>2, <3>2, <3>3
    <3>4. CASE r # {}
      BY <1>3, <2>1, <2>4, <3>2, <3>4
    <3>5. QED
      BY <3>3, <3>4
  <2>6. g = [r \in SUBSET s |-> g[r]]
    OBVIOUS
  <2> HIDE DEF g
  <2>7. g = [r \in SUBSET s |-> IF r = {} THEN 0 ELSE f[c(r)] + g[rest(r)]]
    BY <2>5, <2>6
  <2>8. Totals(f, s, g)
    BY <2>7 DEF Totals, c
  <2>9. QED
    BY <2>8
<1>4. S \in P
  <2> HIDE DEF P
  <2>1. QED
    BY <1>2, <1>3, SubsetInduction
<1>5. QED
  BY <1>4

\* The equation that defines a sum.
LEMMA SumUnfolds ==
  ASSUME NEW f, NEW S, IsFiniteSet(S), S # {}
  PROVE  LET x == CHOOSE x \in S : TRUE
         IN  x \in S /\ SumFunctionOnSet(f, S) = f[x] + SumFunctionOnSet(f, S \ {x})
<1> DEFINE x == CHOOSE x \in S : TRUE
           i == CHOOSE it : Totals(f, S, it)
           j == CHOOSE it : Totals(f, S \ {x}, it)
<1>1. x \in S
  OBVIOUS
<1>2. IsFiniteSet(S \ {x})
  BY FS_Subset
<1>3. Totals(f, S, i) /\ Totals(f, S \ {x}, j)
  BY <1>2, TotalsExist
<1>4. SumFunctionOnSet(f, S) = i[S] /\ SumFunctionOnSet(f, S \ {x}) = j[S \ {x}]
  BY SumIsTotal
<1> HIDE DEF i, j
<1>5. i[S] = f[x] + i[S \ {x}]
  BY <1>3 DEF Totals
<1>6. j[S \ {x}] = i[S \ {x}]
  BY <1>2, <1>3, TotalsAgree
<1>7. QED
  BY <1>1, <1>4, <1>5, <1>6

\* The empty sum.
LEMMA SumEmpty == ASSUME NEW f PROVE SumFunctionOnSet(f, {}) = 0
<1> DEFINE i == CHOOSE it : Totals(f, {}, it)
<1>1. Totals(f, {}, i)
  BY FS_EmptySet, TotalsExist
<1>2. SumFunctionOnSet(f, {}) = i[{}]
  BY SumIsTotal
<1> HIDE DEF i
<1>3. QED
  BY <1>1, <1>2 DEF Totals

\* A sum of naturals is a natural.
LEMMA SumIsNat ==
  ASSUME NEW D, NEW f \in [D -> Nat], NEW S \in SUBSET D, IsFiniteSet(S)
  PROVE  \A s \in SUBSET S : SumFunctionOnSet(f, s) \in Nat
<1> DEFINE P == {s \in SUBSET S : SumFunctionOnSet(f, s) \in Nat}
<1>1. {} \in P
  BY SumEmpty
<1>2. ASSUME NEW s \in SUBSET S, s # {}, \A r \in SUBSET S : r \subseteq s /\ r # s => r \in P
      PROVE  s \in P
  <2> DEFINE x == CHOOSE x \in s : TRUE
  <2>1. IsFiniteSet(s)
    BY FS_Subset
  <2>2. x \in s /\ SumFunctionOnSet(f, s) = f[x] + SumFunctionOnSet(f, s \ {x})
    BY <1>2, <2>1, SumUnfolds
  <2>3. f[x] \in Nat /\ SumFunctionOnSet(f, s \ {x}) \in Nat
    BY <1>2, <2>2
  <2>4. QED
    BY <2>2, <2>3
<1> HIDE DEF P
<1>3. \A s \in SUBSET S : s \in P
  BY <1>1, <1>2, SubsetInduction
<1>4. QED
  BY <1>3 DEF P

\* Any summand may be taken out.
LEMMA SumSplits ==
  ASSUME NEW D, NEW f \in [D -> Nat], NEW S \in SUBSET D, IsFiniteSet(S), NEW x \in S
  PROVE  /\ SumFunctionOnSet(f, S) = f[x] + SumFunctionOnSet(f, S \ {x})
         /\ SumFunctionOnSet(f, S \ {x}) \in Nat
<1> DEFINE Sum(s) == SumFunctionOnSet(f, s)
           P == {s \in SUBSET S : \A z \in s : Sum(s) = f[z] + Sum(s \ {z})}
<1>1. {} \in P
  OBVIOUS
<1>2. ASSUME NEW s \in SUBSET S, s # {}, \A r \in SUBSET S : r \subseteq s /\ r # s => r \in P
      PROVE  s \in P
  <2>1. SUFFICES ASSUME NEW z \in s PROVE Sum(s) = f[z] + Sum(s \ {z})
    OBVIOUS
  <2> DEFINE y == CHOOSE y \in s : TRUE
  <2>2. IsFiniteSet(s)
    BY FS_Subset
  <2>3. y \in s /\ Sum(s) = f[y] + Sum(s \ {y})
    BY <1>2, <2>2, SumUnfolds
  <2> HIDE DEF y
  <2>4. CASE z = y
    BY <2>3, <2>4
  <2>5. CASE z # y
    <3>1. s \ {y} \in P /\ s \ {z} \in P
      BY <1>2, <2>3
    <3>2. Sum(s \ {y}) = f[z] + Sum((s \ {y}) \ {z})
      BY <2>5, <3>1
    <3>3. Sum(s \ {z}) = f[y] + Sum((s \ {z}) \ {y})
      BY <2>3, <2>5, <3>1
    <3>4. (s \ {y}) \ {z} = (s \ {z}) \ {y}
      OBVIOUS
    <3>5. Sum((s \ {z}) \ {y}) \in Nat
      BY SumIsNat
    <3>6. f[z] \in Nat /\ f[y] \in Nat
      BY <2>3
    <3> HIDE DEF Sum
    <3>7. QED
      BY <2>3, <3>2, <3>3, <3>4, <3>5, <3>6
  <2>6. QED
    BY <2>4, <2>5
<1> HIDE DEF P
<1>3. S \in P
  BY <1>1, <1>2, SubsetInduction
<1>4. S \ {x} \in SUBSET S
  OBVIOUS
<1>5. Sum(S \ {x}) \in Nat
  BY <1>4, SumIsNat
<1>6. QED
  BY <1>3, <1>5 DEF P

\* More and larger summands make a larger sum.
LEMMA SumGrows ==
  ASSUME NEW D, NEW f \in [D -> Nat], NEW g \in [D -> Nat], NEW S \in SUBSET D, IsFiniteSet(S),
         NEW T \in SUBSET S, \A x \in T : f[x] <= g[x]
  PROVE  SumFunctionOnSet(f, T) <= SumFunctionOnSet(g, S)
<1> DEFINE F(s) == SumFunctionOnSet(f, s)
           G(s) == SumFunctionOnSet(g, s)
           P == {s \in SUBSET S : F(T \cap s) <= G(s)}
<1>0. IsFiniteSet(T)
  BY FS_Subset
<1>1. {} \in P
  <2>1. T \cap {} = {}
    OBVIOUS
  <2>2. QED
    BY <2>1, SumEmpty
<1>2. ASSUME NEW s \in SUBSET S, s # {}, \A r \in SUBSET S : r \subseteq s /\ r # s => r \in P
      PROVE  s \in P
  <2>1. PICK x \in s : TRUE
    BY <1>2
  <2>2. G(s) = g[x] + G(s \ {x}) /\ G(s \ {x}) \in Nat
    <3>1. IsFiniteSet(s) /\ s \in SUBSET D
      BY FS_Subset
    <3>2. QED
      BY <3>1, SumSplits
  <2>3. F(T \cap (s \ {x})) <= G(s \ {x})
    BY <1>2, <2>1
  <2>4. f[x] \in Nat /\ g[x] \in Nat
    OBVIOUS
  <2>5. CASE x \in T
    <3>1. F(T \cap s) = f[x] + F((T \cap s) \ {x}) /\ F((T \cap s) \ {x}) \in Nat
      <4>1. IsFiniteSet(T \cap s) /\ T \cap s \in SUBSET D /\ x \in T \cap s
        BY <2>5, FS_Subset
      <4>2. QED
        BY <4>1, SumSplits
    <3>2. (T \cap s) \ {x} = T \cap (s \ {x})
      OBVIOUS
    <3>3. f[x] <= g[x]
      BY <2>5
    <3> HIDE DEF F, G
    <3>4. F(T \cap s) <= G(s)
      BY <2>2, <2>3, <2>4, <3>1, <3>2, <3>3
    <3>5. QED
      BY <3>4
  <2>6. CASE x \notin T
    <3>1. T \cap s = T \cap (s \ {x}) /\ F(T \cap s) \in Nat
      BY <2>6, SumIsNat
    <3> HIDE DEF F, G
    <3>2. F(T \cap s) <= G(s)
      BY <2>2, <2>3, <2>4, <3>1
    <3>3. QED
      BY <3>2
  <2>7. QED
    BY <2>5, <2>6
<1> HIDE DEF P
<1>3. S \in P
  BY <1>1, <1>2, SubsetInduction
<1>4. T \cap S = T
  OBVIOUS
<1>5. QED
  BY <1>3, <1>4 DEF P

\* ... and a new summand counts in full.
LEMMA SumGrowsBy ==
  ASSUME NEW D, NEW f \in [D -> Nat], NEW g \in [D -> Nat], NEW S \in SUBSET D, IsFiniteSet(S),
         NEW x \in S, NEW T \in SUBSET (S \ {x}), \A y \in T : f[y] <= g[y]
  PROVE  SumFunctionOnSet(f, T) + g[x] <= SumFunctionOnSet(g, S)
<1>1. IsFiniteSet(S \ {x}) /\ S \ {x} \in SUBSET D /\ IsFiniteSet(T) /\ T \in SUBSET D
  BY FS_Subset
<1>2. SumFunctionOnSet(f, T) <= SumFunctionOnSet(g, S \ {x})
  BY <1>1, SumGrows
<1>3. T \in SUBSET T
  OBVIOUS
<1>4. SumFunctionOnSet(f, T) \in Nat
  BY <1>1, <1>3, SumIsNat
<1>5. g[x] \in Nat /\ SumFunctionOnSet(g, S \ {x}) \in Nat
      /\ SumFunctionOnSet(g, S) = g[x] + SumFunctionOnSet(g, S \ {x})
  BY SumSplits
<1>6. QED
  BY <1>2, <1>4, <1>5

---------------------------------------------------------------------------
(* Types, and what is waited for. *)

WorkerType == [at : WorkerPlaces, t : Id \cup {None}, order : Id \cup {None}, reply : Replies]
CallerType == [at : CallerPlaces, side : {"BUY", "SELL"}, order : Id \cup {None},
               reply : Replies, size : Nat, tries : Nat]
ResultType == [side : {"BUY", "SELL"}, root : Id \cup {None}, reported : Nat, n : Nat]

---------------------------------------------------------------------------
(* The inductive invariant. *)

\* The worker, or the caller, has an order id in the answer of its POST.
WorkerPosted == worker.at \in {"placed", "emergencyPlaced"} /\ worker.reply # "none"
CallerPosted == caller.at \in {"posted", "exitPosted"} /\ caller.reply # "none"

\* Such ids were given out by the exchange, and not to both of them.
PostedIds ==
  /\ WorkerPosted => worker.order \in 1..used
  /\ CallerPosted => caller.order \in 1..used
  /\ WorkerPosted /\ CallerPosted => worker.order # caller.order

\* An id the engine has not processed yet occurs in none of its maps.
Unanswered(o) == \/ WorkerPosted /\ o = worker.order
                 \/ CallerPosted /\ o = caller.order
                 \/ used < o
Fresh(o) == o \notin polls \cup active \cup done /\ \A t \in polls : trk[t].oid # o
PostedIsFresh == \A o \in Id : Unanswered(o) => Fresh(o)

\* The order the worker is repricing is being waited for and not woken.
WorkerIsPolled == worker.at \notin {"idle", "timer"} => worker.t \in polls \ done

\* So is, or was, every order the timer event has still to visit.
BatchIsPolled == batch \subseteq polls \cup done

\* An order is in its emergency exit only with a final status.
EmergencyPlaces == {"emergencyFak", "emergencyPrices", "emergencyPlaced"}
EmergencyIsFinal == worker.at \in EmergencyPlaces => trk[worker.t].status \in Terminal

\* An attempt to place is made only while one is left.
PlacingHasTries == caller.at = "placing" => 0 < caller.tries

\* WaitingOrdersAreRegistered for the woken orders as well.
Registered == \A t \in polls : \A o \in Id : fsms[o] = t <=> o = trk[t].oid

IInv ==
  /\ TypeOK
  /\ PostedIds /\ PostedIsFresh
  /\ WorkerIsPolled /\ BatchIsPolled /\ EmergencyIsFinal
  /\ Registered /\ NoOrphanFsm
  /\ WokenWithFinalStatus /\ PendingRowsAreWatched
  /\ PlacingHasTries

USE OrderEngineAssumption DEF OrderEngineAssumption, Id, None, Terminal, Open
USE DEF PostedIds, WorkerPosted, CallerPosted, PostedIsFresh, Unanswered, Fresh,
        WorkerIsPolled, BatchIsPolled, EmergencyPlaces, EmergencyIsFinal, Registered,
        NoOrphanFsm, WokenWithFinalStatus, PendingRowsAreWatched, PlacingHasTries,
        exchVars, engineVars, workVars, callVars

---------------------------------------------------------------------------
(* Types of what the operators return. *)

\* The fields of an exchange order have their types.
LEMMA ExchFields ==
  ASSUME TypeOK, NEW o \in Id
  PROVE  /\ exch[o] \in ExchangeOrder
         /\ exch[o].side \in {"BUY", "SELL"}
         /\ exch[o].size \in Nat /\ exch[o].matched \in Nat
         /\ exch[o].root \in Id \cup {None}
  BY DEF TypeOK, ExchangeOrder

\* The fields of a tracked order have their types.
LEMMA TrkFields ==
  ASSUME TypeOK, NEW t \in Id
  PROVE  /\ trk[t] \in TrackedOrder
         /\ trk[t].side \in {"BUY", "SELL"} /\ trk[t].status \in Statuses
         /\ trk[t].size \in Nat /\ trk[t].filled \in Nat /\ trk[t].reprices \in Nat
         /\ trk[t].oid \in Id
  BY DEF TypeOK, TrackedOrder

\* Truncated subtraction stays in Nat.
LEMMA MinusType == ASSUME NEW a \in Nat, NEW b \in Nat PROVE Minus(a, b) \in Nat
  BY DEF Minus

\* min() of two sizes is a size.
LEMMA LesserType == ASSUME NEW a \in Nat, NEW b \in Nat PROVE Lesser(a, b) \in Nat
  BY DEF Lesser

\* max() of two sizes is a size.
LEMMA GreaterType == ASSUME NEW a \in Nat, NEW b \in Nat PROVE Greater(a, b) \in Nat
  BY DEF Greater

\* remaining_size is never negative.
LEMMA RemainingType == ASSUME TypeOK, NEW t \in Id PROVE Remaining(t) \in Nat
  BY TrkFields, MinusType DEF Remaining

\* A new TrackedOrder has its type.
LEMMA NewTrackedType ==
  ASSUME NEW o \in Id, NEW s \in {"BUY", "SELL"}, NEW n \in Nat,
         NEW st \in Statuses, NEW f \in Nat
  PROVE  NewTracked(o, s, n, st, f) \in TrackedOrder
  BY DEF NewTracked, TrackedOrder

\* A FAK sale never takes more than the wallet holds, and reports a size.
LEMMA FakType ==
  ASSUME TypeOK, NEW n \in Nat, NEW k \in Nat, NEW r, FakSell(n, k, r)
  PROVE  held' \in Nat /\ r \in Nat
  BY DEF FakSell, TypeOK

\* A POST keeps the exchange well typed; an answered id is the newest one.
LEMMA PostType ==
  ASSUME TypeOK, NEW s \in {"BUY", "SELL"}, NEW n \in Nat, NEW root \in Id \cup {None},
         NEW how \in Hows, Post(s, n, root, how)
  PROVE  /\ exch' \in [Id -> ExchangeOrder] /\ used' \in 0..MaxOrders /\ held' \in Nat
         /\ used <= used'
         /\ Placed(how) \in Id \cup {None}
         /\ Reply(how) \in Replies
         /\ Reply(how) # "none" => Placed(how) = used' /\ used' = used + 1
  <1>1. used \in 0..MaxOrders /\ held \in Nat /\ exch \in [Id -> ExchangeOrder]
    BY DEF TypeOK
  <1>2. CASE how = "rejected"
    BY <1>1, <1>2 DEF Post, Placed, Reply, Replies
  <1>3. CASE how # "rejected"
    <2> DEFINE o == used + 1
    <2>1. o \in Id /\ used' = o
      BY <1>1, <1>3 DEF Post
    <2>2. held' \in Nat
      BY <1>1, <1>3 DEF Post
    <2>3. exch' \in [Id -> ExchangeOrder]
      <3> DEFINE e == [side |-> s, size |-> n,
                       matched |-> IF how = "matched" THEN n ELSE 0,
                       st |-> IF how = "matched" THEN "matched" ELSE "live",
                       news |-> how = "matched", root |-> IF root = None THEN o ELSE root]
      <3>1. e \in ExchangeOrder
         BY <2>1 DEF ExchangeOrder
      <3>2. exch' = [exch EXCEPT ![o] = e]
         BY <1>3 DEF Post
      <3> HIDE DEF e, o
      <3> QED BY <3>1, <3>2, <1>1
    <2> QED BY <2>1, <2>2, <2>3, <1>1, <1>3 DEF Placed, Reply, Replies, Hows
  <1> QED BY <1>2, <1>3

---------------------------------------------------------------------------
(* The exchange, the channel and time keep the invariant. *)

\* A trade leaves an exchange order.
LEMMA TradedType ==
  ASSUME NEW e \in ExchangeOrder, NEW k \in Nat
  PROVE  Traded(e, k) \in ExchangeOrder
  <1>1. e.matched + k \in Nat BY DEF ExchangeOrder
  <1> QED BY <1>1 DEF Traded, ExchangeOrder

\* A fill at the exchange touches nothing the engine keeps.
LEMMA FillInv == ASSUME IInv, NEW o \in Id, NEW k \in 1..Size, Fill(o, k) PROVE IInv'
<1>0. TypeOK BY DEF IInv
<1>1. TypeOK'
  <2>0. k \in Nat OBVIOUS
  <2>1. exch' \in [Id -> ExchangeOrder]
    BY <1>0, <2>0, ExchFields, TradedType DEF Fill, TypeOK
  <2>2. held' \in Nat
    BY <1>0, <2>0, ExchFields DEF Fill, TypeOK
  <2>q. QED BY <1>0, <2>1, <2>2 DEF TypeOK, Fill
<1>2. QED BY <1>1 DEF Fill, IInv

\* Handling an order event leaves a tracked order ...
LEMMA HandleType ==
  ASSUME NEW r \in TrackedOrder, NEW e \in OrderEvent
  PROVE  Handle(r, e) \in TrackedOrder
<1>1. e.filled \in Nat /\ r.size \in Nat BY DEF OrderEvent, TrackedOrder
<1>2. Lesser(r.size, e.filled) \in Nat BY <1>1, LesserType
<1> QED BY <1>1, <1>2 DEF Handle, TrackedOrder, OrderEvent, Statuses

\* ... under the same id.
LEMMA HandleKeeps ==
  ASSUME NEW r \in TrackedOrder, NEW e \in OrderEvent
  PROVE  Handle(r, e).oid = r.oid
  BY DEF Handle, TrackedOrder, OrderEvent, Statuses

\* TakeOrderEvent: only an order that is polled and open is touched.
LEMMA TakeOrderEventInv == ASSUME IInv, TakeOrderEvent PROVE IInv'
<1>0. TypeOK BY DEF IInv
<1> DEFINE e == Head(queue)
           t == fsms[e.oid]
<1>1. e \in OrderEvent /\ e.oid \in Id /\ queue' \in Seq(OrderEvent \cup {Timer})
  BY <1>0 DEF TypeOK, TakeOrderEvent, OrderEvent, Timer
<1>2. t \in Id \cup {None}
  BY <1>0, <1>1 DEF TypeOK
<1>3. CASE Ignored(t)
  <2>1. UNCHANGED <<exchVars, engineVars, batch, worker, callVars>>
    BY <1>3 DEF TakeOrderEvent
  <2>2. TypeOK' BY <1>0, <1>1, <2>1 DEF TypeOK
  <2> QED BY <2>1, <2>2 DEF IInv
<1>4. CASE ~Ignored(t)
  <2> DEFINE h == Handle(trk[t], e)
  <2>1. t \in Id /\ t \in polls /\ trk[t].status \notin Terminal
    BY <1>1, <1>2, <1>4 DEF Ignored, IInv, NoOrphanFsm
  <2>2. h \in TrackedOrder /\ h.oid = trk[t].oid
    BY <1>1, <1>0, <2>1, HandleType, HandleKeeps DEF TypeOK
  <2>3. /\ trk' = [trk EXCEPT ![t] = h]
        /\ done' = IF h.status \in Terminal THEN done \cup {t} ELSE done
        /\ worker.at = "idle"
        /\ UNCHANGED <<exchVars, fsms, active, polls, confirmed, batch, worker, callVars>>
    BY <1>4 DEF TakeOrderEvent
  <2> HIDE DEF h, e, t
  <2>4. TypeOK'
    BY <1>0, <1>1, <2>1, <2>2, <2>3 DEF TypeOK
  <2>5. trk \in [Id -> TrackedOrder] BY <1>0 DEF TypeOK
  <2> QED BY <2>1, <2>2, <2>3, <2>4, <2>5 DEF IInv
<1> QED BY <1>3, <1>4

\* ExchangeCancels touches nothing the engine keeps.
LEMMA ExchangeCancelsInv == ASSUME IInv, NEW o \in Id, ExchangeCancels(o) PROVE IInv'
<1>0. TypeOK BY DEF IInv
<1>1. [exch[o] EXCEPT !.st = "canceled", !.news = TRUE] \in ExchangeOrder
  BY <1>0, ExchFields DEF ExchangeOrder
<1>2. TypeOK'
  BY <1>0, <1>1 DEF TypeOK, ExchangeCancels
<1> QED BY <1>2 DEF IInv, ExchangeCancels

\* The queue stays a queue of events.
LEMMA AppendType ==
  ASSUME TypeOK, NEW e \in OrderEvent \cup {Timer}
  PROVE  Append(queue, e) \in Seq(OrderEvent \cup {Timer})
<1>1. queue \in Seq(OrderEvent \cup {Timer}) BY DEF TypeOK
<1> HIDE DEF TypeOK
<1> QED BY <1>1

\* A message of the user channel only lengthens the queue.
LEMMA DeliverInv ==
  ASSUME IInv, NEW o \in Id, NEW k \in 1..Size,
         DeliverOrderMessage(o) \/ DeliverTradeMessage(o, k)
  PROVE  IInv'
<1>0. TypeOK BY DEF IInv
<1>1. [exch[o] EXCEPT !.news = FALSE] \in ExchangeOrder
  BY <1>0, ExchFields DEF ExchangeOrder
<1>2. exch' \in [Id -> ExchangeOrder]
  BY <1>0, <1>1 DEF TypeOK, DeliverOrderMessage, DeliverTradeMessage
<1>3. WsEvent(o, OrderMessageStatus(o), exch[o].matched) \in OrderEvent
  BY <1>0, ExchFields DEF WsEvent, OrderEvent, OrderMessageStatus
<1>4. WsEvent(o, "matched", k) \in OrderEvent
  BY DEF WsEvent, OrderEvent
<1>5. queue' \in Seq(OrderEvent \cup {Timer})
  BY <1>0, <1>3, <1>4, AppendType DEF DeliverOrderMessage, DeliverTradeMessage
<1>6. UNCHANGED <<used, held, engineVars, batch, worker, callVars>>
  BY DEF DeliverOrderMessage, DeliverTradeMessage
<1>7. TypeOK'
  BY <1>0, <1>2, <1>5, <1>6 DEF TypeOK
<1> QED BY <1>6, <1>7 DEF IInv

\* BecomeStale keeps ids and statuses.
LEMMA BecomeStaleInv == ASSUME IInv, NEW t \in Id, BecomeStale(t) PROVE IInv'
<1>0. TypeOK /\ trk \in [Id -> TrackedOrder] BY DEF IInv, TypeOK
<1> DEFINE r == [trk[t] EXCEPT !.stale = TRUE]
<1>a. trk[t] \in TrackedOrder BY <1>0
<1>b. r \in TrackedOrder BY <1>a DEF TrackedOrder
<1>c. r.oid = trk[t].oid /\ r.status = trk[t].status BY <1>a DEF TrackedOrder
<1>1. r \in TrackedOrder /\ r.oid = trk[t].oid /\ r.status = trk[t].status
  BY <1>b, <1>c
<1>2. trk' = [trk EXCEPT ![t] = r]
  BY DEF BecomeStale
<1> HIDE DEF r
<1>3. TypeOK'
  <2>1. trk' \in [Id -> TrackedOrder] BY <1>0, <1>1, <1>2
  <2>2. UNCHANGED <<exchVars, fsms, active, polls, done, confirmed, workVars, callVars>>
    BY DEF BecomeStale
  <2> QED BY <1>0, <2>1, <2>2, Zenon DEF TypeOK
<1>4. PlacingHasTries'
  BY DEF IInv, BecomeStale
<1> QED BY <1>0, <1>1, <1>2, <1>3, <1>4 DEF IInv, BecomeStale

\* Tick only lengthens the queue.
LEMMA TickInv == ASSUME IInv, Tick PROVE IInv'
<1>0. TypeOK BY DEF IInv
<1>1. queue' \in Seq(OrderEvent \cup {Timer})
  BY <1>0, AppendType DEF Tick
<1>2. TypeOK' BY <1>0, <1>1 DEF TypeOK, Tick
<1> QED BY <1>2 DEF IInv, Tick

\* TakeTimer: the batch is made of polled orders.
LEMMA TakeTimerInv == ASSUME IInv, TakeTimer PROVE IInv'
<1>0. TypeOK BY DEF IInv
<1>1. batch' \subseteq polls
  BY <1>0 DEF TakeTimer, IInv, TypeOK
<1>2. worker' \in WorkerType
  BY DEF TakeTimer, Quiet, WorkerType, WorkerPlaces, Replies
<1>a. queue' \in Seq(OrderEvent \cup {Timer})
  <2>1. queue \in Seq(OrderEvent \cup {Timer}) /\ queue # <<>> BY <1>0 DEF TypeOK, TakeTimer
  <2>2. queue' = Tail(queue) BY DEF TakeTimer
  <2> QED BY <2>1, <2>2
<1>3. TypeOK'
  BY <1>0, <1>1, <1>2, <1>a DEF TypeOK, WorkerType, TakeTimer
<1>4. worker'.at = "timer" BY DEF TakeTimer, Quiet
<1> QED BY <1>1, <1>3, <1>4 DEF IInv, TakeTimer

\* TimerDone: the worker is idle again.
LEMMA TimerDoneInv == ASSUME IInv, TimerDone PROVE IInv'
<1>1. TypeOK' BY DEF IInv, TypeOK, TimerDone, Quiet, WorkerPlaces, Replies
<1> QED BY <1>1 DEF IInv, TimerDone, Quiet

\* TimerSkips: the batch shrinks.
LEMMA TimerSkipsInv == ASSUME IInv, NEW t \in Id, TimerSkips(t) PROVE IInv'
<1>1. TypeOK' BY DEF IInv, TypeOK, TimerSkips
<1> QED BY <1>1 DEF IInv, TimerSkips

---------------------------------------------------------------------------
(* The worker keeps it. *)

\* The worker's place after it has handled one order.
LEMMA ResumeType ==
  /\ Resume \in WorkerType
  /\ Resume.at = "timer" /\ Resume.reply = "none"
  BY DEF Resume, Quiet, WorkerType, WorkerPlaces, Replies

\* The worker's place at an await.
LEMMA AtType ==
  ASSUME NEW t \in Id, NEW p \in WorkerPlaces
  PROVE  /\ At(p, t) \in WorkerType /\ Resume \in WorkerType
         /\ At(p, t).at = p /\ At(p, t).t = t /\ At(p, t).reply = "none"
         /\ Resume.at = "timer"
  BY DEF At, Resume, Quiet, WorkerType, WorkerPlaces, Replies

\* One go of the worker at the polled order t, which becomes r: it finishes the
\* order, leaves it alone, or stops at an await.
Handled(t, r) ==
  /\ t \in polls \ done
  /\ r \in TrackedOrder /\ r.oid = trk[t].oid
  /\ trk' = [trk EXCEPT ![t] = r]
  /\ \/ done' = done \cup {t} /\ r.status \in Terminal /\ worker' = Resume
     \/ done' = done /\ worker' = Resume
     \/ done' = done /\ \E p \in WorkerPlaces :
          /\ worker' = At(p, t)
          /\ p \in EmergencyPlaces => r.status \in Terminal
  /\ batch' \subseteq batch
  /\ held' \in Nat
  /\ UNCHANGED <<exch, used, fsms, active, polls, confirmed, queue, callVars>>

\* Such a step keeps the invariant.
LEMMA HandledInv == ASSUME IInv, NEW t \in Id, NEW r, Handled(t, r) PROVE IInv'
<1>0. TypeOK /\ trk \in [Id -> TrackedOrder] BY DEF IInv, TypeOK
<1>1. worker' \in WorkerType /\ worker'.reply = "none"
  BY AtType DEF Handled, WorkerPlaces, Resume, Quiet
<1>2. TypeOK'
  BY <1>0, <1>1 DEF TypeOK, Handled, WorkerType
<1>3. /\ \A u \in Id : trk'[u].oid = trk[u].oid
      /\ \A u \in Id : u # t => trk'[u] = trk[u]
      /\ trk'[t].status = r.status
  BY <1>0 DEF Handled
<1>4. \/ worker'.at = "timer"
      \/ /\ worker'.t = t /\ done' = done
         /\ worker'.at \in EmergencyPlaces => r.status \in Terminal
  BY DEF Handled, At, Resume, Quiet
<1>5. done' = done \/ (done' = done \cup {t} /\ r.status \in Terminal /\ worker'.at = "timer")
  BY AtType DEF Handled, Resume, Quiet
<1>6. WorkerIsPolled' /\ EmergencyIsFinal'
  BY <1>3, <1>4, <1>5 DEF IInv, Handled
<1>7. PostedIds' /\ PostedIsFresh'
  BY <1>0, <1>1, <1>3, <1>5 DEF IInv, Handled, TypeOK
<1>8. BatchIsPolled' /\ Registered' /\ NoOrphanFsm'
  BY <1>0, <1>3, <1>5 DEF IInv, Handled, TypeOK
<1>9. WokenWithFinalStatus'
  <2> SUFFICES ASSUME NEW u \in done' PROVE trk'[u].status \in Terminal
    OBVIOUS
  <2>1. u \in Id BY <1>0, <1>5 DEF TypeOK
  <2> QED BY <1>0, <1>3, <1>5, <2>1 DEF IInv, Handled
<1>10. PendingRowsAreWatched' /\ PlacingHasTries'
  BY <1>0, <1>3 DEF IInv, Handled, TypeOK
<1> QED BY <1>2, <1>6, <1>7, <1>8, <1>9, <1>10 DEF IInv

\* StartReprice is such a step: a stale order is polled and not woken.
LEMMA StartRepriceInv == ASSUME IInv, NEW t \in Id, StartReprice(t) PROVE IInv'
<1>0. TypeOK /\ trk \in [Id -> TrackedOrder] /\ held \in Nat BY DEF IInv, TypeOK
<1>1. t \in polls \ done
  BY DEF IInv, StartReprice, IsStale
<1> DEFINE r == [trk[t] EXCEPT !.status = "STALE"]
<1>2. \/ /\ UNCHANGED <<trk, done>>
         /\ \E p \in {"abortFak", "dustFak", "prices"} : worker' = At(p, t)
      \/ /\ trk' = [trk EXCEPT ![t] = r]
         /\ \/ worker' = Resume /\ done' = done \cup {t}
            \/ done' = done /\ \E p \in {"emergencyFak", "emergencyPrices"} : worker' = At(p, t)
  BY DEF StartReprice
<1>3. /\ batch' \subseteq batch
      /\ UNCHANGED <<exchVars, fsms, active, polls, confirmed, queue, callVars>>
  BY DEF StartReprice
<1>4. CASE /\ UNCHANGED <<trk, done>>
           /\ \E p \in {"abortFak", "dustFak", "prices"} : worker' = At(p, t)
  <2>1. Handled(t, trk[t])
    BY <1>0, <1>1, <1>3, <1>4 DEF Handled, WorkerPlaces
  <2> QED BY <2>1, HandledInv
<1>5. r \in TrackedOrder
  BY <1>0 DEF TrackedOrder, Statuses
<1>6. r.oid = trk[t].oid /\ r.status = "STALE"
  BY <1>0 DEF TrackedOrder
<1> HIDE DEF r
<1>7. CASE /\ trk' = [trk EXCEPT ![t] = r]
            /\ \/ worker' = Resume /\ done' = done \cup {t}
               \/ done' = done /\ \E p \in {"emergencyFak", "emergencyPrices"} : worker' = At(p, t)
  <2>1. Handled(t, r)
    BY <1>0, <1>1, <1>3, <1>5, <1>6, <1>7 DEF Handled, WorkerPlaces
  <2> QED BY <2>1, HandledInv
<1> QED BY <1>2, <1>4, <1>7

\* FakDone is one, too.
LEMMA FakDoneInv ==
  ASSUME IInv, NEW t \in Id, NEW k \in 0..Size, NEW r \in 0..Size, FakDone(t, k, r)
  PROVE  IInv'
<1>0. TypeOK /\ trk \in [Id -> TrackedOrder] BY DEF IInv, TypeOK
<1>1. t \in polls \ done
  BY DEF IInv, FakDone
<1>2. k \in Nat /\ r \in Nat OBVIOUS
<1>3. /\ trk[t] \in TrackedOrder /\ trk[t].filled \in Nat
      /\ trk[t].filled + r \in Nat /\ Remaining(t) \in Nat
  BY <1>0, <1>2, TrkFields, RemainingType
<1>4. held' \in Nat
  BY <1>0, <1>2, <1>3, FakType DEF FakDone
<1> DEFINE q == AfterFak(trk[t], r)
<1>5. q \in TrackedOrder
  BY <1>3 DEF AfterFak, Added, GivenUp, TrackedOrder, Statuses
<1>6. q.oid = trk[t].oid /\ q.status \in Terminal
  BY <1>3 DEF AfterFak, Added, GivenUp, TrackedOrder, FakDone, IInv
<1>7. trk' = [trk EXCEPT ![t] = q] BY DEF FakDone
<1> HIDE DEF q
<1>8. Handled(t, q)
  BY <1>0, <1>1, <1>4, <1>5, <1>6, <1>7 DEF Handled, FakDone
<1> QED BY <1>8, HandledInv

\* PricesDone is one, too.
LEMMA PricesDoneInv == ASSUME IInv, NEW t \in Id, PricesDone(t) PROVE IInv'
<1>0. TypeOK /\ trk \in [Id -> TrackedOrder] /\ held \in Nat BY DEF IInv, TypeOK
<1>1. t \in polls \ done
  BY DEF IInv, PricesDone
<1>2. trk[t] \in TrackedOrder /\ trk[t].reprices \in Nat /\ trk[t].reprices + 1 \in Nat
  BY <1>0, TrkFields
<1> DEFINE c == GivenUp(trk[t])
           b == PriceKept(trk[t])
<1>3. c \in TrackedOrder /\ b \in TrackedOrder
  BY <1>2 DEF TrackedOrder, Statuses, GivenUp, PriceKept
<1>4. /\ c.oid = trk[t].oid /\ c.status = "CANCELLED"
      /\ b.oid = trk[t].oid /\ b.status = trk[t].status
  BY <1>2 DEF TrackedOrder, GivenUp, PriceKept
<1>5. \/ trk' = [trk EXCEPT ![t] = c] /\ done' = done \cup {t} /\ worker' = Resume
      \/ /\ trk' = [trk EXCEPT ![t] = b] /\ worker' = Resume
         /\ done' = IF trk[t].status \in Terminal THEN done \cup {t} ELSE done
      \/ worker' = At("recover", t) /\ UNCHANGED <<trk, done>>
  BY DEF PricesDone
<1>6. UNCHANGED <<exchVars, fsms, active, polls, confirmed, queue, batch, callVars>>
  BY DEF PricesDone
<1> HIDE DEF c, b
<1>7. Handled(t, c) \/ Handled(t, b) \/ Handled(t, trk[t])
  BY <1>0, <1>1, <1>2, <1>3, <1>4, <1>5, <1>6 DEF Handled, WorkerPlaces
<1> QED BY <1>7, HandledInv

\* So are both ways the repricing goes on after the recovery.
LEMMA ReplaceOrFinishInv ==
  ASSUME IInv, NEW t \in polls \ done,
         NEW r \in TrackedOrder, r.oid = trk[t].oid, held' \in Nat,
         ReplaceOrFinish(t, r),
         UNCHANGED <<exch, used, fsms, active, polls, confirmed, queue, batch, callVars>>
  PROVE  IInv'
<1>1. r.reprices \in Nat /\ r.reprices + 1 \in Nat
  BY DEF TrackedOrder
<1>2. t \in Id BY DEF IInv, TypeOK
<1> DEFINE f == [r EXCEPT !.status = "FILLED"]
           g == [r EXCEPT !.reprices = @ + 1]
<1>3. f \in TrackedOrder /\ g \in TrackedOrder
  BY <1>1 DEF TrackedOrder, Statuses
<1>4. f.oid = trk[t].oid /\ g.oid = trk[t].oid /\ f.status = "FILLED"
  BY DEF TrackedOrder
<1>5. \/ trk' = [trk EXCEPT ![t] = f] /\ done' = done \cup {t} /\ worker' = Resume
      \/ trk' = [trk EXCEPT ![t] = g] /\ done' = done /\ worker' = At("place", t)
  BY DEF ReplaceOrFinish
<1> HIDE DEF f, g
<1>6. Handled(t, f) \/ Handled(t, g)
  BY <1>3, <1>4, <1>5 DEF Handled, WorkerPlaces
<1> QED BY <1>2, <1>6, HandledInv

\* The recovery leaves a tracked order under the same id.
LEMMA RecoveredType ==
  ASSUME NEW r \in TrackedOrder, NEW rep, rep.n \in Nat
  PROVE  Recovered(r, rep) \in TrackedOrder /\ Recovered(r, rep).oid = r.oid
<1>1. r.size \in Nat /\ r.filled \in Nat BY DEF TrackedOrder
<1>2. Lesser(r.size, Greater(r.filled, rep.n)) \in Nat
  BY <1>1, LesserType, GreaterType
<1> DEFINE m == Lesser(r.size, Greater(r.filled, rep.n))
<1> HIDE DEF m
<1>3. [r EXCEPT !.status = "FILLED", !.filled = m] \in TrackedOrder
  BY <1>2 DEF TrackedOrder, Statuses, m
<1>4. [r EXCEPT !.status = "PARTIAL", !.filled = rep.n] \in TrackedOrder
  BY DEF TrackedOrder, Statuses
<1> DEFINE Results == {[r EXCEPT !.status = "FILLED", !.filled = m],
                       [r EXCEPT !.status = "PARTIAL", !.filled = rep.n], r}
<1>5. Recovered(r, rep) \in Results
  BY DEF Recovered, m
<1>6. \A q \in Results : q.oid = r.oid
  BY DEF TrackedOrder
<1> QED BY <1>3, <1>4, <1>5, <1>6

\* RecoverDone keeps the invariant.
LEMMA RecoverDoneInv == ASSUME IInv, NEW t \in Id, RecoverDone(t) PROVE IInv'
<1>0. TypeOK /\ trk \in [Id -> TrackedOrder] /\ held \in Nat BY DEF IInv, TypeOK
<1>1. t \in polls \ done
  BY DEF IInv, RecoverDone
<1>2. PICK rep \in FillReports(trk[t].oid) :
        LET r == Recovered(trk[t], rep)
            rem == Minus(r.size, r.filled)
        IN IF r.status = "PARTIAL" /\ r # trk[t] /\ r.side = "SELL" /\ 0 < rem /\ rem < PolyMin
             THEN /\ trk' = [trk EXCEPT ![t] = r]
                  /\ worker' = At("recoverFak", t) /\ UNCHANGED done
             ELSE ReplaceOrFinish(t, r)
  BY DEF RecoverDone
<1>3. rep.n \in Nat
  BY <1>0, TrkFields, ExchFields DEF FillReports
<1> DEFINE r == Recovered(trk[t], rep)
<1>4. r \in TrackedOrder /\ r.oid = trk[t].oid
  BY <1>0, <1>3, RecoveredType
<1>5. UNCHANGED <<exchVars, fsms, active, polls, confirmed, queue, batch, callVars>>
  BY DEF RecoverDone
<1>6. \/ /\ trk' = [trk EXCEPT ![t] = r]
         /\ worker' = At("recoverFak", t) /\ done' = done
      \/ ReplaceOrFinish(t, r)
  BY <1>2
<1> HIDE DEF r
<1>7. CASE ReplaceOrFinish(t, r)
  BY <1>0, <1>1, <1>4, <1>5, <1>7, ReplaceOrFinishInv
<1>8. CASE trk' = [trk EXCEPT ![t] = r] /\ worker' = At("recoverFak", t) /\ done' = done
  <2>1. Handled(t, r)
    BY <1>0, <1>1, <1>4, <1>5, <1>8 DEF Handled, WorkerPlaces
  <2> QED BY <2>1, HandledInv
<1> QED BY <1>6, <1>7, <1>8

\* RecoverFakDone keeps the invariant.
LEMMA RecoverFakDoneInv ==
  ASSUME IInv, NEW t \in Id, NEW k \in 0..Size, NEW r \in 0..Size, RecoverFakDone(t, k, r)
  PROVE  IInv'
<1>0. TypeOK /\ trk \in [Id -> TrackedOrder] BY DEF IInv, TypeOK
<1>1. t \in polls \ done
  BY DEF IInv, RecoverFakDone
<1>2. k \in Nat /\ r \in Nat OBVIOUS
<1>3. trk[t] \in TrackedOrder /\ trk[t].filled + r \in Nat /\ Remaining(t) \in Nat
  BY <1>0, <1>2, TrkFields, RemainingType
<1>4. held' \in Nat
  BY <1>0, <1>2, <1>3, FakType DEF RecoverFakDone
<1> DEFINE q == [trk[t] EXCEPT !.filled = @ + r, !.status = "FILLED"]
<1>5. q \in TrackedOrder
  BY <1>3 DEF TrackedOrder, Statuses
<1>6. q.oid = trk[t].oid
  BY <1>3 DEF TrackedOrder
<1>7. /\ ReplaceOrFinish(t, q)
      /\ UNCHANGED <<exch, used, fsms, active, polls, confirmed, queue, batch, callVars>>
  BY DEF RecoverFakDone
<1> HIDE DEF q
<1> QED BY <1>1, <1>4, <1>5, <1>6, <1>7, ReplaceOrFinishInv

\* The worker's two POSTs: the new id is fresh.
LEMMA WorkerPostInv ==
  ASSUME IInv, NEW t \in Id, NEW how \in Hows, Replace(t, how) \/ EmergencyBuy(t, how)
  PROVE  IInv'
<1>0. TypeOK /\ used \in Nat BY DEF IInv, TypeOK
<1>1. /\ Remaining(t) \in Nat
      /\ exch[t].root \in Id \cup {None}
      /\ trk[t].side \in {"BUY", "SELL"}
  BY <1>0, RemainingType, ExchFields, TrkFields
<1>2. PICK s \in {"BUY", "SELL"} : Post(s, Remaining(t), exch[t].root, how)
  BY <1>1 DEF Replace, EmergencyBuy
<1>3. /\ exch' \in [Id -> ExchangeOrder] /\ used' \in 0..MaxOrders /\ held' \in Nat
      /\ used <= used'
      /\ Placed(how) \in Id \cup {None}
      /\ Reply(how) \in Replies
      /\ Reply(how) # "none" => Placed(how) = used' /\ used' = used + 1
  BY <1>0, <1>1, <1>2, PostType
<1>4. /\ worker.t = t /\ worker.at \in {"place", "emergencyPrices"}
      /\ worker'.at = IF worker.at = "place" THEN "placed" ELSE "emergencyPlaced"
      /\ worker'.t = t /\ worker'.order = Placed(how) /\ worker'.reply = Reply(how)
      /\ worker' \in WorkerType
  BY <1>3 DEF Replace, EmergencyBuy, WorkerType, WorkerPlaces
<1>5. UNCHANGED <<engineVars, queue, batch, callVars>>
  BY DEF Replace, EmergencyBuy
<1>6. TypeOK'
  BY <1>0, <1>3, <1>4, <1>5 DEF TypeOK, WorkerType
<1>7. PostedIds'
  BY <1>0, <1>3, <1>4, <1>5 DEF IInv
<1>8. PostedIsFresh'
  BY <1>0, <1>3, <1>4, <1>5 DEF IInv
<1>9. WorkerIsPolled' /\ EmergencyIsFinal'
  BY <1>4, <1>5 DEF IInv
<1> QED BY <1>5, <1>6, <1>7, <1>8, <1>9 DEF IInv

\* ReplaceDone moves the registration from the old id to the new one.
LEMMA ReplaceDoneInv == ASSUME IInv, NEW t \in Id, ReplaceDone(t) PROVE IInv'
<1>0. TypeOK /\ trk \in [Id -> TrackedOrder] /\ fsms \in [Id -> Id \cup {None}]
  BY DEF IInv, TypeOK
<1>1. t \in polls \ done /\ worker.at = "placed" /\ worker' = Resume
  BY DEF IInv, ReplaceDone
<1>2. worker' \in WorkerType /\ worker'.at = "timer"
  BY <1>1 DEF Resume, Quiet, WorkerType, WorkerPlaces, Replies
<1>3. UNCHANGED <<exchVars, active, polls, confirmed, batch, callVars>>
  BY DEF ReplaceDone
<1>4. CASE worker.reply = "none"
  <2> DEFINE r == [trk[t] EXCEPT !.status = "FAILED"]
  <2>0. trk[t] \in TrackedOrder BY <1>0
  <2>1. r \in TrackedOrder
    BY <2>0 DEF TrackedOrder, Statuses
  <2>2. r.oid = trk[t].oid /\ r.status = "FAILED"
    BY <2>0 DEF TrackedOrder
  <2>3. trk' = [trk EXCEPT ![t] = r] /\ done' = done \cup {t} /\ UNCHANGED <<fsms, queue>>
    BY <1>4 DEF ReplaceDone
  <2>4. held' \in Nat BY <1>0, <1>3 DEF TypeOK
  <2> HIDE DEF r
  <2>5. Handled(t, r)
    BY <1>1, <1>3, <2>1, <2>2, <2>3, <2>4 DEF Handled
  <2> QED BY <2>5, HandledInv
<1>5. CASE worker.reply # "none"
  <2> DEFINE o == worker.order
             st == IF worker.reply = "matched" THEN "FILLED" ELSE "PENDING"
             r == [trk[t] EXCEPT !.oid = o, !.stale = FALSE, !.status = st]
  <2>1. o \in 1..used /\ o \in Id /\ Fresh(o)
    BY <1>1, <1>5, <1>0 DEF IInv, TypeOK
  <2>a. st \in {"FILLED", "PENDING"} OBVIOUS
  <2>4. /\ trk' = [trk EXCEPT ![t] = r]
        /\ fsms' = [fsms EXCEPT ![trk[t].oid] = None, ![o] = t]
        /\ done' = IF st = "FILLED" THEN done \cup {t} ELSE done
        /\ queue' = IF st = "FILLED" THEN queue ELSE Append(queue, RestLive(o))
    BY <1>5 DEF ReplaceDone, Rekey
  <2>5. queue' \in Seq(OrderEvent \cup {Timer})
    <3>1. RestLive(o) \in OrderEvent BY <2>1 DEF RestLive, OrderEvent
    <3>2. Append(queue, RestLive(o)) \in Seq(OrderEvent \cup {Timer}) BY <1>0, <3>1, AppendType
    <3> QED BY <1>0, <2>4, <3>2 DEF TypeOK
  <2> HIDE DEF o, st
  <2>2. r \in TrackedOrder
    <3>1. trk[t] \in TrackedOrder /\ o \in Id BY <1>0, <2>1
    <3> QED BY <2>a, <3>1 DEF TrackedOrder, Statuses
  <2>3. r.oid = o /\ r.status = st
    BY <1>0 DEF TrackedOrder
  <2> HIDE DEF r
  <2>7. fsms' \in [Id -> Id \cup {None}] /\ trk' \in [Id -> TrackedOrder]
    BY <1>0, <2>2, <2>4
  <2>8. TypeOK'
    BY <1>0, <1>1, <1>2, <1>3, <2>4, <2>5, <2>7 DEF TypeOK, WorkerType
  <2>9. /\ \A u \in Id : u # t => trk'[u] = trk[u]
        /\ trk'[t].oid = o /\ trk'[t].status = st
    BY <1>0, <2>3, <2>4
  <2>b. polls' = polls /\ polls \subseteq Id /\ 0 \notin polls
    BY <1>0, <1>3 DEF TypeOK
  <2>c. trk[t].oid \in Id
    BY <1>0, TrkFields
  <2>10. Registered' /\ NoOrphanFsm'
    <3>1. ASSUME NEW u \in polls, NEW x \in Id
          PROVE  fsms'[x] = u <=> x = trk'[u].oid
      BY <1>0, <1>1, <2>1, <2>4, <2>9, <2>b, <2>c DEF IInv
    <3>2. ASSUME NEW x \in Id, fsms'[x] # None
          PROVE  fsms'[x] \in polls
      BY <1>0, <1>1, <2>1, <2>4, <2>b, <2>c, <3>2 DEF IInv
    <3> QED BY <2>b, <3>1, <3>2
  <2>11. PostedIds' /\ PostedIsFresh'
    BY <1>0, <1>1, <1>2, <1>3, <1>5, <2>1, <2>4, <2>9 DEF IInv, TypeOK, o
  <2>12. WokenWithFinalStatus'
    <3> SUFFICES ASSUME NEW u \in done' PROVE trk'[u].status \in Terminal
      OBVIOUS
    <3> QED BY <1>0, <1>1, <2>4, <2>9 DEF IInv, TypeOK
  <2>13. PendingRowsAreWatched'
    BY <1>0, <1>1, <1>3, <2>9 DEF IInv, TypeOK
  <2>14. WorkerIsPolled' /\ BatchIsPolled' /\ EmergencyIsFinal' /\ PlacingHasTries'
    BY <1>2, <1>3, <2>4 DEF IInv
  <2> QED BY <2>8, <2>10, <2>11, <2>12, <2>13, <2>14 DEF IInv
<1> QED BY <1>4, <1>5

\* A TrackedOrder r is made for the order o whose POST was answered.
Tracks(o, r) ==
  /\ Fresh(o) /\ r \in TrackedOrder /\ r.oid = o
  /\ trk'[o] = r /\ trk' \in [Id -> TrackedOrder]
  /\ \A u \in polls \cup active \cup done :
       trk'[u].oid = trk[u].oid /\ trk'[u].status = trk[u].status
  /\ \/ active' = active /\ r.status = "FILLED" /\ UNCHANGED <<polls, fsms>>
     \/ active' = active \cup {o} /\ r.status = "FILLED" /\ UNCHANGED <<polls, fsms>>
     \/ active' = active \cup {o} /\ StartPoll(o)

\* Tracking a fresh order keeps the invariant.
LEMMA TracksInv ==
  ASSUME IInv, NEW o \in Id, NEW r, Tracks(o, r), ~Unanswered(o)',
         \A u \in Id : Unanswered(u)' => Unanswered(u),
         TypeOK', PostedIds', WorkerIsPolled', PlacingHasTries',
         UNCHANGED batch,
         \/ UNCHANGED <<done, worker>>
         \/ /\ worker.at = "emergencyPlaced"
            /\ \/ UNCHANGED done
               \/ done' = done \cup {worker.t}
            /\ worker'.at = "timer" \/ worker'.at = "emergencyWait"
  PROVE  IInv'
<1>0. TypeOK /\ fsms \in [Id -> Id \cup {None}] BY DEF IInv, TypeOK
<1>1. polls \subseteq Id /\ active \subseteq Id /\ done \subseteq Id /\ 0 \notin polls
  BY <1>0 DEF TypeOK
<1>2. done' \subseteq done \cup polls
  BY DEF IInv
<1>3. /\ polls' \subseteq polls \cup {o} /\ polls \subseteq polls'
      /\ active' \subseteq active \cup {o}
      /\ Fresh(o) /\ trk'[o].oid = o
      /\ \A u \in polls \cup active \cup done :
           trk'[u].oid = trk[u].oid /\ trk'[u].status = trk[u].status
  BY DEF Tracks, StartPoll
<1>4. PostedIsFresh'
  <2> SUFFICES ASSUME NEW x \in Id, Unanswered(x)' PROVE Fresh(x)'
    OBVIOUS
  <2>1. Unanswered(x) /\ x # o
    OBVIOUS
  <2>2. Fresh(x)
    BY <2>1 DEF IInv
  <2> HIDE DEF Unanswered
  <2> QED BY <1>2, <1>3, <2>1, <2>2
<1>5. Registered' /\ NoOrphanFsm'
  <2>1. ASSUME NEW u \in polls', NEW x \in Id
        PROVE  fsms'[x] = u <=> x = trk'[u].oid
    <3>1. fsms' = fsms \/ (fsms' = [fsms EXCEPT ![o] = o] /\ polls' = polls \cup {o})
      BY DEF Tracks, StartPoll
    <3>2. fsms' = fsms => polls' = polls
      BY <1>0, <1>3 DEF Tracks, StartPoll, IInv
    <3> QED BY <1>0, <1>1, <1>3, <3>1, <3>2 DEF IInv
  <2>2. ASSUME NEW x \in Id, fsms'[x] # None
        PROVE  fsms'[x] \in polls'
    BY <1>0, <1>1, <2>2 DEF IInv, Tracks, StartPoll
  <2> QED BY <2>1, <2>2
<1>6. WokenWithFinalStatus'
  <2> SUFFICES ASSUME NEW u \in done' PROVE trk'[u].status \in Terminal
    OBVIOUS
  <2>1. u \in done \cup polls BY <1>2
  <2>2. trk[u].status \in Terminal
    BY DEF IInv
  <2> QED BY <1>3, <2>1, <2>2
<1>7. PendingRowsAreWatched'
  <2> SUFFICES ASSUME NEW u \in active', trk'[u].status \in Open PROVE u \in polls'
    OBVIOUS
  <2>1. CASE u = o
    BY <2>1 DEF Tracks, StartPoll
  <2>2. CASE u # o
    BY <1>3, <2>2 DEF IInv
  <2> QED BY <2>1, <2>2
<1>8. BatchIsPolled' /\ EmergencyIsFinal'
  BY <1>1, <1>3 DEF IInv
<1> QED BY <1>4, <1>5, <1>6, <1>7, <1>8 DEF IInv

\* EmergencyBuyDone keeps the invariant.
LEMMA EmergencyBuyDoneInv == ASSUME IInv, NEW t \in Id, EmergencyBuyDone(t) PROVE IInv'
<1>0. TypeOK /\ trk \in [Id -> TrackedOrder] BY DEF IInv, TypeOK
<1> DEFINE n == Remaining(t)
<1>1. t \in polls \ done /\ worker.at = "emergencyPlaced" /\ worker.t = t
      /\ trk[t].status \in Terminal
  BY DEF IInv, EmergencyBuyDone
<1>2. n \in Nat /\ trk[t].filled \in Nat /\ trk[t].filled + n \in Nat
  BY <1>0, RemainingType, TrkFields
<1>3. UNCHANGED <<exchVars, confirmed, queue, batch, callVars>>
  BY DEF EmergencyBuyDone
<1>4. CASE worker.reply = "none"
  <2>1. trk' = [trk EXCEPT ![t] = trk[t]] /\ UNCHANGED <<fsms, active, polls>>
        /\ done' = done \cup {t} /\ worker' = Resume
    BY <1>0, <1>4 DEF EmergencyBuyDone
  <2>2. held' \in Nat BY <1>0, <1>3 DEF TypeOK
  <2>3. Handled(t, trk[t])
    BY <1>0, <1>1, <1>3, <2>1, <2>2 DEF Handled
  <2> QED BY <2>3, HandledInv
<1>5. CASE worker.reply # "none"
  <2>0. worker.order \in Id
    BY <1>0, <1>1, <1>5 DEF IInv, TypeOK
  <2>1. PICK o \in Id : o = worker.order
    BY <2>0
  <2>2. PICK m \in Nat : m = Remaining(t)
    BY <1>2
  <2>3. o \in 1..used /\ Fresh(o) /\ o # t
    BY <1>0, <1>1, <1>5, <2>1 DEF IInv, TypeOK
  <2>4. /\ worker'.at = "timer" \/ (worker'.at = "emergencyWait" /\ worker'.t = t)
        /\ worker' \in WorkerType
    <3>1. worker \in WorkerType BY <1>0 DEF TypeOK, WorkerType
    <3>2. worker' = Resume \/ worker' = [worker EXCEPT !.at = "emergencyWait"]
      BY <1>5 DEF EmergencyBuyDone
    <3>3. CASE worker' = Resume
      BY <3>3, ResumeType
    <3>4. CASE worker' = [worker EXCEPT !.at = "emergencyWait"]
      <4>1. worker' \in WorkerType BY <3>1, <3>4 DEF WorkerType, WorkerPlaces
      <4>2. worker'.at = "emergencyWait" /\ worker'.t = t BY <1>1, <3>1, <3>4 DEF WorkerType
      <4> QED BY <4>1, <4>2
    <3> QED BY <3>2, <3>3, <3>4
  <2>5. ~Unanswered(o)' /\ (\A u \in Id : Unanswered(u)' => Unanswered(u)) /\ PostedIds'
    <3>1. ~(used < o) /\ ~(CallerPosted /\ caller.order = o)
      BY <1>0, <1>1, <1>5, <2>1, <2>3 DEF IInv, TypeOK
    <3>2. ~WorkerPosted'
      BY <2>4
    <3>3. (CallerPosted' <=> CallerPosted) /\ caller' = caller /\ used' = used
      BY <1>3
    <3> QED BY <3>1, <3>2, <3>3 DEF IInv
  <2> DEFINE r == IF worker.reply = "matched" THEN NewTracked(o, "BUY", m, "FILLED", m)
                  ELSE NewTracked(o, "BUY", m, "PENDING", 0)
             q == Added(trk[t], m)
  <2>6. r \in TrackedOrder /\ r.oid = o /\ r.status \in {"FILLED", "PENDING"}
    BY <1>2, <2>2, NewTrackedType DEF NewTracked, Statuses
  <2>7. q \in TrackedOrder
    <3>1. trk[t] \in TrackedOrder /\ trk[t].filled + m \in Nat BY <1>0, <1>2, <2>2
    <3> QED BY <3>1 DEF Added, TrackedOrder
  <2>8. q.oid = trk[t].oid /\ q.status = trk[t].status
    BY <1>0 DEF Added, TrackedOrder
  <2>9. CASE worker.reply = "matched"
    <3>1. /\ trk' = [trk EXCEPT ![t] = q, ![o] = r]
          /\ active' = active \cup {o}
          /\ done' = done \cup {t} /\ worker' = Resume
          /\ UNCHANGED <<fsms, polls>>
      <4>1. r = NewTracked(worker.order, "BUY", Remaining(t), "FILLED", Remaining(t))
        BY <2>1, <2>2, <2>9
      <4>2. q = Added(trk[t], Remaining(t))
        BY <2>2
      <4> HIDE DEF r, q
      <4> QED BY <2>1, <2>9, <4>1, <4>2 DEF EmergencyBuyDone
    <3>2. r.status = "FILLED" BY <2>9 DEF NewTracked
    <3> HIDE DEF r, q
    <3>3. trk' \in [Id -> TrackedOrder]
      BY <1>0, <2>6, <2>7, <3>1
    <3>4. TypeOK'
      BY <1>0, <1>1, <1>3, <2>4, <3>1, <3>3 DEF TypeOK, WorkerType
    <3>5. Tracks(o, r)
      <4>1. polls \cup active \cup done \subseteq Id \ {o}
        BY <1>0, <2>3 DEF TypeOK
      <4>2. \A u \in polls \cup active \cup done :
              trk'[u].oid = trk[u].oid /\ trk'[u].status = trk[u].status
        BY <1>0, <2>8, <3>1, <4>1
      <4>3. trk'[o] = r
        BY <1>0, <3>1
      <4> QED BY <2>3, <2>6, <3>1, <3>2, <3>3, <4>2, <4>3 DEF Tracks
    <3>6. WorkerIsPolled' /\ PlacingHasTries'
      BY <1>3, <3>1 DEF IInv, Resume, Quiet
    <3> QED BY <1>1, <1>3, <2>4, <2>5, <3>1, <3>4, <3>5, <3>6, TracksInv
  <2>10. CASE worker.reply # "matched"
    <3>1. /\ trk' = [trk EXCEPT ![o] = r]
          /\ active' = active \cup {o}
          /\ polls' = polls \cup {o}
          /\ fsms' = [fsms EXCEPT ![o] = o]
          /\ worker' = [worker EXCEPT !.at = "emergencyWait"]
          /\ UNCHANGED done
      <4>1. worker.reply = "resting" \/ worker.reply = "none" \/ worker.reply = "matched"
        BY <1>0 DEF TypeOK, Replies
      <4>2. worker.reply = "resting"
        BY <1>5, <2>10, <4>1
      <4>3. r = NewTracked(worker.order, "BUY", Remaining(t), "PENDING", 0)
        BY <2>1, <2>2, <2>10
      <4> HIDE DEF r
      <4> QED BY <2>1, <4>2, <4>3 DEF EmergencyBuyDone
    <3> HIDE DEF r, q
    <3>3. trk' \in [Id -> TrackedOrder]
      BY <1>0, <2>6, <3>1
    <3>4. TypeOK'
      BY <1>0, <1>1, <1>3, <2>4, <3>1, <3>3 DEF TypeOK, WorkerType
    <3>5. Tracks(o, r)
      <4>1. polls \cup active \cup done \subseteq Id \ {o}
        BY <1>0, <2>3 DEF TypeOK
      <4>2. \A u \in polls \cup active \cup done : trk'[u] = trk[u]
        BY <1>0, <3>1, <4>1
      <4>3. trk'[o] = r
        BY <1>0, <3>1
      <4> QED BY <2>3, <2>6, <3>1, <3>3, <4>2, <4>3 DEF Tracks, StartPoll
    <3>6. worker'.at = "emergencyWait" /\ worker'.t = t
      BY <1>0, <1>1, <3>1 DEF TypeOK
    <3>7. WorkerIsPolled' /\ PlacingHasTries'
      BY <1>1, <1>3, <3>1, <3>6 DEF IInv
    <3> QED BY <1>1, <1>3, <2>5, <3>1, <3>4, <3>5, <3>6, <3>7, TracksInv
  <2> QED BY <2>9, <2>10
<1> QED BY <1>4, <1>5

---------------------------------------------------------------------------
(* The callers keep it. *)

\* The caller at rest has its type.
LEMMA IdleType == Idle \in CallerType /\ Idle.at = "idle"
  BY DEF Idle, CallerType, CallerPlaces, Replies

\* close_position() starts with all its attempts.
LEMMA ClosePositionType ==
  ASSUME TypeOK, ClosePosition
  PROVE  /\ caller' \in CallerType /\ caller'.at = "placing" /\ caller'.side = "SELL"
         /\ caller'.size = confirmed /\ caller'.tries = PlaceAttempts
         /\ caller'.order = None /\ caller'.reply = "none"
         /\ result' \in ResultType
<1>1. caller' = [at |-> "placing", side |-> "SELL", order |-> None, reply |-> "none",
                 size |-> confirmed, tries |-> PlaceAttempts]
  BY DEF ClosePosition, Idle
<1>2. confirmed \in Nat /\ result.n \in Nat /\ result.n + 1 \in Nat
  BY DEF TypeOK
<1>3. result' = [n |-> result.n + 1, side |-> "SELL", root |-> None, reported |-> 0]
  BY DEF ClosePosition, NewResult
<1> QED BY <1>1, <1>2, <1>3 DEF CallerType, CallerPlaces, Replies, ResultType

\* What PlaceSell makes of the caller.
LEMMA PlaceSellCaller ==
  ASSUME caller \in CallerType, NEW how \in Hows, PlaceSell(how)
  PROVE  caller' = [at |-> "posted", side |-> caller.side, order |-> Placed(how),
                    reply |-> Reply(how), size |-> caller.size, tries |-> caller.tries - 1]
<1>1. caller' = [caller EXCEPT !.at = "posted", !.order = Placed(how), !.reply = Reply(how),
                               !.tries = caller.tries - 1]
  BY DEF PlaceSell
<1>2. PICK m : m = caller.tries - 1 OBVIOUS
<1>3. PICK o : o = Placed(how) OBVIOUS
<1>4. PICK p : p = Reply(how) OBVIOUS
<1>5. caller' = [caller EXCEPT !.at = "posted", !.order = o, !.reply = p, !.tries = m]
  BY <1>1, <1>2, <1>3, <1>4
<1>6. caller' = [at |-> "posted", side |-> caller.side, order |-> o, reply |-> p,
                 size |-> caller.size, tries |-> m]
  BY <1>5 DEF CallerType
<1> QED BY <1>2, <1>3, <1>4, <1>6

\* The caller's three POSTs: the new id is fresh.
LEMMA CallerPostInv ==
  ASSUME IInv, NEW how \in Hows, Execute(how) \/ PlaceSell(how) \/ ExitPost(how)
  PROVE  IInv'
<1>0. /\ TypeOK /\ used \in Nat /\ confirmed \in Nat
      /\ caller \in CallerType /\ result \in ResultType
  BY DEF IInv, TypeOK, CallerType, ResultType
<1>1. PICK s \in {"BUY", "SELL"}, n \in Nat, root \in Id \cup {None} :
         /\ Post(s, n, root, how)
         /\ \E p \in {"posted", "exitPosted"}, z \in {"BUY", "SELL"}, m \in Nat :
              caller' = [at |-> p, side |-> z, order |-> Placed(how),
                         reply |-> Reply(how), size |-> n, tries |-> m]
  <2>0. /\ caller.size \in Nat /\ caller.side \in {"BUY", "SELL"} /\ caller.tries \in Nat
        /\ result.root \in Id \cup {None}
    BY <1>0 DEF CallerType, ResultType
  <2>1. CASE Execute(how)
    BY <1>0, <2>1 DEF Execute
  <2>2. CASE PlaceSell(how)
    <3>1. Post("SELL", caller.size, result.root, how)
      BY <2>2 DEF PlaceSell
    <3>2. caller' = [at |-> "posted", side |-> caller.side, order |-> Placed(how),
                     reply |-> Reply(how), size |-> caller.size, tries |-> caller.tries - 1]
      BY <1>0, <2>2, PlaceSellCaller
    <3>3. caller.tries - 1 \in Nat
      BY <2>0, <2>2 DEF IInv, PlacingHasTries, PlaceSell
    <3> QED BY <2>0, <3>1, <3>2, <3>3
  <2>3. CASE ExitPost(how)
    <3>2. Post("SELL", caller.size, result.root, how)
      BY <2>3 DEF ExitPost
    <3>3. caller' = [at |-> "exitPosted", side |-> caller.side, order |-> Placed(how),
                     reply |-> Reply(how), size |-> caller.size, tries |-> caller.tries]
      BY <1>0, <2>3 DEF ExitPost, CallerType, CallerPlaces
    <3> QED BY <2>0, <3>2, <3>3
  <2> QED BY <2>1, <2>2, <2>3
<1>2. /\ exch' \in [Id -> ExchangeOrder] /\ used' \in 0..MaxOrders /\ held' \in Nat
      /\ used <= used'
      /\ Placed(how) \in Id \cup {None}
      /\ Reply(how) \in Replies
      /\ Reply(how) # "none" => Placed(how) = used' /\ used' = used + 1
  BY <1>0, <1>1, PostType
<1>3. UNCHANGED <<engineVars, workVars>>
  BY DEF Execute, PlaceSell, ExitPost
<1>4. caller' \in CallerType
  BY <1>1, <1>2 DEF CallerType, CallerPlaces
<1>5. result' \in ResultType
  <2>1. result.n \in Nat /\ result.n + 1 \in Nat BY <1>0 DEF ResultType
  <2>2. /\ NewResult("BUY", Placed(how)) \in ResultType
        /\ NewResult("SELL", Placed(how)) \in ResultType
    BY <1>2, <2>1 DEF NewResult, ResultType
  <2>3. [result EXCEPT !.root = Placed(how)] \in ResultType
    BY <1>0, <1>2 DEF ResultType
  <2> QED BY <1>0, <2>2, <2>3 DEF Execute, PlaceSell, ExitPost
<1>6. TypeOK'
  BY <1>0, <1>2, <1>3, <1>4, <1>5 DEF TypeOK, CallerType, ResultType
<1>7. caller'.order = Placed(how) /\ caller'.reply = Reply(how)
  BY <1>1
<1>8. PostedIds' /\ PostedIsFresh'
  <2>1. PostedIds'
    BY <1>0, <1>2, <1>3, <1>7 DEF IInv
  <2>2. \A u \in Id : Unanswered(u)' => Unanswered(u)
    BY <1>0, <1>2, <1>3, <1>7
  <2> QED BY <1>3, <2>1, <2>2 DEF IInv
<1>9. PlacingHasTries'
  BY <1>1 DEF PlacingHasTries
<1> QED BY <1>3, <1>6, <1>8, <1>9 DEF IInv

\* The fill read off a tracked order is a size.
LEMMA FilledSharesType ==
  ASSUME NEW r \in TrackedOrder
  PROVE  FilledShares(r) \in Nat
  BY DEF FilledShares, TrackedOrder

\* The end of a BUY's order keeps the caller's type.
LEMMA BuyReturnsType ==
  ASSUME TypeOK, NEW r \in TrackedOrder, BuyReturns(r)
  PROVE  caller' \in CallerType /\ caller'.at \in {"idle", "confirming"}
<1>1. FilledShares(r) \in Nat BY FilledSharesType
<1>2. caller \in CallerType
  BY DEF TypeOK, CallerType
<1> DEFINE f == FilledShares(r)
<1>3. [caller EXCEPT !.at = "confirming", !.size = f] \in CallerType
  BY <1>1, <1>2 DEF CallerType, CallerPlaces
<1>4. [caller EXCEPT !.at = "confirming", !.size = f].at = "confirming"
  BY <1>2 DEF CallerType
<1> QED BY <1>3, <1>4, IdleType DEF BuyReturns

\* The end of close_position() keeps the caller's types.
LEMMA SellReturnsType ==
  ASSUME TypeOK, NEW f \in Nat, SellReturns(f)
  PROVE  /\ caller' \in CallerType /\ caller'.at = "idle"
         /\ confirmed' \in Nat /\ result' \in ResultType
<1>1. result \in ResultType BY DEF TypeOK, ResultType
<1>2. [result EXCEPT !.reported = f] \in ResultType
  BY <1>1 DEF ResultType
<1> QED BY <1>2, IdleType DEF SellReturns

\* The end of a poll removes the row and the registration of a woken order.
LEMMA EndPollInv ==
  ASSUME IInv, NEW t \in Id, EndPoll(t), UNCHANGED <<exchVars, trk, done, workVars>>,
         TypeOK', UNCHANGED caller \/ caller'.at \in {"idle", "confirming"}
  PROVE  IInv'
<1>0. TypeOK /\ fsms \in [Id -> Id \cup {None}] /\ trk[t].oid \in Id
  BY TrkFields DEF IInv, TypeOK
<1>1. /\ t \in polls /\ t \in done /\ polls' = polls \ {t}
      /\ fsms' = [fsms EXCEPT ![trk[t].oid] = None]
      /\ active' = active \ {trk[t].oid}
  BY DEF EndPoll
<1>2. polls \subseteq Id /\ 0 \notin polls
  BY <1>0 DEF TypeOK
<1>3. PostedIds' /\ PostedIsFresh'
  BY <1>1 DEF IInv
<1>4. Registered' /\ NoOrphanFsm'
  <2>1. ASSUME NEW u \in polls', NEW x \in Id
        PROVE  fsms'[x] = u <=> x = trk[u].oid
    BY <1>0, <1>1, <1>2 DEF IInv
  <2>2. ASSUME NEW x \in Id, fsms'[x] # None
        PROVE  fsms'[x] \in polls'
    BY <1>0, <1>1, <1>2, <2>2 DEF IInv
  <2> QED BY <2>1, <2>2
<1>5. PendingRowsAreWatched' /\ WokenWithFinalStatus'
  BY <1>1 DEF IInv
<1>6. WorkerIsPolled' /\ BatchIsPolled' /\ EmergencyIsFinal' /\ PlacingHasTries'
  BY <1>1 DEF IInv, PlacingHasTries
<1> QED BY <1>3, <1>4, <1>5, <1>6 DEF IInv

\* The end of a poll keeps the maps' types.
LEMMA EndPollType ==
  ASSUME TypeOK, NEW t \in Id, EndPoll(t)
  PROVE  fsms' \in [Id -> Id \cup {None}] /\ active' \subseteq Id /\ polls' \subseteq Id
<1>1. trk[t].oid \in Id BY TrkFields
<1> QED BY <1>1 DEF EndPoll, TypeOK

\* PollReturns keeps the invariant.
LEMMA PollReturnsInv == ASSUME IInv, PollReturns PROVE IInv'
<1>0. TypeOK /\ caller.order \in polls /\ caller.order \in Id
  BY DEF IInv, PollReturns, EndPoll, TypeOK
<1>1. PICK t \in Id : t = caller.order BY <1>0
<1>2. EndPoll(t) /\ UNCHANGED <<exchVars, trk, done, workVars>>
  BY <1>1 DEF PollReturns
<1>3. fsms' \in [Id -> Id \cup {None}] /\ active' \subseteq Id /\ polls' \subseteq Id
  BY <1>0, <1>2, EndPollType
<1>4. trk[t] \in TrackedOrder /\ FilledShares(trk[t]) \in Nat
  BY <1>0, TrkFields, FilledSharesType
<1>5. \/ BuyReturns(trk[t]) /\ UNCHANGED <<confirmed, result>>
      \/ SellReturns(FilledShares(trk[t]))
  BY <1>1 DEF PollReturns
<1>6. /\ caller' \in CallerType /\ caller'.at \in {"idle", "confirming"}
      /\ confirmed' \in Nat /\ result' \in ResultType
  <2>1. confirmed \in Nat /\ result \in ResultType
    BY <1>0 DEF TypeOK, ResultType
  <2> QED BY <1>0, <1>4, <1>5, <2>1, BuyReturnsType, SellReturnsType
<1>7. TypeOK'
  BY <1>0, <1>2, <1>3, <1>6 DEF TypeOK, CallerType, ResultType
<1> QED BY <1>2, <1>6, <1>7, EndPollInv

\* BackgroundPollReturns keeps the invariant.
LEMMA BackgroundPollReturnsInv ==
  ASSUME IInv, NEW t \in Id, BackgroundPollReturns(t)
  PROVE  IInv'
<1>0. TypeOK BY DEF IInv
<1>1. EndPoll(t) /\ UNCHANGED <<exchVars, trk, done, confirmed, workVars, callVars>>
  BY DEF BackgroundPollReturns
<1>2. TypeOK'
  BY <1>0, <1>1, EndPollType DEF TypeOK
<1> QED BY <1>1, <1>2, EndPollInv

\* ResidualDone only removes a row.
LEMMA ResidualDoneInv ==
  ASSUME IInv, NEW k \in 0..Size, NEW r \in 0..Size, ResidualDone(k, r)
  PROVE  IInv'
<1>0. TypeOK /\ caller.size \in Nat BY DEF IInv, TypeOK
<1>1. /\ active' \subseteq active /\ caller' = Idle
      /\ UNCHANGED <<exch, used, trk, fsms, polls, done, confirmed, workVars, result>>
      /\ FakSell(caller.size, k, r)
  BY DEF ResidualDone
<1>2. held' \in Nat
  BY <1>0, <1>1, FakType
<1>3. caller' \in CallerType /\ caller'.at = "idle"
  BY <1>1, IdleType
<1>4. TypeOK'
  BY <1>0, <1>1, <1>2, <1>3 DEF TypeOK, CallerType
<1>5. PostedIds' /\ PostedIsFresh' /\ PlacingHasTries'
  BY <1>1, <1>3 DEF IInv, PlacingHasTries
<1> QED BY <1>1, <1>4, <1>5 DEF IInv

\* FallbackFakDone: another try, or emergency_exit() ends every order of the token.
LEMMA FallbackFakDoneInv ==
  ASSUME IInv, NEW k \in 0..Size, NEW r \in 0..Size, FallbackFakDone(k, r)
  PROVE  IInv'
<1>0. TypeOK /\ caller.size \in Nat /\ trk \in [Id -> TrackedOrder] /\ caller \in CallerType
  BY DEF IInv, TypeOK, CallerType
<1>1. /\ FakSell(caller.size, k, r)
      /\ UNCHANGED <<exch, used, fsms, polls, done, workVars>>
  BY DEF FallbackFakDone
<1>2. held' \in Nat /\ r \in Nat /\ caller.tries \in Nat
  BY <1>0, <1>1, FakType DEF CallerType
<1>3. CASE r > 0
  <2>1. SellReturns(r) /\ UNCHANGED <<trk, active>>
    BY <1>3 DEF FallbackFakDone
  <2>2. /\ caller' \in CallerType /\ caller'.at = "idle"
        /\ confirmed' \in Nat /\ result' \in ResultType
    BY <1>0, <1>2, <2>1, SellReturnsType
  <2>3. TypeOK'
    BY <1>0, <1>1, <1>2, <2>1, <2>2 DEF TypeOK, CallerType, ResultType
  <2>4. PostedIds' /\ PostedIsFresh' /\ PlacingHasTries'
    BY <1>1, <2>1, <2>2 DEF IInv, PlacingHasTries
  <2> QED BY <1>1, <2>1, <2>3, <2>4 DEF IInv
<1>5. CASE r = 0 /\ caller.tries > 1
  <2>1. caller' = [caller EXCEPT !.tries = @ - 1] /\ UNCHANGED <<trk, active, confirmed, result>>
    BY <1>2, <1>5 DEF FallbackFakDone
  <2>2. caller.at = "fallbackFak"
    BY DEF FallbackFakDone
  <2>3. caller.tries - 1 \in Nat
    BY <1>0, <1>5 DEF CallerType
  <2>4. caller' \in CallerType /\ caller'.at = "fallbackFak"
    BY <1>0, <2>1, <2>2, <2>3 DEF CallerType, CallerPlaces
  <2>5. TypeOK'
    BY <1>0, <1>1, <1>2, <2>1, <2>4 DEF TypeOK, CallerType
  <2>6. PostedIds' /\ PostedIsFresh' /\ PlacingHasTries'
    BY <1>1, <2>1, <2>4 DEF IInv, PlacingHasTries
  <2> QED BY <1>1, <2>1, <2>5, <2>6 DEF IInv
<1>4. CASE r = 0 /\ caller.tries <= 1
  <2>1. /\ caller' = [caller EXCEPT !.at = "exit", !.tries = 0]
        /\ trk' = [t \in Id |-> IF t \in active THEN [trk[t] EXCEPT !.status = "CANCELLED"]
                                 ELSE trk[t]]
        /\ active' \subseteq active
        /\ UNCHANGED <<confirmed, result>>
    <3>1. ~(r > 0) /\ ~(caller.tries > 1)
      BY <1>2, <1>4
    <3>2. active \ {trk[t].oid : t \in active} \subseteq active
      OBVIOUS
    <3> HIDE OrderEngineAssumption
    <3> QED BY <3>1, <3>2, Zenon DEF FallbackFakDone
  <2>2. \A t \in Id : [trk[t] EXCEPT !.status = "CANCELLED"] \in TrackedOrder
    <3> SUFFICES ASSUME NEW t \in Id PROVE [trk[t] EXCEPT !.status = "CANCELLED"] \in TrackedOrder
      OBVIOUS
    <3>1. trk[t] \in TrackedOrder BY <1>0
    <3> QED BY <3>1 DEF TrackedOrder, Statuses
  <2>3. \A t \in Id : [trk[t] EXCEPT !.status = "CANCELLED"].oid = trk[t].oid
    BY <1>0 DEF TrackedOrder
  <2>4. \A t \in Id : [trk[t] EXCEPT !.status = "CANCELLED"].status = "CANCELLED"
    BY <1>0 DEF TrackedOrder
  <2>5. /\ trk' \in [Id -> TrackedOrder]
        /\ \A t \in Id : trk'[t].oid = trk[t].oid
        /\ \A t \in Id : trk'[t].status = trk[t].status \/ trk'[t].status = "CANCELLED"
    BY <1>0, <2>1, <2>2, <2>3, <2>4
  <2>6. caller' \in CallerType /\ caller'.at = "exit"
    BY <1>0, <2>1 DEF CallerType, CallerPlaces
  <2>7. TypeOK'
    <3>1. /\ exch' \in [Id -> ExchangeOrder] /\ used' \in 0..MaxOrders
          /\ fsms' \in [Id -> Id \cup {None}]
          /\ active' \subseteq Id /\ polls' \subseteq Id /\ done' \subseteq Id
      BY <1>0, <1>1, <2>1 DEF TypeOK
    <3>2. /\ queue' \in Seq(OrderEvent \cup {Timer}) /\ batch' \subseteq Id
          /\ worker' \in [at : WorkerPlaces, t : Id \cup {None}, order : Id \cup {None},
                         reply : Replies]
      BY <1>0, <1>1, Zenon DEF TypeOK, workVars
    <3>3. confirmed' \in Nat /\ result' \in ResultType
      BY <1>0, <2>1, Zenon DEF TypeOK, ResultType
    <3>4. QED
      BY <1>2, <2>5, <2>6, <3>1, <3>2, <3>3, Zenon DEF TypeOK, CallerType, ResultType
  <2>8. PostedIds' /\ PostedIsFresh'
    <3>1. /\ ~CallerPosted' /\ used' = used
          /\ UNCHANGED <<fsms, polls, done, queue, batch, worker>>
      BY <1>1, <2>6
    <3>2. PostedIds' /\ \A o \in Id : Unanswered(o)' => Unanswered(o)
      BY <3>1 DEF IInv
    <3>3. active' \subseteq active /\ (\A t \in polls : trk'[t].oid = trk[t].oid)
      BY <1>0, <2>1, <2>5 DEF TypeOK
    <3>4. \A o \in Id : Fresh(o) => Fresh(o)'
      BY <3>1, <3>3
    <3>5. QED
      BY <3>2, <3>4 DEF IInv
  <2>9. Registered' /\ NoOrphanFsm' /\ BatchIsPolled' /\ WorkerIsPolled'
    <3>1. UNCHANGED <<fsms, polls, done, batch, worker>>
      BY <1>1
    <3>2. Registered'
      BY <1>0, <2>5, <3>1 DEF IInv, TypeOK
    <3>3. QED
      BY <3>1, <3>2 DEF IInv
  <2>10. WokenWithFinalStatus' /\ PendingRowsAreWatched'
    BY <1>0, <1>1, <2>1, <2>5 DEF IInv, TypeOK
  <2>11. EmergencyIsFinal' /\ PlacingHasTries'
    BY <1>0, <1>1, <2>5, <2>6 DEF IInv, TypeOK, PlacingHasTries
  <2> QED BY <2>7, <2>8, <2>9, <2>10, <2>11 DEF IInv
<1> QED BY <1>2, <1>3, <1>4, <1>5

\* The caller makes the TrackedOrder r of its order o.
LEMMA CallerTracksInv ==
  ASSUME IInv, CallerPosted, NEW o \in Id, o = caller.order,
         NEW r \in TrackedOrder, r.oid = o,
         trk' = [trk EXCEPT ![o] = r],
         \/ active' = active \cup {o} /\ r.status = "FILLED" /\ UNCHANGED <<polls, fsms>>
         \/ active' = active \cup {o} /\ StartPoll(o),
         queue' \in Seq(OrderEvent \cup {Timer}),
         caller' \in CallerType, caller'.at \in {"idle", "confirming", "polling"},
         confirmed' \in Nat, result' \in ResultType,
         UNCHANGED <<exchVars, done, batch, worker>>
  PROVE  IInv'
<1>0. TypeOK /\ trk \in [Id -> TrackedOrder] BY DEF IInv, TypeOK
<1>1. o \in 1..used /\ Fresh(o) BY DEF IInv
<1>2. polls \cup active \cup done \subseteq Id \ {o}
  BY <1>0, <1>1 DEF TypeOK
<1>3. trk' \in [Id -> TrackedOrder] /\ trk'[o] = r
  BY <1>0
<1>4. \A u \in polls \cup active \cup done : trk'[u] = trk[u]
  BY <1>0, <1>2
<1>5. Tracks(o, r)
  BY <1>1, <1>3, <1>4 DEF Tracks
<1>6. TypeOK'
  <2>1. active' \subseteq Id /\ polls' \subseteq Id
    BY <1>0 DEF TypeOK, StartPoll
  <2>2. fsms' \in [Id -> Id \cup {None}]
    BY <1>0 DEF TypeOK, StartPoll
  <2>3. /\ exch' \in [Id -> ExchangeOrder] /\ used' \in 0..MaxOrders /\ held' \in Nat
        /\ done' \subseteq Id /\ batch' \subseteq Id
        /\ worker' \in [at : WorkerPlaces, t : Id \cup {None}, order : Id \cup {None},
                       reply : Replies]
    BY <1>0, Zenon DEF TypeOK, exchVars
  <2>4. QED
    BY <1>3, <2>1, <2>2, <2>3, Zenon DEF TypeOK, CallerType, ResultType
<1>7. ~CallerPosted' /\ (WorkerPosted' <=> WorkerPosted) /\ used' = used
  OBVIOUS
<1>8. ~(used < o) /\ ~(WorkerPosted /\ o = worker.order)
  BY <1>0, <1>1 DEF IInv, TypeOK
<1>9. ~Unanswered(o)' /\ (\A u \in Id : Unanswered(u)' => Unanswered(u)) /\ PostedIds'
  BY <1>7, <1>8 DEF IInv
<1>10. WorkerIsPolled' /\ PlacingHasTries'
  BY DEF IInv, StartPoll, PlacingHasTries
<1> QED BY <1>5, <1>6, <1>9, <1>10, TracksInv

\* A step of the caller that makes none, and may drop rows.
LEMMA CallerStepInv ==
  ASSUME IInv, UNCHANGED <<exchVars, trk, fsms, polls, done, workVars>>, active' \subseteq active,
         caller' \in CallerType, PlacingHasTries',
         CallerPosted' => CallerPosted /\ caller'.order = caller.order,
         confirmed' \in Nat, result' \in ResultType
  PROVE  IInv'
<1>1. TypeOK'
  BY DEF IInv, TypeOK, CallerType, ResultType
<1>2. PostedIds' /\ PostedIsFresh'
  BY DEF IInv
<1> QED BY <1>1, <1>2 DEF IInv

\* PostReply keeps the invariant.
LEMMA PostReplyInv == ASSUME IInv, PostReply PROVE IInv'
<1>0. /\ TypeOK /\ caller \in CallerType /\ caller.at = "posted"
      /\ confirmed \in Nat /\ result \in ResultType /\ queue \in Seq(OrderEvent \cup {Timer})
  BY DEF IInv, TypeOK, CallerType, ResultType, PostReply
<1>1. UNCHANGED <<exchVars, done, confirmed, batch, worker, result>>
  BY DEF PostReply
<1>2. CASE caller.reply = "none"
  <2>1. /\ \/ caller' = Idle
           \/ caller.tries > 0 /\ caller' = [caller EXCEPT !.at = "placing", !.order = None]
           \/ caller' = [caller EXCEPT !.at = "fallbackFak", !.order = None,
                                       !.tries = FakAttempts]
        /\ UNCHANGED <<trk, fsms, active, polls, queue>>
    BY <1>2 DEF PostReply
  <2>2. [caller EXCEPT !.at = "fallbackFak", !.order = None, !.tries = FakAttempts] \in CallerType
    BY <1>0 DEF CallerType, CallerPlaces
  <2>3. [caller EXCEPT !.at = "fallbackFak", !.order = None, !.tries = FakAttempts].at = "fallbackFak"
    BY <1>0 DEF CallerType
  <2>4. /\ [caller EXCEPT !.at = "placing", !.order = None] \in CallerType
        /\ [caller EXCEPT !.at = "placing", !.order = None].at = "placing"
        /\ [caller EXCEPT !.at = "placing", !.order = None].tries = caller.tries
    BY <1>0 DEF CallerType, CallerPlaces
  <2>5. /\ caller' \in CallerType /\ caller'.at \in {"idle", "placing", "fallbackFak"}
        /\ PlacingHasTries'
    BY <2>1, <2>2, <2>3, <2>4, IdleType DEF PlacingHasTries
  <2> QED BY <1>0, <1>1, <2>1, <2>5, CallerStepInv
<1>3. CASE caller.reply # "none"
  <2>1. CallerPosted /\ caller.order \in Id
    BY <1>0, <1>3 DEF IInv, TypeOK
  <2>2. PICK o \in Id : o = caller.order BY <2>1
  <2>3. PICK n \in Nat : n = caller.size BY <1>0 DEF CallerType
  <2>4. caller.side \in {"BUY", "SELL"} BY <1>0 DEF CallerType
  <2>5. CASE /\ trk' = [trk EXCEPT ![o] = NewTracked(o, "BUY", n, "FILLED", n)]
             /\ active' = active \cup {o}
             /\ BuyReturns(NewTracked(o, "BUY", n, "FILLED", n))
             /\ UNCHANGED <<fsms, polls, queue>>
    <3> DEFINE r == NewTracked(o, "BUY", n, "FILLED", n)
    <3>1. r \in TrackedOrder BY NewTrackedType DEF Statuses
    <3>2. r.oid = o /\ r.status = "FILLED" BY DEF NewTracked
    <3> HIDE DEF r
    <3>3. trk' = [trk EXCEPT ![o] = r] /\ BuyReturns(r) BY <2>5 DEF r
    <3>4. /\ caller' \in CallerType /\ caller'.at \in {"idle", "confirming"}
          /\ confirmed' \in Nat /\ result' \in ResultType
      BY <1>0, <1>1, <3>1, <3>3, BuyReturnsType
    <3> QED BY <1>0, <1>1, <2>1, <2>2, <2>5, <3>1, <3>2, <3>3, <3>4, CallerTracksInv
  <2>6. CASE /\ trk' = [trk EXCEPT ![o] = NewTracked(o, caller.side, n, "PENDING", 0)]
             /\ active' = active \cup {o}
             /\ StartPoll(o)
             /\ queue' = IF caller.side = "BUY" THEN Append(queue, RestLive(o)) ELSE queue
             /\ caller' = [caller EXCEPT !.at = "polling", !.tries = 0]
    <3> DEFINE r == NewTracked(o, caller.side, n, "PENDING", 0)
    <3>1. r \in TrackedOrder BY <2>4, NewTrackedType DEF Statuses
    <3>2. r.oid = o BY DEF NewTracked
    <3> HIDE DEF r
    <3>3. trk' = [trk EXCEPT ![o] = r] BY <2>6 DEF r
    <3>4. RestLive(o) \in OrderEvent BY DEF RestLive, OrderEvent
    <3>5. queue' \in Seq(OrderEvent \cup {Timer})
      BY <1>0, <2>6, <3>4, AppendType
    <3>6. caller' \in CallerType
      BY <1>0, <2>6 DEF CallerType, CallerPlaces
    <3>7. caller'.at = "polling"
      BY <1>0, <2>6 DEF CallerType
    <3> QED BY <1>0, <1>1, <2>1, <2>2, <2>6, <3>1, <3>2, <3>3, <3>5, <3>6, <3>7, CallerTracksInv
  <2>7. \/ /\ trk' = [trk EXCEPT ![o] = NewTracked(o, "BUY", n, "FILLED", n)]
           /\ active' = active \cup {o}
           /\ BuyReturns(NewTracked(o, "BUY", n, "FILLED", n))
           /\ UNCHANGED <<fsms, polls, queue>>
        \/ /\ trk' = [trk EXCEPT ![o] = NewTracked(o, caller.side, n, "PENDING", 0)]
           /\ active' = active \cup {o}
           /\ StartPoll(o)
           /\ queue' = IF caller.side = "BUY" THEN Append(queue, RestLive(o)) ELSE queue
           /\ caller' = [caller EXCEPT !.at = "polling", !.tries = 0]
    BY <1>3, <2>2, <2>3 DEF PostReply
  <2> QED BY <2>5, <2>6, <2>7
<1> QED BY <1>2, <1>3

\* ClosePosition keeps the invariant.
LEMMA ClosePositionInv == ASSUME IInv, ClosePosition PROVE IInv'
<1>1. TypeOK /\ confirmed \in Nat BY DEF IInv, TypeOK
<1>2. UNCHANGED <<exchVars, engineVars, workVars>> BY DEF ClosePosition
<1>3. /\ caller' \in CallerType /\ caller'.at = "placing" /\ caller'.tries = PlaceAttempts
      /\ result' \in ResultType
  BY <1>1, ClosePositionType
<1>4. PlacingHasTries' BY <1>3 DEF PlacingHasTries
<1> QED BY <1>1, <1>2, <1>3, <1>4, CallerStepInv

\* What BuyConfirms makes of the caller, the rows and the confirmed BUY.
LEMMA BuyConfirmsSteps ==
  ASSUME TypeOK, BuyConfirms
  PROVE  /\ caller.at = "confirming"
         /\ UNCHANGED <<exchVars, trk, fsms, polls, done, workVars>> /\ active' \subseteq active
         /\ caller' \in CallerType /\ caller'.at \in {"idle", "residual"}
         /\ confirmed' \in Nat /\ result' \in ResultType
         /\ caller'.at = "residual" =>
               caller'.order = caller.order /\ caller'.side = caller.side /\ caller'.size = caller.size
         /\ \/ UNCHANGED result /\ confirmed' \in {0, confirmed}
            \/ /\ confirmed' = caller.size /\ result' = [result EXCEPT !.reported = caller.size]
               /\ caller'.at = "idle"
<1>1. caller \in CallerType /\ result \in ResultType /\ confirmed \in Nat
  BY DEF TypeOK, CallerType, ResultType
<1>2. caller.size \in Nat BY <1>1 DEF CallerType
<1>3. [result EXCEPT !.reported = caller.size] \in ResultType
  BY <1>1, <1>2 DEF ResultType
<1>4. PICK c : c = [caller EXCEPT !.at = "residual"] OBVIOUS
<1>5. c \in CallerType /\ c.at = "residual" /\ c.order = caller.order /\ c.side = caller.side
      /\ c.size = caller.size
  BY <1>1, <1>4 DEF CallerType, CallerPlaces
<1>6. \/ /\ caller' = Idle /\ confirmed' = 0 /\ UNCHANGED result
      \/ caller' = c /\ UNCHANGED <<confirmed, result>>
      \/ /\ caller' = Idle /\ confirmed' = caller.size
         /\ result' = [result EXCEPT !.reported = caller.size]
  BY <1>4 DEF BuyConfirms
<1>7. active' \subseteq active
  BY DEF BuyConfirms
<1>8. caller.at = "confirming" /\ UNCHANGED <<exchVars, trk, fsms, polls, done, workVars>>
  BY DEF BuyConfirms
<1> QED BY <1>1, <1>2, <1>3, <1>5, <1>6, <1>7, <1>8, IdleType

\* BuyConfirms keeps the invariant.
LEMMA BuyConfirmsInv == ASSUME IInv, BuyConfirms PROVE IInv'
<1>1. TypeOK BY DEF IInv
<1>2. /\ UNCHANGED <<exchVars, trk, fsms, polls, done, workVars>> /\ active' \subseteq active
      /\ caller' \in CallerType /\ caller'.at \in {"idle", "residual"}
      /\ confirmed' \in Nat /\ result' \in ResultType
  BY <1>1, BuyConfirmsSteps
<1>3. PlacingHasTries' BY <1>2 DEF PlacingHasTries
<1> QED BY <1>2, <1>3, CallerStepInv

\* ExitReply keeps the invariant.
LEMMA ExitReplyInv == ASSUME IInv, ExitReply PROVE IInv'
<1>0. /\ TypeOK /\ caller \in CallerType /\ caller.at = "exitPosted"
      /\ queue \in Seq(OrderEvent \cup {Timer})
  BY DEF IInv, TypeOK, CallerType, ExitReply
<1>1. SellReturns(0) /\ UNCHANGED <<exchVars, done, workVars>>
  BY DEF ExitReply
<1>2. /\ caller' \in CallerType /\ caller'.at = "idle"
      /\ confirmed' \in Nat /\ result' \in ResultType
  BY <1>0, <1>1, SellReturnsType
<1>3. CASE caller.reply = "none"
  <2>1. UNCHANGED <<trk, fsms, active, polls>>
    BY <1>3 DEF ExitReply
  <2>2. PlacingHasTries'
    BY <1>2 DEF PlacingHasTries
  <2> QED BY <1>1, <1>2, <2>1, <2>2, CallerStepInv
<1>4. CASE caller.reply # "none"
  <2>1. CallerPosted /\ caller.order \in Id
    BY <1>0, <1>4 DEF IInv, TypeOK
  <2>2. PICK o \in Id : o = caller.order BY <2>1
  <2>3. PICK n \in Nat : n = caller.size BY <1>0 DEF CallerType
  <2>4. PICK st \in {"FILLED", "PENDING"} :
               st = IF caller.reply = "matched" THEN "FILLED" ELSE "PENDING"
    OBVIOUS
  <2> DEFINE r == NewTracked(o, "SELL", n, st, IF st = "FILLED" THEN n ELSE 0)
  <2>5. r \in TrackedOrder
    BY NewTrackedType DEF Statuses
  <2>6. r.oid = o /\ r.status = st BY DEF NewTracked
  <2> HIDE DEF r
  <2>7. /\ trk' = [trk EXCEPT ![o] = r]
        /\ active' = active \cup {o}
        /\ IF st = "PENDING" THEN StartPoll(o) ELSE UNCHANGED <<polls, fsms>>
    BY <1>4, <2>2, <2>3, <2>4 DEF ExitReply, r
  <2> QED BY <1>0, <1>1, <1>2, <2>1, <2>2, <2>5, <2>6, <2>7, CallerTracksInv
<1> QED BY <1>3, <1>4

---------------------------------------------------------------------------
(* The invariant. *)

\* The invariant holds initially.
LEMMA InitInv == Init => IInv
<1> SUFFICES ASSUME Init PROVE IInv OBVIOUS
<1>1. \A o \in Id : NoOrder \in ExchangeOrder /\ NewTracked(o, "BUY", 0, "IDLE", 0) \in TrackedOrder
  BY DEF NoOrder, ExchangeOrder, NewTracked, TrackedOrder, Statuses
<1>2. Quiet \in WorkerType /\ Quiet.at = "idle"
  BY DEF Quiet, WorkerType, WorkerPlaces, Replies
<1>3. [n |-> 0, side |-> "BUY", root |-> None, reported |-> 0] \in ResultType
  BY DEF ResultType
<1>4. TypeOK
  BY <1>1, <1>2, <1>3, IdleType DEF Init, TypeOK, WorkerType, CallerType, ResultType
<1>5. PostedIds /\ PostedIsFresh
  BY <1>2, IdleType DEF Init
<1>6. WorkerIsPolled /\ EmergencyIsFinal /\ BatchIsPolled /\ PlacingHasTries
  BY <1>2, IdleType DEF Init, PlacingHasTries
<1> QED BY <1>4, <1>5, <1>6 DEF Init, IInv

\* Every step keeps the invariant.
LEMMA NextInv == ASSUME IInv, [Next]_vars PROVE IInv'
<1>1. CASE UNCHANGED vars
  <2>1. TypeOK' BY <1>1 DEF vars, IInv, TypeOK
  <2> QED BY <1>1, <2>1 DEF vars, IInv
<1>2. CASE ExchangeNext
  <2>1. PICK o \in Id : \/ \E k \in 1..Size : Fill(o, k) \/ DeliverTradeMessage(o, k)
                        \/ ExchangeCancels(o) \/ DeliverOrderMessage(o)
    BY <1>2 DEF ExchangeNext
  <2>2. ASSUME DeliverOrderMessage(o) PROVE IInv'
    <3>1. PolyMin \in 1..Size OBVIOUS
    <3> QED BY <2>2, <3>1, DeliverInv
  <2> QED BY <2>1, <2>2, FillInv, ExchangeCancelsInv, DeliverInv
<1>3. CASE WorkerNext
  BY <1>3, TakeOrderEventInv, TakeTimerInv, TimerDoneInv, TimerSkipsInv,
     StartRepriceInv, PricesDoneInv, RecoverDoneInv,
     FakDoneInv, RecoverFakDoneInv, WorkerPostInv, ReplaceDoneInv, EmergencyBuyDoneInv
  DEF WorkerNext
<1>4. CASE CallerNext
  BY <1>4, CallerPostInv, ClosePositionInv, PostReplyInv, PollReturnsInv, BuyConfirmsInv,
     ExitReplyInv, ResidualDoneInv, FallbackFakDoneInv
  DEF CallerNext
<1>5. CASE PollNext
  BY <1>5, BackgroundPollReturnsInv DEF PollNext
<1>6. CASE TimeNext
  BY <1>6, TickInv, BecomeStaleInv DEF TimeNext
<1> QED BY <1>1, <1>2, <1>3, <1>4, <1>5, <1>6 DEF Next

\* The step that combines them.
LEMMA Inductive == Spec => []IInv
  BY InitInv, NextInv, PTL DEF Spec

---------------------------------------------------------------------------
(* The theorems. *)

\* Every value of the order engine has its type: no message, race or failure
\* makes it use an order id the exchange did not give out.
THEOREM TypeCorrect == Spec => []TypeOK
<1>1. IInv => TypeOK BY DEF IInv
<1> QED BY <1>1, Inductive, PTL

\* Whatever is repriced, replaced or abandoned, a waiting order's FSM stays
\* registered under exactly its current id.
THEOREM WaitingReachable == Spec => []WaitingOrdersAreRegistered
<1>1. IInv => WaitingOrdersAreRegistered BY DEF IInv, WaitingOrdersAreRegistered
<1> QED BY <1>1, Inductive, PTL

\* _fsms holds no entry of an order nobody waits for.
THEOREM FsmsCleaned == Spec => []NoOrphanFsm
<1>1. IInv => NoOrphanFsm BY DEF IInv
<1> QED BY <1>1, Inductive, PTL

\* A woken _poll_order() always reads a final status.
THEOREM WokenFinal == Spec => []WokenWithFinalStatus
<1>1. IInv => WokenWithFinalStatus BY DEF IInv
<1> QED BY <1>1, Inductive, PTL

\* Every row of _active_orders that reads as open is being polled.
THEOREM OpenRowsWatched == Spec => []PendingRowsAreWatched
<1>1. IInv => PendingRowsAreWatched BY DEF IInv
<1> QED BY <1>1, Inductive, PTL

HIDE OrderEngineAssumption DEF OrderEngineAssumption, Id, None, Terminal, Open
HIDE DEF PostedIds, WorkerPosted, CallerPosted, PostedIsFresh, Unanswered, Fresh,
        WorkerIsPolled, BatchIsPolled, EmergencyPlaces, EmergencyIsFinal, Registered,
        NoOrphanFsm, WokenWithFinalStatus, PendingRowsAreWatched, PlacingHasTries,
        exchVars, engineVars, workVars, callVars

---------------------------------------------------------------------------
(* What is reported was traded. *)

\* An order the exchange has not received is untouched everywhere.
Ledger ==
  \A o \in Id : IF o <= used
                THEN exch[o].root \in 1..used /\ PolyMin <= exch[o].size
                ELSE exch[o] = NoOrder /\ trk[o] = NewTracked(o, "BUY", 0, "IDLE", 0)

\* A tracked order moves among the orders of its own request.
Rooted == \A t \in 1..used : trk[t].oid \in 1..used /\ exch[trk[t].oid].root = exch[t].root

\* A BUY's fill was traded for its request, and stays within it but for an
\* order that was cancelled with more.
BuyRow(t) ==
  trk[t].side = "BUY" =>
    /\ FilledShares(trk[t]) <= Executed(exch[t].root)
    /\ trk[t].size <= Size
    /\ trk[t].filled <= trk[t].size \/ (t \in done /\ trk[t].status = "CANCELLED")
BuyRows == \A t \in 1..used : BuyRow(t)

\* No event reports more than was traded.
BackedEvent(e) ==
  e.kind = "ws" => /\ e.oid <= used /\ e.filled <= exch[e.oid].matched
                   /\ e.status = "matched" => e.filled > 0
QueueBacked == \A i \in 1..Len(queue) : BackedEvent(queue[i])

\* What the worker has posted belongs to the request of its order.
SellPlaces == {"dustFak", "emergencyFak", "recoverFak"}
WorkerBacked ==
  LET t == worker.t
      o == worker.order
  IN /\ worker.at \in SellPlaces => trk[t].side = "SELL"
     /\ worker.at \in {"emergencyPrices", "emergencyPlaced"} => trk[t].side = "BUY"
     /\ WorkerPosted => exch[o].root = exch[t].root
     /\ WorkerPosted /\ worker.reply = "matched" => 0 < Remaining(t) /\ Remaining(t) <= exch[o].matched
     /\ worker.at = "emergencyPlaced" /\ worker.reply = "matched"
          => trk[t].filled + Remaining(t) <= Executed(exch[t].root)

\* What the caller has posted or polls is the order of its request.
CallerBacked ==
  LET o == caller.order
  IN /\ result.root \in 0..used
     /\ caller.at # "idle" => result.side = caller.side
     /\ caller.at \in {"placing", "fallbackFak"} => caller.side = "SELL"
     /\ caller.at = "confirming" => caller.size <= Size /\ caller.size <= Executed(result.root)
     /\ caller.at = "posted" /\ caller.side = "BUY" => caller.size <= Size
     /\ caller.at = "posted" /\ caller.reply # "none" => exch[o].root = result.root
     /\ caller.at = "posted" /\ caller.reply = "matched" => caller.size <= exch[o].matched
     /\ caller.at = "polling" => /\ o \in polls /\ trk[o].side = caller.side
                                 /\ exch[o].root = result.root

Backed == Ledger /\ Rooted /\ BuyRows /\ QueueBacked /\ WorkerBacked /\ CallerBacked
          /\ NoPhantomFill /\ ReportedWithinRequest


---------------------------------------------------------------------------
(* What the exchange traded for a request. *)

TradedShares == [o \in Id |-> exch[o].matched]
OrdersOf(r) == {o \in 1..used : exch[o].root = r}

\* What the sums are taken of, and over.
LEMMA TradedIsNat ==
  ASSUME TypeOK
  PROVE  /\ TradedShares \in [Id -> Nat] /\ \A o \in Id : TradedShares[o] = exch[o].matched
         /\ used \in Nat /\ 1..used \subseteq Id
         /\ \A r : OrdersOf(r) \in SUBSET Id /\ IsFiniteSet(OrdersOf(r))
<1>1. used \in 0..MaxOrders
  BY DEF TypeOK
<1>2. used \in Nat /\ 1..used \subseteq Id
  BY <1>1, OrderEngineAssumption DEF Id, OrderEngineAssumption
<1>3. IsFiniteSet(1..used)
  BY <1>2, FS_Interval
<1>4. ASSUME NEW r PROVE OrdersOf(r) \in SUBSET Id /\ IsFiniteSet(OrdersOf(r))
  <2>1. OrdersOf(r) \subseteq 1..used
    BY DEF OrdersOf
  <2>2. QED
    BY <1>2, <1>3, <2>1, FS_Subset
<1>5. \A o \in Id : exch[o].matched \in Nat
  BY ExchFields
<1>6. QED
  BY <1>2, <1>4, <1>5 DEF TradedShares

\* Executed in the form that the lemmas on sums speak of.
LEMMA ExecutedIsSum == \A r : Executed(r) = SumFunctionOnSet(TradedShares, OrdersOf(r))
BY DEF Executed, TradedShares, OrdersOf

\* What a request traded is a number of shares.
LEMMA ExecutedIsNat == ASSUME TypeOK, NEW r PROVE Executed(r) \in Nat
<1>1. SumFunctionOnSet(TradedShares, OrdersOf(r)) \in Nat
  BY TradedIsNat, SumIsNat
<1>2. QED
  BY <1>1, ExecutedIsSum

\* No order trades more than its request.
LEMMA ExecutedHolds ==
  ASSUME TypeOK, NEW o \in 1..used
  PROVE  o \in Id /\ exch[o].matched \in Nat /\ exch[o].matched <= Executed(exch[o].root)
<1> DEFINE S == OrdersOf(exch[o].root)
<1>1. S \in SUBSET Id /\ IsFiniteSet(S) /\ o \in S /\ o \in Id /\ TradedShares \in [Id -> Nat]
  BY TradedIsNat DEF OrdersOf
<1>2. /\ SumFunctionOnSet(TradedShares, S) = TradedShares[o] + SumFunctionOnSet(TradedShares, S \ {o})
      /\ SumFunctionOnSet(TradedShares, S \ {o}) \in Nat
  BY <1>1, SumSplits
<1>3. TradedShares[o] = exch[o].matched /\ TradedShares[o] \in Nat
  BY <1>1, TradedIsNat
<1> HIDE DEF S
<1>4. exch[o].matched <= SumFunctionOnSet(TradedShares, S)
  BY <1>2, <1>3
<1>5. QED
  BY <1>1, <1>3, <1>4, ExecutedIsSum DEF S

\* What the exchange has done stays done.
ExchKept ==
  /\ used <= used'
  /\ \A o \in 1..used : /\ exch'[o].root = exch[o].root /\ exch'[o].size = exch[o].size
                        /\ exch[o].matched <= exch'[o].matched

\* What a request traded never shrinks while its orders are kept.
LEMMA ExecutedGrows ==
  ASSUME TypeOK, TypeOK', ExchKept, NEW r
  PROVE  Executed(r) <= Executed(r)' /\ Executed(r) \in Nat /\ Executed(r)' \in Nat
<1>1. TradedShares \in [Id -> Nat] /\ \A o \in Id : TradedShares[o] = exch[o].matched
  BY TradedIsNat
<1>2. /\ TradedShares' \in [Id -> Nat] /\ \A o \in Id : TradedShares'[o] = exch'[o].matched
      /\ used \in Nat /\ used' \in Nat /\ 1..used' \subseteq Id
  <2>1. used \in 0..MaxOrders /\ used' \in 0..MaxOrders
    BY DEF TypeOK
  <2>2. used \in Nat /\ used' \in Nat /\ 1..used' \subseteq Id
    BY <2>1, OrderEngineAssumption DEF Id, OrderEngineAssumption
  <2>3. \A o \in Id : exch'[o].matched \in Nat
    BY DEF TypeOK, ExchangeOrder
  <2>4. QED
    BY <2>2, <2>3 DEF TradedShares
<1> DEFINE S == {o \in 1..used' : exch'[o].root = r}
           T == OrdersOf(r)
<1>3. T \subseteq S /\ S \in SUBSET Id
  BY <1>2 DEF OrdersOf, ExchKept
<1>4. IsFiniteSet(S)
  <2>1. IsFiniteSet(1..used')
    BY <1>2, FS_Interval
  <2>2. QED
    BY <2>1, FS_Subset
<1>5. \A o \in T : TradedShares[o] <= TradedShares'[o]
  BY <1>1, <1>2, <1>3 DEF ExchKept, OrdersOf
<1> HIDE DEF S, T
<1>6. SumFunctionOnSet(TradedShares, T) <= SumFunctionOnSet(TradedShares', S)
  BY <1>1, <1>2, <1>3, <1>4, <1>5, SumGrows
<1>7. Executed(r) = SumFunctionOnSet(TradedShares, T) /\ Executed(r)' = SumFunctionOnSet(TradedShares', S)
  BY DEF Executed, TradedShares, OrdersOf, S, T
<1>8. SumFunctionOnSet(TradedShares, T) \in Nat /\ SumFunctionOnSet(TradedShares', S) \in Nat
  <2>1. IsFiniteSet(T) /\ T \in SUBSET Id /\ T \in SUBSET T /\ S \in SUBSET S
    BY <1>3, <1>4, FS_Subset
  <2>2. QED
    BY <1>1, <1>2, <1>3, <1>4, <2>1, SumIsNat
<1>9. QED
  BY <1>6, <1>7, <1>8

\* A new order that traded n shares.
LEMMA ExecutedPosted ==
  ASSUME TypeOK, TypeOK', ExchKept, used' = used + 1, NEW r, NEW n \in Nat,
         exch'[used'].root = r, exch'[used'].matched = n
  PROVE  Executed(r) + n <= Executed(r)'
<1>1. TradedShares \in [Id -> Nat] /\ \A o \in Id : TradedShares[o] = exch[o].matched
  BY TradedIsNat
<1>2. /\ TradedShares' \in [Id -> Nat] /\ \A o \in Id : TradedShares'[o] = exch'[o].matched
      /\ used \in Nat /\ used' \in Nat /\ 1..used' \subseteq Id
  <2>1. used \in 0..MaxOrders /\ used' \in 0..MaxOrders
    BY DEF TypeOK
  <2>2. used \in Nat /\ used' \in Nat /\ 1..used' \subseteq Id
    BY <2>1, OrderEngineAssumption DEF Id, OrderEngineAssumption
  <2>3. \A o \in Id : exch'[o].matched \in Nat
    BY DEF TypeOK, ExchangeOrder
  <2>4. QED
    BY <2>2, <2>3 DEF TradedShares
<1> DEFINE S == {o \in 1..used' : exch'[o].root = r}
           T == OrdersOf(r)
<1>3. /\ T \subseteq S \ {used'} /\ S \in SUBSET Id /\ used' \in S /\ used' \in Id
  BY <1>2 DEF OrdersOf, ExchKept
<1>4. IsFiniteSet(S)
  <2>1. IsFiniteSet(1..used')
    BY <1>2, FS_Interval
  <2>2. QED
    BY <2>1, FS_Subset
<1>5. \A o \in T : TradedShares[o] <= TradedShares'[o]
  BY <1>1, <1>2, <1>3 DEF ExchKept, OrdersOf
<1>6. Executed(r) = SumFunctionOnSet(TradedShares, T) /\ Executed(r)' = SumFunctionOnSet(TradedShares', S)
  BY DEF Executed, TradedShares, OrdersOf, S, T
<1> HIDE DEF S, T
<1>7. SumFunctionOnSet(TradedShares, T) + TradedShares'[used'] <= SumFunctionOnSet(TradedShares', S)
  BY <1>1, <1>2, <1>3, <1>4, <1>5, SumGrowsBy
<1>8. TradedShares'[used'] = n
  BY <1>2, <1>3
<1>9. QED
  BY <1>6, <1>7, <1>8

---------------------------------------------------------------------------
(* What a step leaves alone. *)

\* The facts of IInv that the later invariants use.
LEMMA Basics ==
  ASSUME IInv
  PROVE  /\ TypeOK /\ used \in Nat /\ 1..used \subseteq Id /\ 0 \notin Id /\ Id \subseteq Nat
         /\ polls \subseteq 1..used /\ active \subseteq 1..used /\ done \subseteq 1..used
         /\ \A t \in Id : trk[t] \in TrackedOrder
         /\ trk \in [Id -> TrackedOrder]
         /\ worker.at \notin {"idle", "timer"} => worker.t \in polls \ done
         /\ WorkerPosted => worker.order \in 1..used
         /\ CallerPosted => caller.order \in 1..used
         /\ queue \in Seq(OrderEvent \cup {Timer})
<1>1. TypeOK /\ used \in Nat /\ 1..used \subseteq Id
  BY TradedIsNat DEF IInv
<1>2. Id \subseteq Nat /\ 0 \notin Id
  BY OrderEngineAssumption DEF Id, OrderEngineAssumption
<1>3. ASSUME NEW o \in polls \cup active \cup done PROVE o \in 1..used
  <2>1. o \in Id
    BY <1>1, <1>3 DEF TypeOK
  <2>2. ~(used < o)
    BY <1>3, <2>1 DEF IInv, PostedIsFresh, Unanswered, Fresh
  <2>3. QED
    BY <1>1, <2>1, <2>2 DEF Id
<1>4. trk \in [Id -> TrackedOrder] /\ queue \in Seq(OrderEvent \cup {Timer})
  BY <1>1 DEF TypeOK
<1>5. QED
  BY <1>1, <1>2, <1>3, <1>4 DEF IInv, WorkerIsPolled, PostedIds

\* The same order, perhaps given up.
Same(r, q) ==
  /\ q.side = r.side /\ q.size = r.size /\ q.filled = r.filled /\ q.oid = r.oid
  /\ q.status = r.status \/ q.status = "CANCELLED"

\* A row shows a number of shares.
LEMMA FilledSharesNat == ASSUME NEW r \in TrackedOrder PROVE FilledShares(r) \in Nat
BY DEF TrackedOrder, FilledShares

\* A row that is left alone stays backed: trades only add to it.
LEMMA RowKept ==
  ASSUME IInv, IInv', ExchKept, done \subseteq done', NEW t \in 1..used,
         BuyRow(t), Same(trk[t], trk'[t])
  PROVE  BuyRow(t)'
<1>1. trk[t] \in TrackedOrder /\ trk'[t] \in TrackedOrder
  BY Basics DEF IInv, TypeOK
<1>2. FilledShares(trk'[t]) <= FilledShares(trk[t])
  BY <1>1 DEF Same, FilledShares, TrackedOrder
<1>3. FilledShares(trk'[t]) \in Nat /\ FilledShares(trk[t]) \in Nat
  BY <1>1, FilledSharesNat
<1>4. exch'[t].root = exch[t].root
  BY DEF ExchKept
<1> PICK r : r = exch[t].root
  OBVIOUS
<1>5. Executed(r) <= Executed(r)' /\ Executed(r) \in Nat /\ Executed(r)' \in Nat
  <2>1. TypeOK /\ TypeOK'
    BY DEF IInv
  <2>2. QED
    BY <2>1, ExecutedGrows
<1>6. Executed(exch[t].root)' = Executed(r)'
  BY <1>4 DEF Executed
<1>7. QED
  BY <1>1, <1>2, <1>3, <1>4, <1>5, <1>6 DEF BuyRow, Same, TrackedOrder

\* New orders come from nowhere else but a POST.
NewOrders ==
  \A o \in Id : used < o =>
    /\ trk'[o] = trk[o]
    /\ IF o <= used' THEN exch'[o].root \in 1..used' /\ PolyMin <= exch'[o].size
       ELSE exch'[o] = exch[o]

TouchedRow(t) ==
  BuyRow(t)' /\ trk'[t].oid \in 1..used' /\ exch'[trk'[t].oid].root = exch'[t].root

\* A step that touches the rows T of the tracked orders.
RowsStep(T) ==
  /\ ExchKept /\ NewOrders /\ done \subseteq done'
  /\ \A t \in (1..used) \ T : Same(trk[t], trk'[t])
  /\ \A t \in T : TouchedRow(t)

\* Rows stay backed when each one that changed shows no more than it can.
LEMMA RowsStepBacked ==
  ASSUME IInv, IInv', Backed, NEW T \in SUBSET (1..used), RowsStep(T)
  PROVE  Ledger' /\ Rooted' /\ BuyRows'
<1>1. /\ used \in Nat /\ used' \in Nat /\ 1..used \subseteq Id /\ Id \subseteq Nat
      /\ used <= used' /\ Id = 1..MaxOrders /\ used' <= MaxOrders /\ MaxOrders \in Nat
  <2>1. used' \in 0..MaxOrders /\ MaxOrders \in Nat
    BY OrderEngineAssumption DEF IInv, TypeOK, OrderEngineAssumption
  <2>2. QED
    BY <2>1, Basics DEF RowsStep, ExchKept, Id
<1>2. Ledger'
  <2>1. SUFFICES ASSUME NEW o \in Id
                 PROVE  IF o <= used' THEN exch'[o].root \in 1..used' /\ PolyMin <= exch'[o].size
                        ELSE exch'[o] = NoOrder /\ trk'[o] = NewTracked(o, "BUY", 0, "IDLE", 0)
    BY DEF Ledger, Id
  <2>2. CASE o <= used
    <3>1. o \in 1..used
      BY <1>1, <2>2
    <3>2. exch'[o].root \in 1..used' /\ PolyMin <= exch'[o].size
      BY <1>1, <2>2, <3>1 DEF Backed, Ledger, RowsStep, ExchKept
    <3>3. QED
      BY <1>1, <2>2, <3>2
  <2>3. CASE used < o
    BY <1>1, <2>3 DEF Backed, Ledger, RowsStep, NewOrders
  <2>4. QED
    BY <1>1, <2>2, <2>3
<1>3. ASSUME NEW t \in 1..used', t \notin 1..used
      PROVE  t \in Id /\ trk'[t] = NewTracked(t, "BUY", 0, "IDLE", 0)
  <2>1. t \in Id /\ ~(t <= used) /\ used < t
    BY <1>1, <1>3
  <2>2. trk[t] = NewTracked(t, "BUY", 0, "IDLE", 0)
    BY <2>1 DEF Backed, Ledger
  <2>3. QED
    BY <2>1, <2>2 DEF RowsStep, NewOrders
<1>4. Rooted'
  <2>1. SUFFICES ASSUME NEW t \in 1..used'
                 PROVE  trk'[t].oid \in 1..used' /\ exch'[trk'[t].oid].root = exch'[t].root
    BY DEF Rooted
  <2>2. CASE t \in 1..used /\ t \notin T
    BY <1>1, <2>2 DEF RowsStep, Same, ExchKept, Backed, Rooted
  <2>3. CASE t \in T
    BY <2>3 DEF RowsStep, TouchedRow
  <2>4. CASE t \notin 1..used
    <3>1. trk'[t].oid = t
      <4> PICK q : q = trk'[t]
        OBVIOUS
      <4>1. q = NewTracked(t, "BUY", 0, "IDLE", 0)
        BY <1>3, <2>4
      <4>2. QED
        BY <4>1 DEF NewTracked
    <3>2. QED
      BY <3>1
  <2>5. QED
    BY <2>2, <2>3, <2>4
<1>5. BuyRows'
  <2>1. SUFFICES ASSUME NEW t \in 1..used' PROVE BuyRow(t)'
    BY DEF BuyRows
  <2>2. CASE t \in 1..used /\ t \notin T
    BY <2>2, RowKept DEF RowsStep, Backed, BuyRows
  <2>3. CASE t \in T
    BY <2>3 DEF RowsStep, TouchedRow
  <2>4. CASE t \notin 1..used
    <3>1. FilledShares(trk'[t]) = 0 /\ trk'[t].size = 0 /\ trk'[t].filled = 0
      <4> PICK q : q = trk'[t]
        OBVIOUS
      <4>1. q = NewTracked(t, "BUY", 0, "IDLE", 0)
        BY <1>3, <2>4
      <4>2. q.size = 0 /\ q.filled = 0 /\ q.status = "IDLE"
        BY <4>1 DEF NewTracked
      <4>3. QED
        BY <4>2 DEF FilledShares
    <3> PICK r : r = exch'[t].root
      OBVIOUS
    <3>2. Executed(r)' \in Nat
      BY ExecutedGrows DEF IInv, RowsStep
    <3>3. Executed(exch[t].root)' = Executed(r)'
      BY DEF Executed
    <3>4. QED
      BY <3>1, <3>2, <3>3, OrderEngineAssumption DEF BuyRow, OrderEngineAssumption
  <2>5. QED
    BY <2>2, <2>3, <2>4
<1>6. QED
  BY <1>2, <1>4, <1>5

\* The worker waits on, and its order keeps its sizes.
LEMMA WorkerKept ==
  ASSUME IInv, IInv', Backed, ExchKept, UNCHANGED worker,
         worker.at \notin {"idle", "timer"} => Same(trk[worker.t], trk'[worker.t])
  PROVE  WorkerBacked'
<1> DEFINE t == worker.t
           o == worker.order
<1>1. worker.at \notin {"idle", "timer"} => t \in 1..used /\ t \in Id
  BY Basics
<1>2. WorkerPosted => o \in 1..used
  BY Basics
<1>3. worker.at \notin {"idle", "timer"} =>
        /\ trk[t] \in TrackedOrder /\ trk'[t] \in TrackedOrder /\ Remaining(t)' = Remaining(t)
        /\ trk'[t].side = trk[t].side /\ trk'[t].filled = trk[t].filled
        /\ exch'[t].root = exch[t].root /\ Remaining(t) \in Nat
  BY <1>1, RemainingType DEF IInv, TypeOK, Same, Remaining, ExchKept
<1>4. WorkerPosted => /\ exch'[o].root = exch[o].root /\ exch[o].matched <= exch'[o].matched
                      /\ exch[o].matched \in Nat /\ exch'[o].matched \in Nat
  BY <1>2, Basics DEF ExchKept, IInv, TypeOK, ExchangeOrder
<1>5. ASSUME worker.at = "emergencyPlaced", worker.reply = "matched"
      PROVE  trk'[t].filled + Remaining(t)' <= Executed(exch[worker.t].root)'
  <2> PICK r : r = exch[worker.t].root
    OBVIOUS
  <2>1. Executed(r) <= Executed(r)' /\ Executed(r) \in Nat /\ Executed(r)' \in Nat
    BY ExecutedGrows DEF IInv
  <2>2. Executed(exch[worker.t].root)' = Executed(r)'
    BY <1>3, <1>5 DEF Executed
  <2>3. trk[t].filled + Remaining(t) <= Executed(r)
    BY <1>5 DEF Backed, WorkerBacked
  <2>4. trk[t].filled + Remaining(t) \in Nat
    BY <1>3, <1>5 DEF TrackedOrder
  <2>5. QED
    BY <1>3, <1>5, <2>1, <2>2, <2>3, <2>4
<1>6. QED
  BY <1>1, <1>2, <1>3, <1>4, <1>5 DEF Backed, WorkerBacked, WorkerPosted, SellPlaces

\* The worker goes on, with no answered POST in its hands.
LEMMA WorkerAt ==
  ASSUME worker'.reply = "none",
         worker'.at \in SellPlaces => trk'[worker'.t].side = "SELL",
         worker'.at \in {"emergencyPrices", "emergencyPlaced"} => trk'[worker'.t].side = "BUY"
  PROVE  WorkerBacked'
BY DEF WorkerBacked, WorkerPosted

\* Ids that were given out stay given out.
LEMMA RootStays == ASSUME IInv, IInv', ExchKept, NEW r \in 0..used PROVE r \in 0..used'
<1>1. used \in 0..MaxOrders /\ used' \in 0..MaxOrders
  BY DEF IInv, TypeOK
<1>2. QED
  BY <1>1, OrderEngineAssumption DEF ExchKept, OrderEngineAssumption

\* The caller waits on for the same order.
LEMMA CallerKept ==
  ASSUME IInv, IInv', Backed, ExchKept, UNCHANGED <<caller, result>>,
         caller.at = "polling" => caller.order \in polls' /\ trk'[caller.order].side = trk[caller.order].side
  PROVE  CallerBacked' /\ NoPhantomFill' /\ ReportedWithinRequest'
<1> DEFINE o == caller.order
<1>1. caller.at = "polling" => o \in 1..used
  BY Basics DEF Backed, CallerBacked
<1>2. CallerPosted => o \in 1..used
  BY Basics
<1>3. ASSUME o \in 1..used
      PROVE  /\ exch'[o].root = exch[o].root /\ exch[o].matched <= exch'[o].matched
             /\ exch[o].matched \in Nat /\ exch'[o].matched \in Nat
  BY <1>3, Basics DEF ExchKept, IInv, TypeOK, ExchangeOrder
<1>4. caller.size \in Nat /\ result.reported \in Nat
  BY DEF IInv, TypeOK
<1>a. caller.at = "posted" /\ caller.reply \in {"matched"} => CallerPosted
  BY DEF CallerPosted
<1>b. result.root \in 0..used'
  BY RootStays DEF Backed, CallerBacked
<1> PICK r : r = result.root
  OBVIOUS
<1>c. Executed(r) <= Executed(r)' /\ Executed(r) \in Nat /\ Executed(r)' \in Nat
  BY ExecutedGrows DEF IInv
<1>d. Executed(result.root)' = Executed(r)'
  BY DEF Executed
<1>e. caller.at = "confirming" => caller.size <= Size /\ caller.size <= Executed(result.root)'
  BY <1>4, <1>c, <1>d DEF Backed, CallerBacked
<1>5. CallerBacked'
  BY <1>1, <1>2, <1>3, <1>4, <1>a, <1>b, <1>e DEF Backed, CallerBacked, CallerPosted
<1>6. NoPhantomFill'
  BY <1>4, <1>c, <1>d DEF Backed, NoPhantomFill
<1>7. QED
  BY <1>5, <1>6 DEF Backed, ReportedWithinRequest

\* An event stays backed: an order never trades less than it did.
LEMMA EventKept ==
  ASSUME IInv, IInv', ExchKept, NEW e \in OrderEvent \cup {Timer}, BackedEvent(e)
  PROVE  BackedEvent(e)'
<1>1. e.kind = "ws" => e.oid \in 1..used /\ e.filled \in Nat
  BY Basics DEF BackedEvent, OrderEvent, Timer, Id
<1>2. ASSUME NEW o \in 1..used
      PROVE  /\ exch[o].matched <= exch'[o].matched /\ o <= used'
             /\ exch[o].matched \in Nat /\ exch'[o].matched \in Nat
  BY <1>2, Basics DEF ExchKept, IInv, TypeOK, ExchangeOrder
<1>3. QED
  BY <1>1, <1>2 DEF BackedEvent

\* The queue keeps its events, loses its head, or gains one.
LEMMA QueueKept ==
  ASSUME IInv, IInv', Backed, ExchKept,
         \/ UNCHANGED queue
         \/ queue # <<>> /\ queue' = Tail(queue)
         \/ \E e \in OrderEvent \cup {Timer} : queue' = Append(queue, e) /\ BackedEvent(e)'
  PROVE  QueueBacked'
<1>1. queue \in Seq(OrderEvent \cup {Timer})
  BY Basics
<1>2. \A i \in 1..Len(queue) : queue[i] \in OrderEvent \cup {Timer} /\ BackedEvent(queue[i])
  BY <1>1 DEF Backed, QueueBacked
<1>3. ASSUME NEW e \in OrderEvent \cup {Timer}, BackedEvent(e) PROVE BackedEvent(e)'
  BY <1>3, EventKept
<1>4. SUFFICES ASSUME NEW i \in 1..Len(queue') PROVE BackedEvent(queue[i])'
  BY DEF QueueBacked
<1>5. \/ \E j \in 1..Len(queue) : queue'[i] = queue[j]
      \/ \E e \in OrderEvent \cup {Timer} : queue'[i] = e /\ BackedEvent(e)'
  <2>1. CASE UNCHANGED queue
    BY <2>1
  <2>2. CASE queue # <<>> /\ queue' = Tail(queue)
    <3>1. i + 1 \in 1..Len(queue) /\ queue'[i] = queue[i + 1]
      BY <1>1, <2>2
    <3>2. QED
      BY <3>1
  <2>3. ASSUME NEW e \in OrderEvent \cup {Timer}, queue' = Append(queue, e), BackedEvent(e)'
        PROVE  \/ \E j \in 1..Len(queue) : queue'[i] = queue[j]
               \/ queue'[i] = e
    BY <1>1, <2>3
  <2>4. QED
    BY <2>1, <2>2, <2>3
<1>6. PICK e \in OrderEvent \cup {Timer} : e = queue'[i] /\ BackedEvent(e)'
  BY <1>2, <1>3, <1>5
<1>7. QED
  BY <1>6 DEF BackedEvent

---------------------------------------------------------------------------
(* The exchange, the channel, time, and polls that end. *)

QueueStep ==
  \/ UNCHANGED queue
  \/ queue # <<>> /\ queue' = Tail(queue)
  \/ \E e \in OrderEvent \cup {Timer} : queue' = Append(queue, e) /\ BackedEvent(e)'

\* A step that trades, cancels, waits or ages, but decides nothing.
Calm ==
  /\ ExchKept /\ NewOrders /\ QueueStep
  /\ UNCHANGED <<done, caller, result>>
  /\ \A t \in 1..used : Same(trk[t], trk'[t])
  /\ caller.at = "polling" => caller.order \in polls'
  /\ worker' = worker \/ (worker'.reply = "none" /\ worker'.at \in {"idle", "timer"})

\* A step that places no order and reports nothing keeps Backed.
LEMMA CalmBacked == ASSUME IInv, IInv', Backed, Calm PROVE Backed'
<1>1. RowsStep({})
  BY DEF Calm, RowsStep
<1>2. Ledger' /\ Rooted' /\ BuyRows'
  BY <1>1, RowsStepBacked
<1>3. QueueBacked'
  BY QueueKept DEF Calm, QueueStep
<1>4. WorkerBacked'
  <2>1. CASE UNCHANGED worker
    BY <2>1, WorkerKept, Basics DEF Calm
  <2>2. CASE worker'.reply = "none" /\ worker'.at \in {"idle", "timer"}
    BY <2>2, WorkerAt DEF SellPlaces
  <2>3. QED
    BY <2>1, <2>2 DEF Calm
<1>5. CallerBacked' /\ NoPhantomFill' /\ ReportedWithinRequest'
  <2>1. caller.at = "polling" => trk'[caller.order].side = trk[caller.order].side
    BY Basics DEF Backed, CallerBacked, Calm, Same
  <2>2. QED
    BY <2>1, CallerKept DEF Calm
<1>6. QED
  BY <1>2, <1>3, <1>4, <1>5 DEF Backed

\* An order changes at the exchange without being placed.
LEMMA ExchangeStep ==
  ASSUME IInv, Backed, NEW o \in Id, NEW e \in ExchangeOrder, exch' = [exch EXCEPT ![o] = e],
         exch[o] # NoOrder, used' = used, trk' = trk,
         e.root = exch[o].root, e.size = exch[o].size, exch[o].matched <= e.matched
  PROVE  ExchKept /\ NewOrders /\ o <= used /\ \A t \in 1..used : Same(trk[t], trk'[t])
<1>1. o <= used
  BY DEF Backed, Ledger
<1>2. exch \in [Id -> ExchangeOrder] /\ used \in Nat /\ 1..used \subseteq Id
  BY Basics DEF IInv, TypeOK
<1>3. \A u \in Id : exch[u].matched \in Nat
  BY <1>2 DEF ExchangeOrder
<1>4. ExchKept
  BY <1>2, <1>3 DEF ExchKept
<1>5. Id \subseteq Nat
  BY Basics
<1>6. NewOrders
  <2>1. \A u \in Id : used < u => ~(u <= used) /\ u # o
    BY <1>1, <1>2, <1>5
  <2>2. QED
    BY <1>2, <2>1 DEF NewOrders
<1>7. QED
  BY <1>1, <1>4, <1>6 DEF Same

\* A trade of the exchange.
LEMMA FillBacked == ASSUME IInv, IInv', Backed, NEW o \in Id, NEW k \in 1..Size, Fill(o, k) PROVE Backed'
<1>1. exch[o] \in ExchangeOrder /\ k \in Nat
  BY ExchFields DEF IInv
<1>2. Traded(exch[o], k) \in ExchangeOrder
  BY <1>1, TradedType
<1>3. /\ Traded(exch[o], k).root = exch[o].root /\ Traded(exch[o], k).size = exch[o].size
      /\ exch[o].matched <= Traded(exch[o], k).matched
  BY <1>1 DEF Traded, ExchangeOrder
<1>4. exch[o] # NoOrder
  BY DEF Fill, NoOrder
<1>5. /\ exch' = [exch EXCEPT ![o] = Traded(exch[o], k)] /\ used' = used /\ trk' = trk
      /\ UNCHANGED <<queue, done, caller, result, worker, polls>>
  BY DEF Fill, engineVars, workVars, callVars
<1>6. Calm
  BY <1>2, <1>3, <1>4, <1>5, ExchangeStep DEF Calm, QueueStep, Backed, CallerBacked
<1>7. QED
  BY <1>6, CalmBacked

\* A cancelled or a told order keeps its request, size and trades.
LEMMA ChangedOrder ==
  ASSUME NEW r \in ExchangeOrder, NEW e,
         e = [r EXCEPT !.st = "canceled", !.news = TRUE] \/ e = [r EXCEPT !.news = FALSE]
  PROVE  /\ e \in ExchangeOrder /\ e.root = r.root /\ e.size = r.size
         /\ e.matched = r.matched /\ r.matched \in Nat /\ r.matched <= e.matched
<1>1. r.matched \in Nat
  BY DEF ExchangeOrder
<1>2. e.matched = r.matched /\ e.root = r.root /\ e.size = r.size
  BY DEF ExchangeOrder
<1>3. r.matched <= e.matched
  BY <1>1, <1>2
<1>4. [r EXCEPT !.st = "canceled", !.news = TRUE] \in ExchangeOrder
  BY DEF ExchangeOrder
<1>5. [r EXCEPT !.news = FALSE] \in ExchangeOrder
  BY DEF ExchangeOrder
<1>6. QED
  BY <1>1, <1>2, <1>3, <1>4, <1>5

\* A cancellation by the exchange.
LEMMA CancelBacked == ASSUME IInv, IInv', Backed, NEW o \in Id, ExchangeCancels(o) PROVE Backed'
<1> DEFINE e == [exch[o] EXCEPT !.st = "canceled", !.news = TRUE]
<1>1. exch[o] \in ExchangeOrder
  BY ExchFields DEF IInv
<1>2. /\ e \in ExchangeOrder /\ e.root = exch[o].root /\ e.size = exch[o].size
      /\ exch[o].matched <= e.matched
  BY <1>1, ChangedOrder
<1>3. /\ exch' = [exch EXCEPT ![o] = e] /\ used' = used /\ trk' = trk /\ exch[o] # NoOrder
      /\ UNCHANGED <<queue, done, caller, result, worker, polls>>
  BY DEF ExchangeCancels, NoOrder, engineVars, workVars, callVars
<1> HIDE DEF e
<1>4. Calm
  BY <1>2, <1>3, ExchangeStep DEF Calm, QueueStep, Backed, CallerBacked
<1>5. QED
  BY <1>4, CalmBacked

\* A message of the user channel becomes an event of the queue.
LEMMA DeliverBacked ==
  ASSUME IInv, IInv', Backed, NEW o \in Id, NEW k \in 1..Size,
         DeliverOrderMessage(o) \/ DeliverTradeMessage(o, k)
  PROVE  Backed'
<1> DEFINE e == [exch[o] EXCEPT !.news = FALSE]
<1>1. exch[o] \in ExchangeOrder
  BY ExchFields DEF IInv
<1>2. /\ e \in ExchangeOrder /\ e.root = exch[o].root /\ e.size = exch[o].size
      /\ exch[o].matched <= e.matched /\ e.matched = exch[o].matched /\ exch[o].matched \in Nat
  BY <1>1, ChangedOrder
<1>3. /\ exch' = [exch EXCEPT ![o] = e] /\ used' = used /\ trk' = trk /\ exch[o] # NoOrder
      /\ UNCHANGED <<done, caller, result, worker, polls>>
  BY DEF DeliverOrderMessage, DeliverTradeMessage, NoOrder, engineVars, callVars
<1> HIDE DEF e
<1>4. /\ ExchKept /\ NewOrders /\ o <= used /\ \A t \in 1..used : Same(trk[t], trk'[t])
  BY <1>2, <1>3, ExchangeStep
<1>5. exch'[o].matched = exch[o].matched
  BY <1>2, <1>3, Basics DEF IInv, TypeOK
<1>6. PICK st \in {"live", "matched", "partially_matched", "canceled"}, n \in Nat :
        /\ queue' = Append(queue, WsEvent(o, st, n))
        /\ n <= exch[o].matched /\ (st = "matched" => n > 0)
  <2>1. CASE DeliverTradeMessage(o, k)
    BY <1>2, <2>1 DEF DeliverTradeMessage
  <2>2. CASE DeliverOrderMessage(o)
    <3>1. OrderMessageStatus(o) \in {"live", "matched", "partially_matched", "canceled"}
      BY DEF OrderMessageStatus
    <3>2. OrderMessageStatus(o) = "matched" => exch[o].matched = exch[o].size
      BY DEF OrderMessageStatus
    <3>3. PolyMin <= exch[o].size /\ PolyMin \in Nat /\ 0 < PolyMin
      BY <1>4, OrderEngineAssumption DEF Backed, Ledger, OrderEngineAssumption
    <3>4. OrderMessageStatus(o) = "matched" => exch[o].matched > 0
      BY <1>2, <3>2, <3>3
    <3>5. QED
      BY <1>2, <2>2, <3>1, <3>4 DEF DeliverOrderMessage
  <2>3. QED
    BY <2>1, <2>2
<1>7. WsEvent(o, st, n) \in OrderEvent \cup {Timer} /\ BackedEvent(WsEvent(o, st, n))'
  <2> PICK q : q = WsEvent(o, st, n)
    OBVIOUS
  <2>1. q.kind = "ws" /\ q.oid = o /\ q.status = st /\ q.filled = n /\ q \in OrderEvent
    BY DEF WsEvent, OrderEvent
  <2>2. BackedEvent(q)'
    BY <1>3, <1>4, <1>5, <1>6, <2>1 DEF BackedEvent
  <2>3. BackedEvent(WsEvent(o, st, n))'
    BY <2>2
  <2>4. QED
    BY <2>1, <2>3
<1>8. Calm
  BY <1>3, <1>4, <1>6, <1>7 DEF Calm, QueueStep, Backed, CallerBacked
<1>9. QED
  BY <1>8, CalmBacked

\* The steps that change neither rows nor orders.
LEMMA IdleStepsBacked ==
  ASSUME IInv, IInv', Backed, NEW t,
         Tick \/ TakeTimer \/ TimerDone \/ TimerSkips(t) \/ BackgroundPollReturns(t) \/ BecomeStale(t)
         \/ UNCHANGED vars
  PROVE  Backed'
<1>1. UNCHANGED <<exch, used, done, caller, result>>
  BY DEF Tick, TakeTimer, TimerDone, TimerSkips, BackgroundPollReturns, BecomeStale, vars,
         exchVars, engineVars, callVars, EndPoll
<1>2. ExchKept
  BY <1>1, Basics DEF ExchKept, IInv, TypeOK, ExchangeOrder
<1>3. /\ \A u \in Id : Same(trk[u], trk'[u])
      /\ \A u \in Id : used < u => trk'[u] = trk[u]
  <2>1. CASE BecomeStale(t)
    <3>1. trk' = [trk EXCEPT ![t].stale = TRUE] /\ t \in polls
      BY <2>1 DEF BecomeStale
    <3>2. t <= used
      BY <3>1, Basics
    <3>3. \A u \in Id : used < u => u # t
      BY <3>2, Basics
    <3>4. \A u \in Id : u # t => trk'[u] = trk[u]
      BY <3>1, Basics
    <3>5. Same(trk[t], trk'[t])
      BY <3>1, Basics DEF Same, TrackedOrder
    <3>6. QED
      BY <3>3, <3>4, <3>5 DEF Same
  <2>2. CASE ~BecomeStale(t)
    <3>1. trk' = trk
      BY <2>2 DEF Tick, TakeTimer, TimerDone, TimerSkips, BackgroundPollReturns, vars, engineVars
    <3>2. QED
      BY <3>1 DEF Same
  <2>3. QED
    BY <2>1, <2>2
<1>4. NewOrders
  <2>1. \A u \in Id : used < u => ~(u <= used)
    BY Basics
  <2>2. QED
    BY <1>1, <1>3, <2>1 DEF NewOrders
<1>5. QueueStep
  <2>1. BackedEvent(Timer)'
    BY DEF BackedEvent, Timer
  <2>2. QED
    BY <2>1 DEF QueueStep, Tick, TakeTimer, TimerDone, TimerSkips, BackgroundPollReturns, BecomeStale,
           vars, workVars
<1>6. caller.at = "polling" => caller.order \in polls'
  BY DEF Tick, TakeTimer, TimerDone, TimerSkips, BackgroundPollReturns, BecomeStale, vars,
         engineVars, EndPoll, Backed, CallerBacked
<1>7. worker' = worker \/ (worker'.reply = "none" /\ worker'.at \in {"idle", "timer"})
  BY DEF Tick, TakeTimer, TimerDone, TimerSkips, BackgroundPollReturns, BecomeStale, vars,
         workVars, Quiet
<1>8. Calm
  BY <1>1, <1>2, <1>3, <1>4, <1>5, <1>6, <1>7, Basics DEF Calm
<1>9. QED
  BY <1>8, CalmBacked

---------------------------------------------------------------------------
(* The worker, up to its next POST. *)

\* r may follow the row of the order t.
Backs(r, t) ==
  /\ r.side = trk[t].side
  /\ r.oid = trk[t].oid \/ (r.oid \in 1..used /\ exch[r.oid].root = exch[t].root)
  /\ r.side = "BUY" =>
       /\ FilledShares(r) <= Executed(exch[t].root) /\ r.size <= Size
       /\ r.filled <= r.size \/ (t \in done' /\ r.status = "CANCELLED")

\* The worker's go at the order t.
Goes(t, r) ==
  /\ trk' = [trk EXCEPT ![t] = r] /\ Backs(r, t)
  /\ QueueStep /\ done \subseteq done' /\ UNCHANGED <<exch, used, polls, caller, result>>
  /\ WorkerBacked'

\* A go at an order that leaves its row backed keeps Backed.
LEMMA GoesBacked == ASSUME IInv, IInv', Backed, NEW t \in polls, NEW r, Goes(t, r) PROVE Backed'
<1>1. t \in 1..used /\ t \in Id /\ t \in Nat /\ trk'[t] = r
  BY Basics DEF Goes
<1>2. ExchKept
  BY Basics DEF ExchKept, IInv, TypeOK, ExchangeOrder, Goes
<1>3. \A u \in Id : u # t => trk'[u] = trk[u]
  BY Basics DEF Goes
<1>4. NewOrders
  <2>1. \A u \in Id : used < u => ~(u <= used) /\ u # t
    BY <1>1, Basics
  <2>2. QED
    BY <1>3, <2>1 DEF NewOrders, Goes
<1>5. TouchedRow(t)
  <2>1. Executed(exch[t].root)' = Executed(exch[t].root)
    BY DEF Executed, Goes
  <2>2. BuyRow(t)'
    BY <1>1, <2>1 DEF BuyRow, Goes, Backs
  <2>3. QED
    BY <1>1, <2>2 DEF TouchedRow, Goes, Backs, Backed, Rooted
<1>6. RowsStep({t})
  <2>1. \A u \in (1..used) \ {t} : Same(trk[u], trk'[u])
    BY <1>3, Basics DEF Same
  <2>2. QED
    BY <1>2, <1>4, <1>5, <2>1 DEF RowsStep, Goes
<1>7. Ledger' /\ Rooted' /\ BuyRows'
  BY <1>1, <1>6, RowsStepBacked
<1>8. QueueBacked'
  BY <1>2, QueueKept DEF Goes, QueueStep
<1>9. CallerBacked' /\ NoPhantomFill' /\ ReportedWithinRequest'
  <2>1. caller.at = "polling" => caller.order \in polls' /\ trk'[caller.order].side = trk[caller.order].side
    BY <1>1, <1>3, Basics DEF Goes, Backs, Backed, CallerBacked
  <2>2. QED
    BY <1>2, <2>1, CallerKept DEF Goes
<1>10. QED
  BY <1>7, <1>8, <1>9 DEF Backed, Goes

\* The row the worker finds.
LEMMA RowFound ==
  ASSUME IInv, Backed, NEW t \in polls \ done
  PROVE  /\ t \in 1..used /\ t \in Id /\ trk[t] \in TrackedOrder
         /\ trk[t].size \in Nat /\ trk[t].filled \in Nat
         /\ Executed(exch[t].root) \in Nat /\ FilledShares(trk[t]) \in Nat
         /\ trk[t].side = "BUY" => /\ FilledShares(trk[t]) <= Executed(exch[t].root)
                                   /\ trk[t].size <= Size /\ trk[t].filled <= trk[t].size
         /\ trk[t].oid \in 1..used /\ exch[trk[t].oid].root = exch[t].root
BY Basics, TrkFields, ExecutedIsNat, FilledSharesNat DEF Backed, BuyRows, BuyRow, Rooted, IInv

\* An event's row: what is reported was traded for the request.
LEMMA HandleBacks ==
  ASSUME IInv, Backed, NEW t \in polls \ done, NEW e \in OrderEvent, BackedEvent(e),
         fsms[e.oid] = t, Handle(trk[t], e).status \in Terminal => t \in done'
  PROVE  Backs(Handle(trk[t], e), t)
<1> DEFINE h == Handle(trk[t], e)
           r == trk[t]
<1>1. /\ t \in Id /\ r \in TrackedOrder /\ r.size \in Nat /\ r.filled \in Nat
      /\ Executed(exch[t].root) \in Nat /\ FilledShares(r) \in Nat
      /\ r.side = "BUY" => /\ FilledShares(r) <= Executed(exch[t].root)
                           /\ r.size <= Size /\ r.filled <= r.size
      /\ r.oid \in 1..used /\ exch[r.oid].root = exch[t].root
  BY RowFound
<1>2. e.oid = r.oid
  BY Basics DEF IInv, Registered, OrderEvent
<1>3. e.kind = "ws" => /\ e.filled <= Executed(exch[t].root)
                       /\ (e.status = "matched" => e.filled > 0)
  <2>1. exch[r.oid].matched \in Nat /\ exch[r.oid].matched <= Executed(exch[t].root)
    BY <1>1, ExecutedHolds, Basics
  <2>2. e.filled \in Nat
    BY DEF OrderEvent
  <2>3. QED
    BY <1>1, <1>2, <2>1, <2>2 DEF BackedEvent
<1>4. h.side = r.side /\ h.oid = r.oid /\ h.size = r.size
  BY <1>1 DEF Handle, TrackedOrder
<1>5. CASE e.kind = "rest" \/ e.status = "live"
  BY <1>1, <1>5 DEF Handle, Backs
<1>6. CASE e.kind = "ws" /\ e.status = "matched"
  <2>1. h.filled = Lesser(r.size, e.filled) /\ h.status = "FILLED"
    BY <1>1, <1>6 DEF Handle, TrackedOrder
  <2>2. e.filled \in Nat
    BY DEF OrderEvent
  <2>3. h.filled <= r.size /\ FilledShares(h) <= e.filled
    BY <1>1, <1>3, <1>4, <1>6, <2>1, <2>2 DEF FilledShares, Lesser
  <2>4. FilledShares(h) \in Nat
    BY <1>1, <1>4, <2>1, <2>2 DEF FilledShares, Lesser
  <2>5. QED
    BY <1>1, <1>3, <1>4, <1>6, <2>2, <2>3, <2>4 DEF Backs
<1>7. CASE e.kind = "ws" /\ e.status = "canceled"
  <2>1. h.filled = e.filled /\ h.status = "CANCELLED" /\ t \in done'
    BY <1>1, <1>7 DEF Handle, TrackedOrder, Terminal
  <2>2. e.filled \in Nat
    BY DEF OrderEvent
  <2>3. FilledShares(h) = e.filled
    BY <2>1, <2>2 DEF FilledShares
  <2>4. QED
    BY <1>1, <1>3, <1>4, <1>7, <2>1, <2>2, <2>3 DEF Backs
<1>8. CASE e.kind = "ws" /\ e.status = "partially_matched"
  <2>1. h.filled = Lesser(r.size, e.filled) /\ h.status = "PARTIAL"
    BY <1>1, <1>8 DEF Handle, TrackedOrder
  <2>2. e.filled \in Nat
    BY DEF OrderEvent
  <2>3. h.filled <= r.size /\ FilledShares(h) <= e.filled /\ FilledShares(h) \in Nat
    BY <1>1, <1>4, <2>1, <2>2 DEF FilledShares, Lesser
  <2>4. QED
    BY <1>1, <1>3, <1>4, <1>8, <2>2, <2>3 DEF Backs
<1>9. QED
  BY <1>5, <1>6, <1>7, <1>8 DEF OrderEvent

\* The worker takes the event of an order.
LEMMA TakeOrderEventBacked == ASSUME IInv, IInv', Backed, TakeOrderEvent PROVE Backed'
<1> DEFINE e == Head(queue)
           t == fsms[e.oid]
<1>1. /\ queue \in Seq(OrderEvent \cup {Timer}) /\ queue # <<>> /\ e \in OrderEvent \cup {Timer}
      /\ worker.at = "idle" /\ queue' = Tail(queue) /\ e.kind \in {"ws", "rest"}
      /\ UNCHANGED <<exch, used, held, fsms, active, polls, confirmed, batch, worker, caller, result>>
  BY Basics DEF TakeOrderEvent, exchVars, callVars
<1>2. e \in OrderEvent /\ BackedEvent(e)
  <2>1. e = queue[1] /\ 1 \in 1..Len(queue)
    BY <1>1
  <2>2. QED
    BY <1>1, <2>1 DEF Backed, QueueBacked, Timer
<1>3. QueueStep
  BY <1>1 DEF QueueStep
<1>4. CASE Ignored(t)
  <2>1. UNCHANGED <<trk, done>>
    BY <1>4 DEF TakeOrderEvent
  <2>2. ExchKept
    BY <1>1, Basics DEF ExchKept, IInv, TypeOK, ExchangeOrder
  <2>3. NewOrders
    <3>1. \A u \in Id : used < u => ~(u <= used)
      BY Basics
    <3>2. QED
      BY <1>1, <2>1, <3>1 DEF NewOrders
  <2>4. Calm
    BY <1>1, <1>3, <2>1, <2>2, <2>3 DEF Calm, Same, Backed, CallerBacked
  <2>5. QED
    BY <2>4, CalmBacked
<1>5. CASE ~Ignored(t)
  <2>1. t \in polls \ done
    BY <1>2, <1>5, Basics DEF Ignored, IInv, NoOrphanFsm, WokenWithFinalStatus, OrderEvent
  <2> DEFINE h == Handle(trk[t], e)
  <2>2. /\ trk' = [trk EXCEPT ![t] = h]
        /\ done' = IF h.status \in Terminal THEN done \cup {t} ELSE done
    BY <1>5 DEF TakeOrderEvent
  <2>3. Backs(h, t)
    BY <1>2, <2>1, <2>2, HandleBacks
  <2>4. WorkerBacked'
    BY <1>1, WorkerAt DEF Backed, WorkerBacked, WorkerPosted, SellPlaces
  <2>5. Goes(t, h)
    BY <1>1, <1>3, <2>2, <2>3, <2>4 DEF Goes
  <2> HIDE DEF h, t, e
  <2>6. QED
    BY <2>1, <2>5, GoesBacked
<1>6. QED
  BY <1>4, <1>5

\* The worker's own steps at the order it handles.
LEMMA WorkerGoes ==
  ASSUME IInv, IInv', Backed, NEW t \in polls \ done, NEW r, Backs(r, t),
         trk' = [trk EXCEPT ![t] = r], done \subseteq done',
         UNCHANGED <<exch, used, polls, queue, caller, result>>,
         worker' = Resume \/ \E p \in WorkerPlaces :
            /\ worker' = At(p, t)
            /\ p \in SellPlaces => r.side = "SELL"
            /\ p \in {"emergencyPrices", "emergencyPlaced"} => r.side = "BUY"
  PROVE  Backed'
<1>1. trk'[t] = r
  BY Basics
<1>2. WorkerBacked'
  <2>1. CASE worker' = Resume
    BY <2>1, ResumeType, WorkerAt DEF SellPlaces
  <2>2. CASE worker' # Resume
    <3>1. PICK p \in WorkerPlaces :
            /\ worker' = At(p, t)
            /\ p \in SellPlaces => r.side = "SELL"
            /\ p \in {"emergencyPrices", "emergencyPlaced"} => r.side = "BUY"
      BY <2>2
    <3>2. worker'.at = p /\ worker'.t = t /\ worker'.reply = "none"
      BY <3>1, AtType, Basics
    <3>3. QED
      BY <1>1, <3>1, <3>2, WorkerAt
  <2>3. QED
    BY <2>1, <2>2
<1>3. Goes(t, r)
  BY <1>2 DEF Goes, QueueStep
<1>4. QED
  BY <1>3, GoesBacked

\* A SELL may do what it likes.
LEMMA SellBacks ==
  ASSUME NEW t, NEW r, r.side = "SELL", trk[t].side = "SELL", r.oid = trk[t].oid
  PROVE  Backs(r, t)
BY DEF Backs

\* A row that keeps its sizes and does not read FILLED anew.
LEMMA KeptBacks ==
  ASSUME IInv, Backed, NEW t \in polls \ done, NEW r,
         r.side = trk[t].side, r.oid = trk[t].oid, r.size = trk[t].size,
         \/ r.filled = trk[t].filled /\ (r.status # "FILLED" \/ r.status = trk[t].status)
         \/ r.filled = 0 /\ r.status # "FILLED"
  PROVE  Backs(r, t)
<1>1. /\ trk[t].size \in Nat /\ trk[t].filled \in Nat
      /\ Executed(exch[t].root) \in Nat /\ FilledShares(trk[t]) \in Nat
      /\ trk[t].side = "BUY" => /\ FilledShares(trk[t]) <= Executed(exch[t].root)
                                /\ trk[t].size <= Size /\ trk[t].filled <= trk[t].size
  BY RowFound
<1>2. FilledShares(r) <= FilledShares(trk[t]) /\ FilledShares(r) \in Nat /\ r.filled <= trk[t].filled
  BY <1>1 DEF FilledShares
<1>3. r.filled \in Nat
  BY <1>1
<1>4. QED
  BY <1>1, <1>2, <1>3 DEF Backs

\* _reprice_or_emergency begins.
LEMMA StartRepriceBacked ==
  ASSUME IInv, IInv', Backed, NEW t \in Id, StartReprice(t) PROVE Backed'
<1>1. t \in polls \ done /\ trk[t] \in TrackedOrder /\ trk \in [Id -> TrackedOrder]
  BY Basics DEF StartReprice, IsStale, Open, IInv, BatchIsPolled, WokenWithFinalStatus, Terminal
<1>2. /\ done \subseteq done'
      /\ UNCHANGED <<exch, used, polls, queue, caller, result>>
  BY DEF StartReprice, exchVars, callVars
<1>3. PICK r :
        /\ trk' = [trk EXCEPT ![t] = r]
        /\ r.side = trk[t].side /\ r.oid = trk[t].oid /\ r.size = trk[t].size
        /\ r.filled = trk[t].filled /\ (r.status # "FILLED" \/ r.status = trk[t].status)
  <2>1. trk = [trk EXCEPT ![t] = trk[t]]
    BY <1>1
  <2>2. CASE trk' = trk
    BY <2>1, <2>2
  <2>3. CASE trk' = [trk EXCEPT ![t].status = "STALE"]
    <3> DEFINE q == [trk[t] EXCEPT !.status = "STALE"]
    <3>1. trk' = [trk EXCEPT ![t] = q]
      BY <1>1, <2>3
    <3>2. /\ q.side = trk[t].side /\ q.oid = trk[t].oid /\ q.size = trk[t].size
          /\ q.filled = trk[t].filled /\ q.status = "STALE"
      BY <1>1 DEF TrackedOrder
    <3> HIDE DEF q
    <3>3. QED
      BY <3>1, <3>2
  <2>4. QED
    BY <2>2, <2>3 DEF StartReprice
<1>4. Backs(r, t)
  BY <1>1, <1>3, KeptBacks
<1>5. worker' = Resume \/ \E p \in WorkerPlaces :
            /\ worker' = At(p, t)
            /\ p \in SellPlaces => r.side = "SELL"
            /\ p \in {"emergencyPrices", "emergencyPlaced"} => r.side = "BUY"
  <2>1. trk[t].side \in {"BUY", "SELL"}
    BY <1>1 DEF TrackedOrder
  <2>2. QED
    BY <1>3, <2>1 DEF StartReprice, WorkerPlaces, SellPlaces, BuyDust, SellDust
<1>6. QED
  BY <1>1, <1>2, <1>3, <1>4, <1>5, WorkerGoes

\* A FAK of the worker is answered.
LEMMA FakDoneBacked ==
  ASSUME IInv, IInv', Backed, NEW t \in Id, NEW k, NEW n, FakDone(t, k, n) PROVE Backed'
<1>1. t \in polls \ done /\ trk[t] \in TrackedOrder /\ trk \in [Id -> TrackedOrder]
  BY Basics DEF FakDone
<1> DEFINE r == AfterFak(trk[t], n)
<1>2. /\ done \subseteq done' /\ trk' = [trk EXCEPT ![t] = r] /\ worker' = Resume
      /\ UNCHANGED <<exch, used, polls, queue, caller, result>>
  BY <1>1 DEF FakDone, callVars
<1>3. Backs(r, t)
  <2>1. CASE worker.at = "abortFak"
    <3>1. r = GivenUp(trk[t])
      BY <2>1, Zenon DEF AfterFak
    <3>2. /\ r.side = trk[t].side /\ r.oid = trk[t].oid /\ r.size = trk[t].size
          /\ r.filled = 0 /\ r.status = "CANCELLED"
      BY <1>1, <3>1 DEF GivenUp, TrackedOrder
    <3> HIDE DEF r
    <3>3. QED
      BY <1>1, <3>2, KeptBacks
  <2>2. CASE worker.at \in {"dustFak", "emergencyFak"}
    <3>1. trk[t].side = "SELL"
      BY <2>2 DEF Backed, WorkerBacked, SellPlaces, FakDone
    <3>2. r = [trk[t] EXCEPT !.filled = @ + n, !.status = "FILLED"] \/ r = Added(trk[t], n)
      BY <2>2, Zenon DEF AfterFak
    <3>3. r.side = "SELL" /\ r.oid = trk[t].oid
      BY <1>1, <3>1, <3>2 DEF Added, TrackedOrder
    <3>4. QED
      BY <3>1, <3>3, SellBacks
  <2>3. QED
    BY <2>1, <2>2 DEF FakDone
<1> HIDE DEF r
<1>4. QED
  BY <1>1, <1>2, <1>3, WorkerGoes

\* The worker has the prices it asked for.
LEMMA PricesDoneBacked ==
  ASSUME IInv, IInv', Backed, NEW t \in Id, PricesDone(t) PROVE Backed'
<1>1. t \in polls \ done /\ trk[t] \in TrackedOrder /\ trk \in [Id -> TrackedOrder]
  BY Basics DEF PricesDone
<1>2. /\ done \subseteq done'
      /\ UNCHANGED <<exch, used, polls, queue, caller, result>>
      /\ worker' = Resume \/ worker' = At("recover", t)
  BY DEF PricesDone, exchVars, callVars
<1>3. PICK r :
        /\ trk' = [trk EXCEPT ![t] = r]
        /\ r.side = trk[t].side /\ r.oid = trk[t].oid /\ r.size = trk[t].size
        /\ \/ r.filled = trk[t].filled /\ r.status = trk[t].status
           \/ r.filled = 0 /\ r.status = "CANCELLED"
  <2>1. trk = [trk EXCEPT ![t] = trk[t]]
    BY <1>1
  <2>2. /\ GivenUp(trk[t]).side = trk[t].side /\ GivenUp(trk[t]).oid = trk[t].oid
        /\ GivenUp(trk[t]).size = trk[t].size
        /\ GivenUp(trk[t]).filled = 0 /\ GivenUp(trk[t]).status = "CANCELLED"
    BY <1>1 DEF GivenUp, TrackedOrder
  <2>3. /\ PriceKept(trk[t]).side = trk[t].side /\ PriceKept(trk[t]).oid = trk[t].oid
        /\ PriceKept(trk[t]).size = trk[t].size
        /\ PriceKept(trk[t]).filled = trk[t].filled /\ PriceKept(trk[t]).status = trk[t].status
    BY <1>1 DEF PriceKept, TrackedOrder
  <2>4. \/ trk' = trk \/ trk' = [trk EXCEPT ![t] = GivenUp(trk[t])]
        \/ trk' = [trk EXCEPT ![t] = PriceKept(trk[t])]
    BY <1>1 DEF PricesDone
  <2>5. QED
    BY <2>1, <2>2, <2>3, <2>4
<1>4. Backs(r, t)
  BY <1>1, <1>3, KeptBacks
<1>5. QED
  BY <1>1, <1>2, <1>3, <1>4, WorkerGoes DEF WorkerPlaces, SellPlaces

\* What the client learns of an order's fills was traded.
LEMMA ReportBacked ==
  ASSUME IInv, Backed, NEW o \in 1..used, NEW rep \in FillReports(o)
  PROVE  /\ rep.n \in Nat /\ rep.n <= Executed(exch[o].root)
         /\ rep.st = "matched" => rep.n > 0
<1>1. o \in Id /\ exch[o].matched \in Nat /\ exch[o].matched <= Executed(exch[o].root)
  BY ExecutedHolds, Basics
<1>2. rep.n \in Nat /\ rep.n <= exch[o].matched /\ (rep.st = "matched" => rep.n > 0)
  BY <1>1 DEF FillReports
<1>3. Executed(exch[o].root) \in Nat
  BY ExecutedIsNat, Basics
<1>4. QED
  BY <1>1, <1>2, <1>3

\* A row after the recovery, which is worth what was traded.
LEMMA RecoveredRow ==
  ASSUME IInv, Backed, NEW t \in polls \ done, NEW rep \in FillReports(trk[t].oid)
  PROVE  LET r == Recovered(trk[t], rep)
         IN /\ r \in TrackedOrder /\ r.side = trk[t].side /\ r.oid = trk[t].oid
            /\ r.size = trk[t].size /\ r.size \in Nat /\ r.filled \in Nat
            /\ r.side = "BUY" => /\ r.size <= Size /\ r.filled <= r.size
                                 /\ FilledShares(r) <= Executed(exch[t].root)
<1> DEFINE q == trk[t]
           r == Recovered(q, rep)
<1>1. /\ t \in Id /\ q \in TrackedOrder /\ q.size \in Nat /\ q.filled \in Nat
      /\ Executed(exch[t].root) \in Nat /\ FilledShares(q) \in Nat
      /\ q.side = "BUY" => /\ FilledShares(q) <= Executed(exch[t].root)
                           /\ q.size <= Size /\ q.filled <= q.size
      /\ q.oid \in 1..used /\ exch[q.oid].root = exch[t].root
  BY RowFound
<1>2. /\ rep.n \in Nat /\ rep.n <= Executed(exch[t].root)
      /\ rep.st = "matched" => rep.n > 0
  BY <1>1, ReportBacked
<1>3. CASE r = q
  BY <1>1, <1>3
<1>4. CASE rep.st = "matched" \/ rep.n >= q.size
  <2> DEFINE f == Lesser(q.size, Greater(q.filled, rep.n))
  <2>1. r = [q EXCEPT !.status = "FILLED", !.filled = f]
    BY <1>1, <1>4 DEF Recovered
  <2>2. f \in Nat
    BY <1>1, <1>2 DEF Lesser, Greater
  <2>3. f <= q.size /\ (f = 0 => q.size = 0)
    BY <1>1, <1>2, <1>4 DEF Lesser, Greater
  <2>4. f > 0 => f <= rep.n \/ f <= q.filled
    BY <1>1, <1>2 DEF Lesser, Greater
  <2> HIDE DEF f
  <2>5. r \in TrackedOrder
    BY <1>1, <2>1, <2>2 DEF TrackedOrder, Statuses, Terminal
  <2>6. /\ r.side = q.side /\ r.oid = q.oid /\ r.size = q.size /\ r.filled = f /\ r.status = "FILLED"
    BY <1>1, <2>1 DEF TrackedOrder
  <2>7. FilledShares(r) = f
    BY <2>2, <2>3, <2>6 DEF FilledShares
  <2>8. q.side = "BUY" => f <= Executed(exch[t].root)
    <3>1. q.filled > 0 => FilledShares(q) = q.filled
      BY DEF FilledShares
    <3>2. QED
      BY <1>1, <1>2, <2>2, <2>4, <3>1
  <2> HIDE DEF r
  <2>9. QED
    BY <1>1, <2>2, <2>3, <2>5, <2>6, <2>7, <2>8 DEF r
<1>5. CASE ~(rep.st = "matched" \/ rep.n >= q.size) /\ rep.n > q.filled
  <2>1. r = [q EXCEPT !.status = "PARTIAL", !.filled = rep.n]
    BY <1>5 DEF Recovered
  <2>2. r \in TrackedOrder
    BY <1>1, <1>2, <2>1 DEF TrackedOrder, Statuses
  <2>3. /\ r.side = q.side /\ r.oid = q.oid /\ r.size = q.size /\ r.filled = rep.n /\ r.status = "PARTIAL"
    BY <1>1, <2>1 DEF TrackedOrder
  <2>4. FilledShares(r) = rep.n
    BY <1>1, <1>2, <1>5, <2>3 DEF FilledShares
  <2> HIDE DEF r
  <2>5. QED
    BY <1>1, <1>2, <1>5, <2>2, <2>3, <2>4 DEF r
<1>6. QED
  BY <1>3, <1>4, <1>5 DEF Recovered

\* ReplaceOrFinish with a row that is worth what was traded.
LEMMA ReplaceOrFinishBacked ==
  ASSUME IInv, IInv', Backed, NEW t \in polls \ done, NEW r \in TrackedOrder,
         ReplaceOrFinish(t, r), r.side = trk[t].side, r.oid = trk[t].oid,
         r.side = "BUY" => /\ r.size <= Size /\ r.filled <= r.size
                           /\ FilledShares(r) <= Executed(exch[t].root),
         UNCHANGED <<exch, used, polls, queue, caller, result>>
  PROVE  Backed'
<1>1. r.size \in Nat /\ r.filled \in Nat /\ r.reprices \in Nat
  BY DEF TrackedOrder
<1>2. trk \in [Id -> TrackedOrder] /\ t \in Id
  BY Basics
<1>3. CASE r.filled >= r.size
  <2> DEFINE q == [r EXCEPT !.status = "FILLED"]
  <2>1. trk' = [trk EXCEPT ![t] = q] /\ worker' = Resume /\ done \subseteq done'
    BY <1>3 DEF ReplaceOrFinish
  <2>2. q.side = r.side /\ q.oid = r.oid /\ q.size = r.size /\ q.filled = r.filled
    BY DEF TrackedOrder
  <2> HIDE DEF q
  <2>3. FilledShares(q) = FilledShares(r)
    BY <1>1, <1>3, <2>2 DEF FilledShares
  <2>4. Backs(q, t)
    BY <2>2, <2>3 DEF Backs
  <2>5. QED
    BY <2>1, <2>4, WorkerGoes
<1>4. CASE ~(r.filled >= r.size)
  <2> DEFINE q == [r EXCEPT !.reprices = @ + 1]
  <2>1. trk' = [trk EXCEPT ![t] = q] /\ worker' = At("place", t) /\ done \subseteq done'
    BY <1>4 DEF ReplaceOrFinish
  <2>2. q.side = r.side /\ q.oid = r.oid /\ q.size = r.size /\ q.filled = r.filled /\ q.status = r.status
    BY DEF TrackedOrder
  <2> HIDE DEF q
  <2>3. FilledShares(q) = FilledShares(r)
    BY <2>2 DEF FilledShares
  <2>4. Backs(q, t)
    BY <2>2, <2>3 DEF Backs
  <2>5. QED
    BY <2>1, <2>4, WorkerGoes DEF WorkerPlaces, SellPlaces
<1>5. QED
  BY <1>3, <1>4

\* A cancel that failed is looked into.
LEMMA RecoverDoneBacked == ASSUME IInv, IInv', Backed, NEW t \in Id, RecoverDone(t) PROVE Backed'
<1>1. t \in polls \ done
  BY Basics DEF RecoverDone
<1>2. UNCHANGED <<exch, used, polls, queue, caller, result>>
  BY DEF RecoverDone, exchVars, callVars
<1>3. PICK rep \in FillReports(trk[t].oid) :
        LET r == Recovered(trk[t], rep)
        IN \/ r.side = "SELL" /\ trk' = [trk EXCEPT ![t] = r] /\ worker' = At("recoverFak", t) /\ done' = done
           \/ ReplaceOrFinish(t, r)
  BY DEF RecoverDone
<1> DEFINE r == Recovered(trk[t], rep)
<1>4. /\ r \in TrackedOrder /\ r.side = trk[t].side /\ r.oid = trk[t].oid
      /\ r.side = "BUY" => /\ r.size <= Size /\ r.filled <= r.size
                           /\ FilledShares(r) <= Executed(exch[t].root)
  BY <1>1, RecoveredRow
<1>5. \/ r.side = "SELL" /\ trk' = [trk EXCEPT ![t] = r] /\ worker' = At("recoverFak", t) /\ done' = done
      \/ ReplaceOrFinish(t, r)
  BY <1>3
<1> HIDE DEF r
<1>6. CASE ReplaceOrFinish(t, r)
  BY <1>1, <1>2, <1>4, <1>6, ReplaceOrFinishBacked
<1>7. CASE ~ReplaceOrFinish(t, r)
  <2>1. Backs(r, t)
    BY <1>4, <1>5, <1>7 DEF Backs
  <2>2. QED
    BY <1>1, <1>2, <1>5, <1>7, <2>1, WorkerGoes DEF WorkerPlaces, SellPlaces
<1>8. QED
  BY <1>6, <1>7

\* The FAK after a failed cancel is answered.
LEMMA RecoverFakDoneBacked ==
  ASSUME IInv, IInv', Backed, NEW t \in Id, NEW k, NEW n \in Nat, RecoverFakDone(t, k, n) PROVE Backed'
<1>1. t \in polls \ done /\ trk[t] \in TrackedOrder
  BY Basics DEF RecoverFakDone
<1>2. trk[t].side = "SELL"
  BY DEF Backed, WorkerBacked, SellPlaces, RecoverFakDone
<1> DEFINE r == [trk[t] EXCEPT !.filled = @ + n, !.status = "FILLED"]
<1>3. ReplaceOrFinish(t, r) /\ UNCHANGED <<exch, used, polls, queue, caller, result>>
  BY DEF RecoverFakDone, callVars
<1>4. r \in TrackedOrder
  <2>1. trk[t].filled + n \in Nat /\ "FILLED" \in Statuses
    BY <1>1 DEF TrackedOrder, Statuses, Terminal
  <2>2. QED
    BY <1>1, <2>1 DEF TrackedOrder
<1>5. r.side = trk[t].side /\ r.oid = trk[t].oid
  BY <1>1 DEF TrackedOrder
<1> HIDE DEF r
<1>6. QED
  BY <1>1, <1>2, <1>3, <1>4, <1>5, ReplaceOrFinishBacked
---------------------------------------------------------------------------
(* POSTs. *)

\* What a POST does at the exchange.
LEMMA PostAdds ==
  ASSUME IInv, IInv', Backed, NEW s \in {"BUY", "SELL"}, NEW n \in Nat, NEW root \in 0..used,
         NEW how \in Hows, Post(s, n, root, how)
  PROVE  \/ how = "rejected" /\ Placed(how) = None /\ UNCHANGED <<exch, used>>
         \/ /\ used' = used + 1 /\ Placed(how) = used'
            /\ used' \in Id /\ used' \notin 1..used /\ PolyMin <= n
            /\ \A o \in Id : o # used' => exch'[o] = exch[o]
            /\ exch'[used'].root = IF root = None THEN used' ELSE root
            /\ exch'[used'].size = n
            /\ exch'[used'].matched = IF how = "matched" THEN n ELSE 0
<1>1. used \in Nat /\ exch \in [Id -> ExchangeOrder] /\ MaxOrders \in Nat
  BY Basics, OrderEngineAssumption DEF IInv, TypeOK, OrderEngineAssumption
<1>2. CASE how = "rejected"
  BY <1>2 DEF Post, Placed, exchVars
<1>3. CASE how # "rejected"
  <2> PICK e : e = [side |-> s, size |-> n, matched |-> IF how = "matched" THEN n ELSE 0,
               st |-> IF how = "matched" THEN "matched" ELSE "live",
               news |-> how = "matched", root |-> IF root = None THEN used + 1 ELSE root]
    OBVIOUS
  <2>1. /\ used' = used + 1 /\ used < MaxOrders /\ PolyMin <= n
        /\ exch' = [exch EXCEPT ![used + 1] = e]
    BY <1>3 DEF Post
  <2>2. used + 1 \in Id /\ used + 1 \notin 1..used
    BY <1>1, <2>1 DEF Id
  <2>3. exch'[used'] = e /\ \A o \in Id : o # used' => exch'[o] = exch[o]
    BY <1>1, <2>1, <2>2
  <2>4. /\ e.root = (IF root = None THEN used' ELSE root) /\ e.size = n
        /\ e.matched = IF how = "matched" THEN n ELSE 0
    BY <2>1
  <2>5. QED
    BY <1>3, <2>1, <2>2, <2>3, <2>4 DEF Placed
<1>4. QED
  BY <1>2, <1>3

\* A POST adds at most one order, under the request it is made for, and the
\* answer "matched" means that all of it was traded.
LEMMA PostKeeps ==
  ASSUME IInv, IInv', Backed, NEW s \in {"BUY", "SELL"}, NEW n \in Nat, NEW root \in 0..used,
         NEW how \in Hows, Post(s, n, root, how), trk' = trk
  PROVE  /\ ExchKept /\ NewOrders /\ \A t \in 1..used : Same(trk[t], trk'[t])
         /\ Reply(how) # "none" =>
              /\ used' = used + 1 /\ Placed(how) = used' /\ used' \in Id /\ PolyMin <= n
              /\ exch'[used'].root = IF root = None THEN used' ELSE root
         /\ Reply(how) = "matched" => exch'[used'].matched = n
<1>1. \/ how = "rejected" /\ Placed(how) = None /\ UNCHANGED <<exch, used>>
      \/ /\ used' = used + 1 /\ Placed(how) = used'
         /\ used' \in Id /\ used' \notin 1..used /\ PolyMin <= n
         /\ \A o \in Id : o # used' => exch'[o] = exch[o]
         /\ exch'[used'].root = IF root = None THEN used' ELSE root
         /\ exch'[used'].size = n
         /\ exch'[used'].matched = IF how = "matched" THEN n ELSE 0
  BY PostAdds
<1>2. /\ used \in Nat /\ 1..used \subseteq Id /\ Id \subseteq Nat
      /\ \A o \in Id : exch[o].matched \in Nat
  BY Basics, ExchFields DEF IInv
<1>3. ExchKept
  BY <1>1, <1>2 DEF ExchKept
<1>4. NewOrders
  <2>1. SUFFICES ASSUME NEW o \in Id, used < o
                 PROVE  IF o <= used' THEN exch'[o].root \in 1..used' /\ PolyMin <= exch'[o].size
                        ELSE exch'[o] = exch[o]
    BY DEF NewOrders
  <2>2. CASE UNCHANGED <<exch, used>>
    BY <1>2, <2>1, <2>2
  <2>3. CASE used' = used + 1 /\ o = used'
    <3>1. exch'[o].root \in 1..used' /\ exch'[o].size = n /\ PolyMin <= n
      BY <1>1, <1>2, <2>1, <2>3 DEF None
    <3>2. QED
      BY <1>2, <2>3, <3>1
  <2>4. CASE used' = used + 1 /\ o # used'
    <3>1. ~(o <= used')
      BY <1>2, <2>1, <2>4
    <3>2. QED
      BY <1>1, <1>2, <2>4, <3>1
  <2>5. QED
    BY <1>1, <2>2, <2>3, <2>4
<1>5. Reply(how) # "none" => how # "rejected"
  BY DEF Reply
<1>6. Reply(how) = "matched" => how = "matched"
  BY DEF Reply
<1>7. QED
  BY <1>1, <1>3, <1>4, <1>5, <1>6 DEF Same

\* A POST leaves everything but the exchange and the one who posts.
LEMMA PostBacked ==
  ASSUME IInv, IInv', Backed, ExchKept, NewOrders, UNCHANGED <<trk, done, queue>>
  PROVE  Ledger' /\ Rooted' /\ BuyRows' /\ QueueBacked'
<1>1. RowsStep({})
  BY DEF RowsStep, Same
<1>2. QED
  BY <1>1, RowsStepBacked, QueueKept

\* The request an order of the engine belongs to.
LEMMA RootFound == ASSUME IInv, Backed, NEW t \in 1..used PROVE t \in Id /\ exch[t].root \in 1..used /\ exch[t].root \in 0..used
<1>1. t \in Id /\ t <= used
  BY Basics
<1>2. exch[t].root \in 1..used
  BY <1>1 DEF Backed, Ledger
<1>3. QED
  BY <1>1, <1>2, Basics

\* The worker's POST, of a replacement or of the emergency close.
LEMMA WorkerPostBacked ==
  ASSUME IInv, IInv', Backed, NEW t \in polls \ done, NEW how \in Hows,
         Post(trk[t].side, Remaining(t), exch[t].root, how),
         worker' = [at |-> "placed", t |-> t, order |-> Placed(how), reply |-> Reply(how)]
         \/ (/\ worker' = [at |-> "emergencyPlaced", t |-> t, order |-> Placed(how), reply |-> Reply(how)]
             /\ trk[t].side = "BUY"),
         UNCHANGED <<trk, done, polls, queue, caller, result>>
  PROVE  Backed'
<1>1. /\ t \in Id /\ t \in 1..used /\ exch[t].root \in 1..used /\ exch[t].root \in 0..used
      /\ exch[t].root # None /\ exch[t].root \in Nat
  BY Basics, RootFound DEF None
<1>2. trk[t].side \in {"BUY", "SELL"} /\ Remaining(t) \in Nat /\ trk[t].filled \in Nat
  BY <1>1, TrkFields, RemainingType DEF IInv
<1>3. /\ ExchKept /\ NewOrders
      /\ Reply(how) # "none" =>
           /\ used' = used + 1 /\ Placed(how) = used' /\ used' \in Id /\ PolyMin <= Remaining(t)
           /\ exch'[used'].root = exch[t].root
      /\ Reply(how) = "matched" => exch'[used'].matched = Remaining(t)
  BY <1>1, <1>2, PostKeeps
<1>4. Ledger' /\ Rooted' /\ BuyRows' /\ QueueBacked'
  BY <1>3, PostBacked
<1>5. CallerBacked' /\ NoPhantomFill' /\ ReportedWithinRequest'
  BY <1>3, CallerKept DEF Backed, CallerBacked
<1>6. ASSUME worker'.at = "emergencyPlaced", worker'.reply = "matched"
      PROVE  trk'[t].filled + Remaining(t)' <= Executed(exch[worker.t].root)'
  <2> PICK r : r = exch[t].root
    OBVIOUS
  <2> PICK n : n = Remaining(t)
    OBVIOUS
  <2>1. Reply(how) = "matched" /\ trk[t].side = "BUY" /\ worker'.t = t
    BY <1>6
  <2>2. Executed(r) + n <= Executed(r)'
    <3>1. TypeOK /\ TypeOK' /\ n \in Nat
      BY <1>2 DEF IInv
    <3>2. exch'[used'].root = r /\ exch'[used'].matched = n /\ used' = used + 1
      BY <1>3, <2>1
    <3>3. QED
      BY <1>3, <3>1, <3>2, ExecutedPosted
  <2>3. /\ Executed(r) \in Nat /\ Executed(r)' \in Nat
    BY <1>3, ExecutedGrows DEF IInv
  <2>4. trk[t].filled <= Executed(r)
    <3>1. FilledShares(trk[t]) <= Executed(r)
      BY <2>1, RowFound
    <3>2. trk[t].filled > 0 => FilledShares(trk[t]) = trk[t].filled
      BY DEF FilledShares
    <3>3. QED
      BY <1>2, <2>3, <3>1, <3>2
  <2>5. Remaining(t)' = n
    BY DEF Remaining
  <2>6. Executed(exch[worker.t].root)' = Executed(r)'
    <3>1. exch'[worker'.t].root = r
      BY <1>1, <1>3, <2>1 DEF ExchKept
    <3>2. QED
      BY <3>1 DEF Executed
  <2>7. QED
    BY <1>2, <2>2, <2>3, <2>4, <2>5, <2>6
<1>7. WorkerBacked'
  <2>1. worker'.t = t /\ worker'.reply = Reply(how) /\ worker'.order = Placed(how)
        /\ worker'.at \in {"placed", "emergencyPlaced"}
        /\ (worker'.at = "emergencyPlaced" => trk[t].side = "BUY")
    OBVIOUS
  <2>2. exch'[t].root = exch[t].root /\ Remaining(t)' = Remaining(t)
    BY <1>1, <1>3 DEF ExchKept, Remaining
  <2>3. Reply(how) = "matched" => 0 < Remaining(t)' /\ Remaining(t)' <= exch'[worker'.order].matched
    BY <1>2, <1>3, <2>1, <2>2, OrderEngineAssumption DEF OrderEngineAssumption
  <2>4. WorkerPosted' => exch'[worker'.order].root = exch'[worker'.t].root
    BY <1>3, <2>1, <2>2 DEF WorkerPosted
  <2>5. WorkerPosted' /\ worker'.reply = "matched" => 0 < Remaining(worker.t)' /\ Remaining(worker.t)' <= exch'[worker'.order].matched
    <3>1. Remaining(worker.t)' = Remaining(t)'
      BY <2>1 DEF Remaining
    <3>2. QED
      BY <2>1, <2>3, <3>1
  <2>6. worker'.at = "emergencyPlaced" /\ worker'.reply = "matched"
          => trk'[worker'.t].filled + Remaining(worker.t)' <= Executed(exch[worker.t].root)'
    <3>1. Remaining(worker.t)' = Remaining(t)'
      BY <2>1 DEF Remaining
    <3>2. QED
      BY <1>6, <2>1, <3>1
  <2>7. QED
    BY <2>1, <2>4, <2>5, <2>6 DEF WorkerBacked, SellPlaces
<1>8. QED
  BY <1>4, <1>5, <1>7 DEF Backed

\* The replacement of an order at a new price.
LEMMA ReplaceBacked == ASSUME IInv, IInv', Backed, NEW t \in Id, NEW how \in Hows, Replace(t, how) PROVE Backed'
<1>1. t \in polls \ done
  BY Basics DEF Replace
<1>2. QED
  BY <1>1, WorkerPostBacked DEF Replace, engineVars, callVars

\* The emergency close of a BUY.
LEMMA EmergencyBuyBacked ==
  ASSUME IInv, IInv', Backed, NEW t \in Id, NEW how \in Hows, EmergencyBuy(t, how) PROVE Backed'
<1>1. t \in polls \ done
  BY Basics DEF EmergencyBuy
<1>2. trk[t].side = "BUY"
  BY DEF EmergencyBuy, Backed, WorkerBacked
<1>3. QED
  BY <1>1, <1>2, WorkerPostBacked DEF EmergencyBuy, engineVars, callVars
---------------------------------------------------------------------------
(* Answers of POSTs, and the end of a poll. *)

\* Without a step of the exchange nothing traded changes.
LEMMA QuietExchange ==
  ASSUME IInv, UNCHANGED <<exch, used>>, \A u \in Id : used < u => trk'[u] = trk[u]
  PROVE  ExchKept /\ NewOrders /\ \A r : Executed(r)' = Executed(r)
<1>1. ExchKept
  BY Basics DEF ExchKept, IInv, TypeOK, ExchangeOrder
<1>2. \A u \in Id : used < u => ~(u <= used)
  BY Basics
<1>3. NewOrders
  BY <1>2 DEF NewOrders
<1>4. QED
  BY <1>1, <1>3 DEF Executed

\* A row of the engine's own order, just created.
LEMMA NewRowTouched ==
  ASSUME IInv, IInv', Backed, NEW o \in 1..used, NEW s \in {"BUY", "SELL"}, NEW n \in Nat, NEW st,
         NEW f \in {0, n}, trk'[o] = NewTracked(o, s, n, st, f), UNCHANGED <<exch, used>>,
         s = "BUY" => /\ n <= Size
                      /\ (st = "FILLED" /\ f = n => n <= exch[o].matched)
                      /\ (st # "FILLED" => f = 0) /\ (st = "FILLED" => f = n)
  PROVE  TouchedRow(o)
<1> PICK q : q = trk'[o]
  OBVIOUS
<1>1. q = NewTracked(o, s, n, st, f)
  OBVIOUS
<1>2. q.side = s /\ q.size = n /\ q.status = st /\ q.filled = f /\ q.oid = o
  BY <1>1 DEF NewTracked
<1>3. exch[o].matched \in Nat /\ exch[o].matched <= Executed(exch[o].root) /\ Executed(exch[o].root) \in Nat
  BY ExecutedHolds, ExecutedIsNat, Basics
<1>4. s = "BUY" => FilledShares(q) <= Executed(exch[o].root) /\ q.size <= Size /\ q.filled <= q.size
  BY <1>2, <1>3 DEF FilledShares
<1>5. Executed(exch[o].root)' = Executed(exch[o].root)
  BY DEF Executed
<1>6. BuyRow(o)'
  BY <1>2, <1>4, <1>5 DEF BuyRow
<1>7. QED
  BY <1>2, <1>6 DEF TouchedRow

\* The replacement is answered: the row moves to an order of its own request.
LEMMA ReplaceDoneBacked == ASSUME IInv, IInv', Backed, NEW t \in Id, ReplaceDone(t) PROVE Backed'
<1> DEFINE o == worker.order
<1>1. t \in polls \ done /\ t = worker.t /\ worker.at = "placed"
  BY Basics DEF ReplaceDone
<1>2. /\ trk[t] \in TrackedOrder /\ trk \in [Id -> TrackedOrder] /\ t \in 1..used
      /\ UNCHANGED <<exch, used, polls, caller, result>>
      /\ worker' = Resume /\ done \subseteq done'
  BY <1>1, RowFound, Basics DEF ReplaceDone, exchVars, callVars
<1>3. CASE worker.reply = "none"
  <2> DEFINE r == [trk[t] EXCEPT !.status = "FAILED"]
  <2>1. trk' = [trk EXCEPT ![t] = r] /\ queue' = queue
    BY <1>2, <1>3 DEF ReplaceDone
  <2>2. /\ r.side = trk[t].side /\ r.oid = trk[t].oid /\ r.size = trk[t].size
        /\ r.filled = trk[t].filled /\ r.status = "FAILED"
    BY <1>2 DEF TrackedOrder
  <2> HIDE DEF r
  <2>3. Backs(r, t)
    BY <1>1, <2>2, KeptBacks
  <2>4. QED
    BY <1>1, <1>2, <2>1, <2>3, WorkerGoes
<1>4. CASE worker.reply # "none"
  <2> DEFINE st == IF worker.reply = "matched" THEN "FILLED" ELSE "PENDING"
             r == [trk[t] EXCEPT !.oid = o, !.stale = FALSE, !.status = st]
  <2>1. /\ trk' = [trk EXCEPT ![t] = r]
        /\ queue' = IF st = "FILLED" THEN queue ELSE Append(queue, RestLive(o))
    BY <1>4 DEF ReplaceDone
  <2>2. /\ r.side = trk[t].side /\ r.oid = o /\ r.size = trk[t].size
        /\ r.filled = trk[t].filled /\ r.status = st
    BY <1>2 DEF TrackedOrder
  <2>3. o \in 1..used /\ exch[o].root = exch[t].root /\ WorkerPosted
    BY <1>1, <1>4, Basics DEF Backed, WorkerBacked, WorkerPosted
  <2>4. o \in Id /\ exch[o].matched \in Nat /\ exch[o].matched <= Executed(exch[t].root)
    BY <2>3, ExecutedHolds, Basics
  <2>5. worker.reply = "matched" => 0 < Remaining(t) /\ Remaining(t) <= exch[o].matched
    BY <1>1, <2>3 DEF Backed, WorkerBacked
  <2>6. /\ trk[t].size \in Nat /\ trk[t].filled \in Nat
        /\ Executed(exch[t].root) \in Nat /\ FilledShares(trk[t]) \in Nat
        /\ trk[t].side = "BUY" => /\ FilledShares(trk[t]) <= Executed(exch[t].root)
                                  /\ trk[t].size <= Size /\ trk[t].filled <= trk[t].size
    BY <1>1, RowFound
  <2>7. r.side = "BUY" => FilledShares(r) <= Executed(exch[t].root)
    <3>1. CASE r.filled > 0
      BY <2>2, <2>6, <3>1 DEF FilledShares
    <3>2. CASE ~(r.filled > 0) /\ st = "FILLED"
      <4>1. FilledShares(r) = trk[t].size /\ Remaining(t) = trk[t].size
        BY <2>2, <2>6, <3>2 DEF FilledShares, Remaining, Minus
      <4>2. QED
        BY <2>4, <2>5, <2>6, <3>2, <4>1
    <3>3. CASE ~(r.filled > 0) /\ st # "FILLED"
      BY <2>2, <2>6, <3>3 DEF FilledShares
    <3>4. QED
      BY <3>1, <3>2, <3>3
  <2> HIDE DEF r
  <2>8. Backs(r, t)
    BY <2>2, <2>3, <2>6, <2>7 DEF Backs
  <2>9. QueueStep
    <3>1. RestLive(o) \in OrderEvent \cup {Timer}
      BY <2>4 DEF RestLive, OrderEvent
    <3>2. BackedEvent(RestLive(o))'
      BY DEF BackedEvent, RestLive
    <3> PICK e : e = RestLive(o)
      OBVIOUS
    <3>3. BackedEvent(e)'
      <4>1. e.kind = "rest"
        BY DEF RestLive
      <4>2. QED
        BY <4>1 DEF BackedEvent
    <3>4. QED
      BY <2>1, <3>1, <3>3 DEF QueueStep
  <2>10. WorkerBacked'
    BY <1>2, ResumeType, WorkerAt DEF SellPlaces
  <2>11. Goes(t, r)
    BY <1>2, <2>1, <2>8, <2>9, <2>10 DEF Goes
  <2>12. QED
    BY <1>1, <2>11, GoesBacked
<1>5. QED
  BY <1>3, <1>4

\* The emergency BUY is answered.
LEMMA EmergencyBuyDoneBacked ==
  ASSUME IInv, IInv', Backed, NEW t \in Id, EmergencyBuyDone(t) PROVE Backed'
<1> DEFINE o == worker.order
           n == Remaining(t)
<1>1. t \in polls \ done /\ t = worker.t /\ worker.at = "emergencyPlaced"
  BY Basics DEF EmergencyBuyDone
<1>2. /\ trk[t] \in TrackedOrder /\ trk \in [Id -> TrackedOrder] /\ t \in 1..used
      /\ UNCHANGED <<exch, used, queue, caller, result>>
      /\ done \subseteq done' /\ polls \subseteq polls' /\ trk[t].side = "BUY"
  BY <1>1, RowFound, Basics DEF EmergencyBuyDone, exchVars, callVars, Backed, WorkerBacked
<1>3. CASE worker.reply = "none"
  <2>1. trk' = [trk EXCEPT ![t] = trk[t]] /\ worker' = Resume /\ polls' = polls
    BY <1>2, <1>3 DEF EmergencyBuyDone
  <2>2. Backs(trk[t], t)
    BY <1>1, KeptBacks
  <2>3. QED
    BY <1>1, <1>2, <2>1, <2>2, WorkerGoes
<1>4. CASE worker.reply # "none"
  <2>1. o \in 1..used /\ o \in Id /\ exch[o].root = exch[t].root /\ WorkerPosted /\ o \notin polls /\ o # t
    BY <1>1, <1>4, Basics DEF Backed, WorkerBacked, WorkerPosted, IInv, PostedIsFresh, Unanswered, Fresh
  <2>2. /\ trk[t].size \in Nat /\ trk[t].filled \in Nat /\ n \in Nat
        /\ trk[t].size <= Size /\ trk[t].filled <= trk[t].size
    BY <1>1, <1>2, RowFound, RemainingType DEF IInv
  <2>3. n <= Size /\ Size \in Nat
    BY <2>2, OrderEngineAssumption DEF Remaining, Minus, OrderEngineAssumption
  <2>4. CASE worker.reply = "matched"
    <3>1. n <= exch[o].matched /\ 0 < n /\ trk[t].filled + n <= Executed(exch[t].root)
      BY <1>1, <2>1, <2>4 DEF Backed, WorkerBacked
    <3> DEFINE q == Added(trk[t], n)
    <3>2. /\ q.side = "BUY" /\ q.size = trk[t].size /\ q.filled = trk[t].filled + n
          /\ q.oid = trk[t].oid
      BY <1>2 DEF Added, TrackedOrder
    <3>3. /\ trk' = [trk EXCEPT ![t] = q, ![o] = NewTracked(o, "BUY", n, "FILLED", n)]
          /\ worker' = Resume
      BY <1>4, <2>4 DEF EmergencyBuyDone
    <3> HIDE DEF q, n
    <3>4. /\ trk'[t] = q /\ trk'[o] = NewTracked(o, "BUY", n, "FILLED", n)
          /\ \A u \in Id \ {t, o} : trk'[u] = trk[u]
      BY <1>2, <2>1, <3>3
    <3>5. q.filled <= q.size
      BY <2>2, <3>2 DEF n, Remaining, Minus
    <3>6. FilledShares(q) = trk[t].filled + n
      BY <2>2, <3>1, <3>2 DEF FilledShares
    <3>7. TouchedRow(t)
      <4>1. Executed(exch[t].root)' = Executed(exch[t].root)
        BY <1>2 DEF Executed
      <4>2. BuyRow(t)'
        BY <2>2, <3>1, <3>2, <3>4, <3>5, <3>6, <4>1 DEF BuyRow
      <4>3. QED
        BY <1>2, <3>2, <3>4, <4>2 DEF TouchedRow, Backed, Rooted
    <3>8. TouchedRow(o)
      BY <1>2, <2>1, <2>2, <2>3, <3>1, <3>4, NewRowTouched
    <3>9. \A u \in Id : used < u => trk'[u] = trk[u]
      BY <1>2, <2>1, <3>4, Basics
    <3>10. ExchKept /\ NewOrders
      BY <1>2, <3>9, QuietExchange
    <3>11. RowsStep({t, o})
      BY <1>2, <3>4, <3>7, <3>8, <3>10, Basics DEF RowsStep, Same
    <3>12. Ledger' /\ Rooted' /\ BuyRows' /\ QueueBacked'
      BY <1>2, <2>1, <3>10, <3>11, RowsStepBacked, QueueKept
    <3>13. WorkerBacked'
      BY <3>3, ResumeType, WorkerAt DEF SellPlaces
    <3>14. CallerBacked' /\ NoPhantomFill' /\ ReportedWithinRequest'
      <4>1. caller.at = "polling" => caller.order \in polls' /\ trk'[caller.order].side = trk[caller.order].side
        BY <1>2, <2>1, <3>2, <3>4, Basics DEF Backed, CallerBacked
      <4>2. QED
        BY <1>2, <3>10, <4>1, CallerKept
    <3>15. QED
      BY <3>12, <3>13, <3>14 DEF Backed
  <2>5. CASE worker.reply # "matched"
    <3>1. /\ trk' = [trk EXCEPT ![o] = NewTracked(o, "BUY", n, "PENDING", 0)]
          /\ worker'.at = "emergencyWait"
      BY <1>4, <2>5 DEF EmergencyBuyDone, IInv, TypeOK
    <3> HIDE DEF n
    <3>2. /\ trk'[o] = NewTracked(o, "BUY", n, "PENDING", 0)
          /\ \A u \in Id \ {o} : trk'[u] = trk[u]
      BY <1>2, <2>1, <3>1
    <3>3. TouchedRow(o)
      BY <1>2, <2>1, <2>2, <2>3, <3>2, NewRowTouched
    <3>4. \A u \in Id : used < u => trk'[u] = trk[u]
      BY <1>2, <2>1, <3>2, Basics
    <3>5. ExchKept /\ NewOrders
      BY <1>2, <3>4, QuietExchange
    <3>6. RowsStep({o})
      BY <1>2, <3>2, <3>3, <3>5, Basics DEF RowsStep, Same
    <3>7. Ledger' /\ Rooted' /\ BuyRows' /\ QueueBacked'
      BY <1>2, <2>1, <3>5, <3>6, RowsStepBacked, QueueKept
    <3>8. WorkerBacked'
      BY <3>1 DEF WorkerBacked, WorkerPosted, SellPlaces
    <3>9. CallerBacked' /\ NoPhantomFill' /\ ReportedWithinRequest'
      <4>1. caller.at = "polling" => caller.order \in polls' /\ trk'[caller.order].side = trk[caller.order].side
        BY <1>2, <2>1, <3>2, Basics DEF Backed, CallerBacked
      <4>2. QED
        BY <1>2, <3>5, <4>1, CallerKept
    <3>10. QED
      BY <3>7, <3>8, <3>9 DEF Backed
  <2>6. QED
    BY <2>4, <2>5
<1>5. QED
  BY <1>3, <1>4
---------------------------------------------------------------------------
(* The trading coroutine. *)

\* A caller that leaves the rows alone.
LEMMA CallerOnly ==
  ASSUME IInv, IInv', Backed, UNCHANGED <<trk, done, queue, worker>>, ExchKept, NewOrders,
         CallerBacked', NoPhantomFill', ReportedWithinRequest'
  PROVE  Backed'
<1>1. Ledger' /\ Rooted' /\ BuyRows' /\ QueueBacked'
  BY PostBacked
<1>2. WorkerBacked'
  BY WorkerKept DEF Same
<1>3. QED
  BY <1>1, <1>2 DEF Backed

\* execute() and close_position() post, for a new request or for one whose root is known.
LEMMA RequestBacked ==
  ASSUME IInv, IInv', Backed, NEW s \in {"BUY", "SELL"}, NEW n \in Nat, NEW how \in Hows,
         NEW root \in 0..used, NEW m,
         Post(s, n, root, how), s = "BUY" => n <= Size,
         caller' = [at |-> "posted", side |-> s, order |-> Placed(how), reply |-> Reply(how),
                    size |-> n, tries |-> m],
         result'.side = s, result'.root = IF root = None THEN Placed(how) ELSE root,
         s = "BUY" => result'.reported = 0,
         UNCHANGED <<engineVars, workVars>>
  PROVE  Backed'
<1>1. None \in 0..used
  BY Basics DEF None
<1>2. UNCHANGED <<trk, done, queue, worker>>
  BY DEF engineVars, workVars
<1>3. /\ ExchKept /\ NewOrders
      /\ Reply(how) # "none" =>
           /\ used' = used + 1 /\ Placed(how) = used' /\ PolyMin <= n
           /\ exch'[used'].root = IF root = None THEN used' ELSE root
      /\ Reply(how) = "matched" => exch'[used'].matched = n
  BY <1>1, <1>2, PostKeeps
<1>4. /\ caller'.at = "posted" /\ caller'.side = s /\ caller'.order = Placed(how)
      /\ caller'.reply = Reply(how) /\ caller'.size = n
  OBVIOUS
<1>a. result'.root \in 0..used'
  <2>1. Placed(how) = None \/ Placed(how) = used'
    BY <1>1, <1>2, PostAdds
  <2>2. used' \in 0..MaxOrders /\ used \in Nat /\ MaxOrders \in Nat /\ used <= used'
    BY <1>3, Basics, OrderEngineAssumption DEF IInv, TypeOK, OrderEngineAssumption, ExchKept
  <2>3. QED
    BY <2>1, <2>2 DEF None
<1>5. CallerBacked'
  BY <1>3, <1>4, <1>a DEF CallerBacked
<1>6. NoPhantomFill'
  BY DEF NoPhantomFill
<1>7. ReportedWithinRequest'
  BY OrderEngineAssumption DEF ReportedWithinRequest, OrderEngineAssumption
<1>8. QED
  BY <1>2, <1>3, <1>5, <1>6, <1>7, CallerOnly

\* execute() posts a BUY.
LEMMA ExecuteBacked == ASSUME IInv, IInv', Backed, NEW how \in Hows, Execute(how) PROVE Backed'
<1>1. None \in 0..used /\ Size \in Nat
  BY Basics, OrderEngineAssumption DEF None, OrderEngineAssumption
<1>2. /\ Post("BUY", Size, None, how) /\ UNCHANGED <<engineVars, workVars>>
      /\ caller' = [at |-> "posted", side |-> "BUY", order |-> Placed(how), reply |-> Reply(how),
                    size |-> Size, tries |-> 0]
  BY DEF Execute
<1>3. result'.side = "BUY" /\ result'.root = Placed(how) /\ result'.reported = 0
  BY DEF Execute, NewResult
<1>4. QED
  BY <1>1, <1>2, <1>3, RequestBacked

\* close_position() starts a request.
LEMMA ClosePositionBacked ==
  ASSUME IInv, IInv', Backed, ClosePosition PROVE Backed'
<1>1. TypeOK /\ UNCHANGED <<exch, used, trk, done, queue, worker>>
  BY DEF IInv, ClosePosition, exchVars, engineVars, workVars
<1>2. caller'.at = "placing" /\ caller'.side = "SELL" /\ caller'.reply = "none"
  BY <1>1, ClosePositionType
<1>3. result'.side = "SELL" /\ result'.root = None
  BY DEF ClosePosition, NewResult
<1>4. ExchKept /\ NewOrders
  BY <1>1, QuietExchange
<1>5. CallerBacked' /\ NoPhantomFill' /\ ReportedWithinRequest'
  BY <1>1, <1>2, <1>3, Basics DEF CallerBacked, NoPhantomFill, ReportedWithinRequest, None
<1>6. QED
  BY <1>1, <1>4, <1>5, CallerOnly

\* ... and posts its SELL, the first time or again.
LEMMA PlaceSellBacked ==
  ASSUME IInv, IInv', Backed, NEW how \in Hows, PlaceSell(how) PROVE Backed'
<1>1. /\ caller \in CallerType /\ result \in ResultType /\ caller.at = "placing"
      /\ caller.size \in Nat
  BY DEF IInv, TypeOK, CallerType, ResultType, PlaceSell
<1>2. result.root \in 0..used /\ caller.side = "SELL" /\ result.side = "SELL"
  BY <1>1 DEF Backed, CallerBacked
<1>3. /\ Post("SELL", caller.size, result.root, how) /\ UNCHANGED <<engineVars, workVars>>
      /\ caller' = [at |-> "posted", side |-> "SELL", order |-> Placed(how), reply |-> Reply(how),
                    size |-> caller.size, tries |-> caller.tries - 1]
  BY <1>1, <1>2, PlaceSellCaller DEF PlaceSell
<1>4. /\ result'.side = "SELL"
      /\ result'.root = IF result.root = None THEN Placed(how) ELSE result.root
  BY <1>1, <1>2 DEF PlaceSell, ResultType
<1>5. QED
  BY <1>1, <1>2, <1>3, <1>4, RequestBacked

\* The result of the request is not touched.
LEMMA ResultKept ==
  ASSUME IInv, IInv', Backed, ExchKept, UNCHANGED result,
         caller'.at = "exitPosted", caller'.side = caller.side, caller.at # "idle"
  PROVE  CallerBacked' /\ NoPhantomFill' /\ ReportedWithinRequest'
<1>1. CallerBacked'
  BY Basics DEF Backed, CallerBacked, ExchKept, IInv, TypeOK
<1> PICK r : r = result.root
  OBVIOUS
<1>2. Executed(r) <= Executed(r)' /\ Executed(r) \in Nat /\ Executed(r)' \in Nat
  BY ExecutedGrows DEF IInv
<1>3. Executed(result.root)' = Executed(r)'
  BY DEF Executed
<1>4. result.reported \in Nat
  BY DEF IInv, TypeOK
<1>5. QED
  BY <1>1, <1>2, <1>3, <1>4 DEF Backed, NoPhantomFill, ReportedWithinRequest

\* close_position() posts its last order.
LEMMA ExitPostBacked == ASSUME IInv, IInv', Backed, NEW how \in Hows, ExitPost(how) PROVE Backed'
<1>1. UNCHANGED <<trk, done, queue, worker, result>> /\ caller.at = "exit"
  BY DEF ExitPost, engineVars, workVars
<1>2. result.root \in 0..used /\ caller.size \in Nat
  BY DEF IInv, TypeOK, Backed, CallerBacked
<1>3. ExchKept /\ NewOrders
  BY <1>1, <1>2, PostKeeps DEF ExitPost
<1>4. caller'.at = "exitPosted" /\ caller'.side = caller.side
  BY DEF ExitPost, IInv, TypeOK
<1>5. CallerBacked' /\ NoPhantomFill' /\ ReportedWithinRequest'
  BY <1>1, <1>3, <1>4, ResultKept
<1>6. QED
  BY <1>1, <1>3, <1>5, CallerOnly

\* A fill that execute() or close_position() may report.
Reportable(f) ==
  result.side = "BUY" => f <= Size /\ (f > 0 => f <= Executed(result.root)')

\* A request ends, or goes on to its next await.
LEMMA RequestEnds ==
  ASSUME IInv, IInv', Backed, ExchKept, NEW f \in Nat, Reportable(f),
         result' = [result EXCEPT !.reported = f] \/ result' = result,
         \/ caller'.at = "idle"
         \/ /\ \/ caller'.at \in {"residual", "exit"}
               \/ caller'.at \in {"placing", "fallbackFak"} /\ caller'.side = "SELL"
               \/ /\ caller'.at = "confirming" /\ caller'.size \in Nat /\ caller'.size <= Size
                  /\ caller'.size <= Executed(result.root)'
            /\ caller'.side = caller.side /\ caller.at # "idle"
  PROVE  CallerBacked' /\ NoPhantomFill' /\ ReportedWithinRequest'
<1>1. result \in ResultType
  BY DEF IInv, TypeOK, ResultType
<1>2. result'.side = result.side /\ result'.root = result.root /\ result'.reported \in {f, result.reported}
  BY <1>1 DEF ResultType
<1>3. CallerBacked'
  <2>1. result'.root \in 0..used'
    <3>1. result.root \in 0..used /\ used <= used' /\ used \in Nat /\ used' \in Nat
      BY Basics DEF Backed, CallerBacked, ExchKept, IInv, TypeOK
    <3>2. QED
      BY <1>2, <3>1
  <2>2. caller'.at # "idle" => result'.side = caller'.side
    BY <1>2 DEF Backed, CallerBacked
  <2>3. caller'.at \notin {"posted", "polling"}
    OBVIOUS
  <2>4. caller'.at \in {"placing", "fallbackFak"} => caller'.side = "SELL"
    OBVIOUS
  <2>5. caller'.at = "confirming" => caller'.size <= Size /\ caller'.size <= Executed(result.root)'
    OBVIOUS
  <2>6. QED
    BY <2>1, <2>2, <2>3, <2>4, <2>5 DEF CallerBacked
<1> PICK r : r = result.root
  OBVIOUS
<1>4. Executed(r) <= Executed(r)' /\ Executed(r) \in Nat /\ Executed(r)' \in Nat
  BY ExecutedGrows DEF IInv
<1>5. Executed(result.root)' = Executed(r)'
  BY <1>2 DEF Executed
<1>6. result.reported \in Nat
  BY <1>1 DEF ResultType
<1>7. NoPhantomFill'
  BY <1>2, <1>4, <1>5, <1>6 DEF NoPhantomFill, Backed, Reportable
<1>8. ReportedWithinRequest'
  BY <1>2 DEF ReportedWithinRequest, Backed, Reportable
<1>9. QED
  BY <1>3, <1>7, <1>8
\* What the order of a finished poll, or of a BUY filled at once, may report.
LEMMA BuyReportable ==
  ASSUME IInv, IInv', Backed, NEW r \in TrackedOrder, BuyReturns(r), caller.at # "idle",
         caller.side = "BUY", ExchKept, result' = result,
         FilledShares(r) <= Executed(result.root)', r.size <= Size,
         r.filled <= r.size \/ r.status = "CANCELLED"
  PROVE  CallerBacked' /\ NoPhantomFill' /\ ReportedWithinRequest'
<1>1. FilledShares(r) \in Nat
  BY FilledSharesNat
<1>2. PICK n \in Nat : n = FilledShares(r)
  BY <1>1
<1>3. PICK c : c = [caller EXCEPT !.at = "confirming", !.size = n]
  OBVIOUS
<1>4. c.at = "confirming" /\ c.side = caller.side /\ c.size = n
  <2>1. caller \in CallerType
    BY DEF IInv, TypeOK, CallerType
  <2> QED BY <1>3, <2>1 DEF CallerType
<1>5. Reportable(0)
  BY OrderEngineAssumption DEF Reportable, OrderEngineAssumption
<1>6. CASE caller' = Idle
  <2>1. caller'.at = "idle"
    BY <1>6 DEF Idle
  <2> QED BY <1>5, <2>1, RequestEnds
<1>7. CASE caller' = c /\ r.status # "CANCELLED"
  <2>1. n <= Size /\ n <= Executed(result.root)'
    BY <1>2, <1>7, OrderEngineAssumption DEF FilledShares, TrackedOrder, OrderEngineAssumption
  <2> QED BY <1>4, <1>5, <1>7, <2>1, RequestEnds
<1>8. QED
  BY <1>2, <1>3, <1>6, <1>7 DEF BuyReturns

\* The balances have answered.
LEMMA BuyConfirmsBacked == ASSUME IInv, IInv', Backed, BuyConfirms PROVE Backed'
<1>1. /\ TypeOK /\ caller.at = "confirming" /\ caller.size \in Nat
      /\ UNCHANGED <<exch, used, trk, done, queue, worker>>
  BY BuyConfirmsSteps DEF IInv, TypeOK, BuyConfirms, exchVars, workVars
<1>2. /\ caller'.at \in {"idle", "residual"}
      /\ caller'.at = "residual" => caller'.side = caller.side
      /\ result' = result \/ result' = [result EXCEPT !.reported = caller.size]
  BY <1>1, BuyConfirmsSteps
<1>3. ExchKept /\ NewOrders
  BY <1>1, QuietExchange
<1>4. Reportable(caller.size)
  <2>1. CallerBacked
    BY DEF Backed
  <2>2. caller.size <= Size /\ caller.size <= Executed(result.root)
    BY <1>1, <2>1 DEF CallerBacked
  <2> PICK r, f : r = result.root /\ f = caller.size
    OBVIOUS
  <2>3. Executed(r) <= Executed(r)' /\ Executed(r) \in Nat /\ Executed(r)' \in Nat
    BY <1>3, ExecutedGrows DEF IInv
  <2>4. f <= Size /\ f <= Executed(r)'
    BY <1>1, <2>2, <2>3
  <2>5. result'.root = r
    BY <1>1, <1>2 DEF IInv, TypeOK
  <2>6. Executed(result.root)' = Executed(r)'
    BY <2>5 DEF Executed
  <2> QED BY <2>4, <2>6 DEF Reportable
<1>5. CallerBacked' /\ NoPhantomFill' /\ ReportedWithinRequest'
  BY <1>1, <1>2, <1>3, <1>4, RequestEnds
<1>6. QED
  BY <1>1, <1>3, <1>5, CallerOnly

\* A return of the caller reports what its request traded, or is of a SELL.
LEMMA SellReportable ==
  ASSUME IInv, IInv', Backed, NEW f \in Nat, SellReturns(f), caller.at # "idle",
         caller.side = "SELL" \/ f = 0, ExchKept
  PROVE  CallerBacked' /\ NoPhantomFill' /\ ReportedWithinRequest'
<1>1. Reportable(f)
  BY OrderEngineAssumption DEF Reportable, Backed, CallerBacked, OrderEngineAssumption
<1>2. QED
  BY <1>1, RequestEnds DEF SellReturns, Idle

\* The caller's own new row leaves the worker's alone.
LEMMA CallerRow ==
  ASSUME IInv, IInv', Backed, CallerPosted, NEW o \in Id, o = caller.order, NEW r,
         trk' = [trk EXCEPT ![o] = r], TouchedRow(o), QueueStep,
         UNCHANGED <<exch, used, done, worker>>
  PROVE  /\ ExchKept /\ Ledger' /\ Rooted' /\ BuyRows' /\ QueueBacked' /\ WorkerBacked'
<1>1. o \in 1..used /\ o \notin polls
  BY Basics DEF IInv, PostedIsFresh, Unanswered, Fresh
<1>2. \A u \in Id \ {o} : trk'[u] = trk[u]
  BY Basics
<1>3. \A u \in Id : used < u => trk'[u] = trk[u]
  BY <1>1, <1>2, Basics
<1>4. ExchKept /\ NewOrders
  BY <1>3, QuietExchange
<1>5. RowsStep({o})
  BY <1>1, <1>2, <1>4, Basics DEF RowsStep, Same
<1>6. Ledger' /\ Rooted' /\ BuyRows' /\ QueueBacked'
  BY <1>1, <1>4, <1>5, RowsStepBacked, QueueKept DEF QueueStep
<1>7. WorkerBacked'
  <2>1. worker.at \notin {"idle", "timer"} => worker.t \in polls /\ worker.t \in Id
    BY Basics
  <2>2. worker.at \notin {"idle", "timer"} => Same(trk[worker.t], trk'[worker.t])
    BY <1>1, <1>2, <2>1 DEF Same
  <2>3. QED
    BY <1>4, <2>2, WorkerKept
<1>8. QED
  BY <1>4, <1>6, <1>7

\* The caller's POST is answered.
LEMMA PostReplyBacked == ASSUME IInv, IInv', Backed, PostReply PROVE Backed'
<1> DEFINE o == caller.order
           n == caller.size
<1>1. /\ caller.at = "posted" /\ UNCHANGED <<exch, used, held, done, batch, worker>>
      /\ n \in Nat /\ caller.side \in {"BUY", "SELL"}
  BY DEF PostReply, exchVars, IInv, TypeOK
<1>2. caller.side = "BUY" => n <= Size
  BY <1>1 DEF Backed, CallerBacked
<1>3. CASE caller.reply = "none"
  <2>1. UNCHANGED <<trk, queue, result>>
    BY <1>3 DEF PostReply
  <2>2. ExchKept /\ NewOrders
    BY <1>1, <2>1, QuietExchange
  <2>3. \/ caller'.at = "idle"
        \/ caller'.at \in {"placing", "fallbackFak"} /\ caller'.side = "SELL" /\ caller.side = "SELL"
    <3>1. PICK c : c = [caller EXCEPT !.at = "placing", !.order = None]
      OBVIOUS
    <3>2. PICK d : d = [caller EXCEPT !.at = "fallbackFak", !.order = None, !.tries = FakAttempts]
      OBVIOUS
    <3>3. /\ c.at = "placing" /\ c.side = caller.side
          /\ d.at = "fallbackFak" /\ d.side = caller.side
      <4>1. caller \in CallerType
        BY DEF IInv, TypeOK, CallerType
      <4> QED BY <3>1, <3>2, <4>1 DEF CallerType
    <3>4. caller' = Idle \/ (caller.side = "SELL" /\ caller' \in {c, d})
      BY <1>1, <1>3, <3>1, <3>2 DEF PostReply
    <3>5. Idle.at = "idle"
      BY DEF Idle
    <3> QED BY <3>3, <3>4, <3>5
  <2>4. Reportable(0)
    BY OrderEngineAssumption DEF Reportable, OrderEngineAssumption
  <2>5. CallerBacked' /\ NoPhantomFill' /\ ReportedWithinRequest'
    BY <1>1, <2>1, <2>2, <2>3, <2>4, RequestEnds
  <2>6. QED
    BY <1>1, <2>1, <2>2, <2>5, CallerOnly
<1>4. CASE caller.reply # "none"
  <2>1. CallerPosted /\ o \in 1..used /\ o \in Id /\ exch[o].root = result.root
    BY <1>1, <1>4, Basics DEF CallerPosted, Backed, CallerBacked
  <2>2. caller.reply = "matched" => n <= exch[o].matched
    BY <1>1 DEF Backed, CallerBacked
  <2>3. CASE caller.reply = "matched" /\ caller.side = "BUY"
    <3> PICK q : q = NewTracked(o, "BUY", n, "FILLED", n)
      OBVIOUS
    <3>1. /\ trk' = [trk EXCEPT ![o] = q] /\ BuyReturns(q) /\ queue' = queue /\ result' = result
      BY <1>4, <2>3 DEF PostReply
    <3>2. trk'[o] = NewTracked(o, "BUY", n, "FILLED", n)
      BY <2>1, <3>1, Basics
    <3>3. TouchedRow(o)
      BY <1>1, <1>2, <2>1, <2>2, <2>3, <3>2, NewRowTouched
    <3>4. /\ ExchKept /\ Ledger' /\ Rooted' /\ BuyRows' /\ QueueBacked' /\ WorkerBacked'
      BY <1>1, <2>1, <3>1, <3>3, CallerRow DEF QueueStep
    <3>5. q \in TrackedOrder
      BY <1>1, <2>1, NewTrackedType DEF Statuses, Terminal
    <3>6. q.side = "BUY" /\ q.size = n /\ q.filled = n /\ q.status = "FILLED"
      BY DEF NewTracked
    <3>7. FilledShares(q) <= Executed(result.root)'
      <4>1. FilledShares(q) = n
        BY <1>1, <3>6 DEF FilledShares
      <4>2. exch[o].matched \in Nat /\ exch[o].matched <= Executed(result.root) /\ Executed(result.root) \in Nat
        BY <2>1, ExecutedHolds, ExecutedIsNat, Basics
      <4> PICK r : r = result.root
        OBVIOUS
      <4>3. Executed(r)' = Executed(r)
        BY <1>1 DEF Executed
      <4>4. Executed(result.root)' = Executed(r)'
        <5>1. result'.root = result.root
          BY <3>1
        <5>2. QED
          BY <5>1 DEF Executed
      <4>5. QED
        BY <1>1, <2>2, <2>3, <4>1, <4>2, <4>3, <4>4
    <3>8. CallerBacked' /\ NoPhantomFill' /\ ReportedWithinRequest'
      BY <1>1, <1>2, <2>3, <3>1, <3>4, <3>5, <3>6, <3>7, BuyReportable
    <3>9. QED
      BY <3>4, <3>8 DEF Backed
  <2>4. CASE caller.reply = "resting" \/ (caller.reply = "matched" /\ caller.side = "SELL")
    <3> PICK q : q = NewTracked(o, caller.side, n, "PENDING", 0)
      OBVIOUS
    <3>1. /\ trk' = [trk EXCEPT ![o] = q] /\ result' = result /\ StartPoll(o)
          /\ queue' = IF caller.side = "BUY" THEN Append(queue, RestLive(o)) ELSE queue
          /\ caller' = [caller EXCEPT !.at = "polling", !.tries = 0]
      BY <1>4, <2>4 DEF PostReply
    <3>2. trk'[o] = NewTracked(o, caller.side, n, "PENDING", 0)
      BY <2>1, <3>1, Basics
    <3>3. TouchedRow(o)
      BY <1>1, <1>2, <2>1, <2>2, <2>4, <3>2, NewRowTouched
    <3>4. QueueStep
      <4> PICK e : e = RestLive(o)
        OBVIOUS
      <4>1. e \in OrderEvent /\ e.kind = "rest"
        BY <2>1 DEF RestLive, OrderEvent
      <4>2. BackedEvent(e)'
        BY <4>1 DEF BackedEvent
      <4>3. QED
        BY <3>1, <4>1, <4>2 DEF QueueStep
    <3>5. /\ ExchKept /\ Ledger' /\ Rooted' /\ BuyRows' /\ QueueBacked' /\ WorkerBacked'
      BY <1>1, <2>1, <3>1, <3>3, <3>4, CallerRow
    <3>6. caller'.at = "polling" /\ caller'.side = caller.side /\ caller'.order = o
      BY <3>1 DEF IInv, TypeOK
    <3>7. trk'[o].side = caller.side
      BY <3>2 DEF NewTracked
    <3>8. result.side = caller.side /\ result.root \in 0..used
      BY <1>1 DEF Backed, CallerBacked
    <3>9. CallerBacked'
      BY <1>1, <2>1, <3>1, <3>6, <3>7, <3>8 DEF CallerBacked, StartPoll
    <3>10. NoPhantomFill' /\ ReportedWithinRequest'
      <4>1. Executed(result.root)' = Executed(result.root)
        BY <1>1, <3>1 DEF Executed
      <4>2. QED
        BY <3>1, <4>1 DEF Backed, NoPhantomFill, ReportedWithinRequest
    <3>11. QED
      BY <3>5, <3>9, <3>10 DEF Backed
  <2>5. QED
    BY <1>4, <2>3, <2>4, <1>1 DEF PostReply
<1>5. QED
  BY <1>3, <1>4
\* _poll_order() returns to its caller.
LEMMA PollReturnsBacked == ASSUME IInv, IInv', Backed, PollReturns PROVE Backed'
<1> DEFINE t == caller.order
<1>1. /\ caller.at = "polling" /\ t \in done /\ t \in 1..used /\ t \in Id
      /\ exch[t].root = result.root /\ trk[t].side = caller.side /\ result.side = caller.side
      /\ UNCHANGED <<exch, used, trk, done, queue, worker>>
  BY Basics DEF PollReturns, EndPoll, Backed, CallerBacked, exchVars, workVars
<1>2. ExchKept /\ NewOrders /\ \A r : Executed(r)' = Executed(r)
  BY <1>1, QuietExchange
<1>3. trk[t] \in TrackedOrder /\ caller.side \in {"BUY", "SELL"}
  BY <1>1, TrkFields DEF IInv, TypeOK
<1>4. FilledShares(trk[t]) \in Nat
  BY <1>3, FilledSharesNat
<1>5. CASE caller.side = "BUY"
  <2>1. BuyReturns(trk[t]) /\ result' = result
    BY <1>5 DEF PollReturns
  <2>2. /\ FilledShares(trk[t]) <= Executed(result.root) /\ trk[t].size <= Size
        /\ trk[t].filled <= trk[t].size \/ trk[t].status = "CANCELLED"
    BY <1>1, <1>5 DEF Backed, BuyRows, BuyRow
  <2>3. Executed(result.root)' = Executed(result.root)
    <3>1. result'.root = result.root
      BY <2>1
    <3>2. QED
      BY <1>1, <3>1 DEF Executed
  <2>4. QED
    BY <1>1, <1>2, <1>3, <1>5, <2>1, <2>2, <2>3, BuyReportable, CallerOnly
<1>6. CASE caller.side = "SELL"
  <2>1. SellReturns(FilledShares(trk[t]))
    BY <1>6 DEF PollReturns
  <2>2. QED
    BY <1>1, <1>2, <1>4, <1>6, <2>1, SellReportable, CallerOnly
<1>7. QED
  BY <1>3, <1>5, <1>6

\* The residual FAK of close_position() is answered.
LEMMA ResidualDoneBacked ==
  ASSUME IInv, IInv', Backed, NEW k, NEW r, ResidualDone(k, r) PROVE Backed'
<1>1. /\ caller'.at = "idle" /\ result' = result
      /\ UNCHANGED <<exch, used, trk, done, queue, worker>>
  BY DEF ResidualDone, workVars, Idle
<1>2. ExchKept /\ NewOrders
  BY <1>1, QuietExchange
<1>3. Reportable(0)
  BY OrderEngineAssumption DEF Reportable, OrderEngineAssumption
<1>4. QED
  BY <1>1, <1>2, <1>3, RequestEnds, CallerOnly

\* Rows that are given up.
LEMMA FallbackFakDoneBacked ==
  ASSUME IInv, IInv', Backed, NEW k, NEW r \in Nat, FallbackFakDone(k, r) PROVE Backed'
<1>1. /\ caller.at = "fallbackFak" /\ caller.side = "SELL" /\ result.side = "SELL"
      /\ UNCHANGED <<exch, used, done, queue, worker>>
  BY DEF FallbackFakDone, workVars, Backed, CallerBacked
<1>2. /\ \A u \in Id : Same(trk[u], trk'[u])
      /\ \A u \in Id : u \notin active => trk'[u] = trk[u]
  <2>1. CASE trk' = trk
    BY <2>1 DEF Same
  <2>2. CASE trk' = [t \in Id |-> IF t \in active THEN [trk[t] EXCEPT !.status = "CANCELLED"] ELSE trk[t]]
    <3>1. ASSUME NEW u \in Id PROVE Same(trk[u], [trk[u] EXCEPT !.status = "CANCELLED"])
      BY Basics DEF Same, TrackedOrder
    <3>2. \A u \in Id : Same(trk[u], trk[u])
      BY DEF Same
    <3>3. \A u \in Id : trk'[u] = IF u \in active THEN [trk[u] EXCEPT !.status = "CANCELLED"] ELSE trk[u]
      BY <2>2
    <3>4. QED
      BY <3>1, <3>2, <3>3
  <2>3. QED
    BY <2>1, <2>2 DEF FallbackFakDone
<1>3. \A u \in Id : used < u => trk'[u] = trk[u]
  <2>1. \A u \in Id : used < u => u \notin active
    BY Basics
  <2>2. QED
    BY <1>2, <2>1
<1>4. ExchKept /\ NewOrders
  BY <1>1, <1>3, QuietExchange
<1>5. RowsStep({})
  BY <1>1, <1>2, <1>4, Basics DEF RowsStep
<1>6. Ledger' /\ Rooted' /\ BuyRows' /\ QueueBacked'
  BY <1>1, <1>4, <1>5, RowsStepBacked, QueueKept
<1>7. WorkerBacked'
  BY <1>1, <1>2, <1>4, WorkerKept, Basics
<1>8. \/ caller'.at = "idle" /\ result' = [result EXCEPT !.reported = r]
      \/ caller'.at \in {"exit", "fallbackFak"} /\ caller'.side = caller.side /\ result' = result
  <2>1. caller \in CallerType
    BY DEF IInv, TypeOK, CallerType
  <2> PICK c : c = [caller EXCEPT !.at = "exit", !.tries = 0]
    OBVIOUS
  <2> PICK m : m = caller.tries - 1
    OBVIOUS
  <2> PICK d : d = [caller EXCEPT !.tries = m]
    OBVIOUS
  <2>2. c.at = "exit" /\ c.side = caller.side /\ d.at = "fallbackFak" /\ d.side = caller.side
    BY <1>1, <2>1 DEF CallerType
  <2>3. \/ caller' = Idle /\ result' = [result EXCEPT !.reported = r]
        \/ caller' \in {c, d} /\ result' = result
    BY DEF FallbackFakDone, SellReturns
  <2>4. Idle.at = "idle"
    BY DEF Idle
  <2>5. CASE caller' = Idle
    BY <2>2, <2>3, <2>4, <2>5
  <2>6. CASE caller' # Idle
    BY <2>2, <2>3, <2>6
  <2>7. QED
    BY <2>5, <2>6
<1>9. Reportable(r)
  BY <1>1 DEF Reportable
<1>10. CallerBacked' /\ NoPhantomFill' /\ ReportedWithinRequest'
  BY <1>1, <1>4, <1>8, <1>9, RequestEnds
<1>11. QED
  BY <1>6, <1>7, <1>10 DEF Backed

\* The last order of close_position() is answered.
LEMMA ExitReplyBacked == ASSUME IInv, IInv', Backed, ExitReply PROVE Backed'
<1> DEFINE o == caller.order
           n == caller.size
           st == IF caller.reply = "matched" THEN "FILLED" ELSE "PENDING"
           f == IF st = "FILLED" THEN n ELSE 0
<1>1. /\ caller.at = "exitPosted" /\ SellReturns(0) /\ n \in Nat
      /\ UNCHANGED <<exch, used, done, queue, worker>>
  BY DEF ExitReply, exchVars, workVars, IInv, TypeOK
<1>2. CASE caller.reply = "none"
  <2>1. trk' = trk
    BY <1>2 DEF ExitReply
  <2>2. ExchKept /\ NewOrders
    BY <1>1, <2>1, QuietExchange
  <2>3. QED
    BY <1>1, <2>1, <2>2, SellReportable, CallerOnly
<1>3. CASE caller.reply # "none"
  <2>1. CallerPosted /\ o \in 1..used /\ o \in Id
    BY <1>1, <1>3, Basics DEF CallerPosted
  <2> PICK q : q = NewTracked(o, "SELL", n, st, f)
    OBVIOUS
  <2>2. trk' = [trk EXCEPT ![o] = q]
    BY <1>3 DEF ExitReply
  <2>3. trk'[o] = NewTracked(o, "SELL", n, st, f) /\ f \in {0, n}
    BY <2>1, <2>2, Basics
  <2> HIDE DEF st, f, n
  <2>4. TouchedRow(o)
    BY <1>1, <2>1, <2>3, NewRowTouched
  <2>5. ExchKept /\ Ledger' /\ Rooted' /\ BuyRows' /\ QueueBacked' /\ WorkerBacked'
    BY <1>1, <2>1, <2>2, <2>4, CallerRow DEF QueueStep
  <2>6. CallerBacked' /\ NoPhantomFill' /\ ReportedWithinRequest'
    BY <1>1, <2>5, SellReportable
  <2>7. QED
    BY <2>5, <2>6 DEF Backed
<1>4. QED
  BY <1>2, <1>3

\* Backed holds before the first order.
LEMMA InitBacked == Init => Backed
<1> SUFFICES ASSUME Init PROVE Backed
  OBVIOUS
<1>1. used = 0 /\ 1..used = {} /\ exch = [o \in Id |-> NoOrder]
  BY DEF Init
<1>2. Ledger
  <2>1. \A o \in Id : ~(o <= used) /\ exch[o] = NoOrder
    BY <1>1, OrderEngineAssumption DEF Id, OrderEngineAssumption
  <2>2. \A o \in Id : trk[o] = NewTracked(o, "BUY", 0, "IDLE", 0)
    BY DEF Init
  <2>3. QED
    BY <2>1, <2>2 DEF Ledger
<1>3. Rooted /\ BuyRows
  BY <1>1 DEF Rooted, BuyRows
<1>4. QueueBacked
  BY DEF Init, QueueBacked
<1>5. WorkerBacked
  BY DEF Init, WorkerBacked, WorkerPosted, SellPlaces, Quiet
<1>6. CallerBacked
  BY <1>1 DEF Init, CallerBacked, Idle, None
<1>7. NoPhantomFill /\ ReportedWithinRequest
  BY OrderEngineAssumption DEF Init, NoPhantomFill, ReportedWithinRequest, OrderEngineAssumption
<1>8. QED
  BY <1>2, <1>3, <1>4, <1>5, <1>6, <1>7 DEF Backed

\* Every step keeps Backed.
LEMMA NextBacked == ASSUME IInv, Backed, [Next]_vars PROVE Backed'
<1>0. IInv'
  BY NextInv
<1>1. CASE UNCHANGED vars
  BY <1>0, <1>1, IdleStepsBacked
<1>2. CASE ExchangeNext
  <2>1. PICK o \in Id : \/ \E k \in 1..Size : Fill(o, k) \/ DeliverTradeMessage(o, k)
                        \/ ExchangeCancels(o) \/ DeliverOrderMessage(o)
    BY <1>2 DEF ExchangeNext
  <2>2. ASSUME DeliverOrderMessage(o) PROVE Backed'
    <3>1. PolyMin \in 1..Size
      BY OrderEngineAssumption DEF OrderEngineAssumption
    <3>2. QED
      BY <1>0, <2>2, <3>1, DeliverBacked
  <2>3. QED
    BY <1>0, <2>1, <2>2, FillBacked, CancelBacked, DeliverBacked
<1>3. CASE WorkerNext
  <2>1. CASE TakeOrderEvent \/ TakeTimer \/ TimerDone
    BY <1>0, <2>1, TakeOrderEventBacked, IdleStepsBacked
  <2>2. ASSUME NEW t \in Id, TimerSkips(t) \/ StartReprice(t) \/ PricesDone(t) \/ RecoverDone(t)
        PROVE  Backed'
    BY <1>0, <2>2, IdleStepsBacked, StartRepriceBacked, PricesDoneBacked, RecoverDoneBacked
  <2>3. ASSUME NEW t \in Id, NEW k \in 0..Size, NEW r \in 0..Size,
               FakDone(t, k, r) \/ RecoverFakDone(t, k, r)
        PROVE  Backed'
    <3>1. r \in Nat
      OBVIOUS
    <3>2. QED
      BY <1>0, <2>3, <3>1, FakDoneBacked, RecoverFakDoneBacked
  <2>4. ASSUME NEW t \in Id, NEW how \in Hows, Replace(t, how) \/ EmergencyBuy(t, how)
        PROVE  Backed'
    BY <1>0, <2>4, ReplaceBacked, EmergencyBuyBacked
  <2>5. ASSUME NEW t \in Id, ReplaceDone(t) \/ EmergencyBuyDone(t)
        PROVE  Backed'
    BY <1>0, <2>5, ReplaceDoneBacked, EmergencyBuyDoneBacked
  <2>6. QED
    BY <1>3, <2>1, <2>2, <2>3, <2>4, <2>5 DEF WorkerNext
<1>4. CASE CallerNext
  <2>1. ASSUME NEW how \in Hows, Execute(how) \/ PlaceSell(how) \/ ExitPost(how)
        PROVE  Backed'
    BY <1>0, <2>1, ExecuteBacked, PlaceSellBacked, ExitPostBacked
  <2>2. CASE ClosePosition \/ PostReply \/ PollReturns \/ BuyConfirms \/ ExitReply
    BY <1>0, <2>2, ClosePositionBacked, PostReplyBacked, PollReturnsBacked, BuyConfirmsBacked,
       ExitReplyBacked
  <2>3. ASSUME NEW k \in 0..Size, NEW r \in 0..Size, ResidualDone(k, r) \/ FallbackFakDone(k, r)
        PROVE  Backed'
    <3>1. r \in Nat
      OBVIOUS
    <3>2. QED
      BY <1>0, <2>3, <3>1, ResidualDoneBacked, FallbackFakDoneBacked
  <2>4. QED
    BY <1>4, <2>1, <2>2, <2>3 DEF CallerNext
<1>5. CASE PollNext
  BY <1>0, <1>5, IdleStepsBacked DEF PollNext
<1>6. CASE TimeNext
  BY <1>0, <1>6, IdleStepsBacked DEF TimeNext
<1>7. QED
  BY <1>1, <1>2, <1>3, <1>4, <1>5, <1>6 DEF Next

\* The step that combines them with IInv.
LEMMA BackedAlways == Spec => []Backed
<1>1. IInv /\ Backed /\ [Next]_vars => IInv' /\ Backed'
  BY NextInv, NextBacked
<1>2. QED
  BY <1>1, InitInv, InitBacked, PTL DEF Spec

\* execute() never reports more shares than the exchange traded on the orders of
\* its request, whatever was repriced, lost, told twice or raced.
THEOREM NothingPhantom == Spec => []NoPhantomFill
<1>1. Backed => NoPhantomFill
  BY DEF Backed
<1>2. QED
  BY <1>1, BackedAlways, PTL

\* execute() never reports more shares than it was asked to buy, though the
\* replacements and the emergency order may buy more.
THEOREM ReportsWithinRequest == Spec => []ReportedWithinRequest
<1>1. Backed => ReportedWithinRequest
  BY DEF Backed
<1>2. QED
  BY <1>1, BackedAlways, PTL
---------------------------------------------------------------------------
(* How many orders a request may place. *)

Orders(r) == Cardinality(OrdersOf(r))
Waits == polls \ done

\* The orders a waiting order's request may have by now: a SELL has one per attempt
\* to place it.
Allowance(t) ==
  LET sell == IF trk[t].side = "SELL" THEN PlaceAttempts ELSE 0
      base == trk[t].reprices + 1 + sell
  IN IF worker.t # t THEN base
     ELSE IF worker.at = "place" THEN base - 1
     ELSE IF worker.at = "emergencyPlaced" THEN base + 1 ELSE base

\* In emergencyWait, which it never leaves, the worker posts no more.
Budget ==
  worker.at # "emergencyWait" =>
    \A t \in Waits : /\ Orders(exch[t].root) <= Allowance(t)
                     /\ \A u \in Waits : exch[u].root = exch[t].root => u = t

\* A reprice is only begun below the limit.
Repricing == {"prices", "recover", "recoverFak"}
RepriceWithin(t) ==
  /\ trk[t].reprices <= MaxReprice
  /\ worker.t = t /\ worker.at \in Repricing => trk[t].reprices < MaxReprice
RepriceBudget == \A t \in Waits : RepriceWithin(t)

\* The orders of a request are on its side.
SideBudget == \A t \in Waits : trk[t].side = exch[exch[t].root].side

\* The caller's request, whose orders nobody reprices until it is polled.
PostPlaces == {"placing", "posted", "fallbackFak", "exit", "exitPosted"}
CallerRoot ==
  IF caller.at # "exitPosted" THEN result.root
  ELSE IF caller.order = None THEN None ELSE exch[caller.order].root
AttemptsLeft == IF caller.at \in {"placing", "posted"} THEN caller.tries ELSE 0
CallerLimit ==
  IF caller.at = "exitPosted" THEN PlaceAttempts + 1
  ELSE IF caller.side = "BUY" THEN 1 ELSE PlaceAttempts
CallerBudget ==
  caller.at \in PostPlaces =>
    /\ Orders(CallerRoot) + AttemptsLeft <= CallerLimit
    /\ \A t \in Waits : exch[t].root # CallerRoot
    /\ caller.at = "exitPosted" => caller.order \in 0..used
    /\ CallerRoot = None \/ (CallerRoot \in 1..used /\ exch[CallerRoot].side = caller.side)
    /\ caller.at # "posted" => caller.side = "SELL"

\* The orders a request may have in the end.
Limit(s) == IF s = "BUY" THEN MaxReprice + 2 ELSE PlaceAttempts + 1 + MaxReprice

Budgets == Budget /\ RepriceBudget /\ SideBudget /\ CallerBudget /\ OrdersPerRequest

\* No order changes its side.
SidesKept == \A o \in 1..used : exch'[o].side = exch[o].side

\* The limits, and the caller's share of them, are integers.
LEMMA Limits ==
  ASSUME TypeOK
  PROVE  /\ PlaceAttempts \in Nat /\ 1 <= PlaceAttempts /\ MaxReprice \in Nat /\ CallerLimit \in Nat
         /\ AttemptsLeft \in Nat /\ caller.tries \in Nat /\ caller.side \in {"BUY", "SELL"}
         /\ \A s : Limit(s) \in Nat /\ MaxReprice + 2 <= Limit(s)
<1>1. PlaceAttempts \in Nat /\ 1 <= PlaceAttempts /\ MaxReprice \in Nat
  BY OrderEngineAssumption DEF OrderEngineAssumption
<1>2. caller.tries \in Nat /\ caller.side \in {"BUY", "SELL"}
  BY DEF TypeOK
<1>3. QED
  BY <1>1, <1>2 DEF Limit, CallerLimit, AttemptsLeft

\* OrdersPerRequest with the names used here.
LEMMA Limited == OrdersPerRequest <=> \A o \in 1..used : Orders(o) <= Limit(exch[o].side)
BY DEF OrdersPerRequest, Orders, OrdersOf, Limit

\* So it is in the next state.
LEMMA LimitedNext ==
  ASSUME \A o \in 1..used' : Orders(o)' <= Limit(exch'[o].side)
  PROVE  OrdersPerRequest'
BY DEF OrdersPerRequest, Orders, OrdersOf, Limit

\* A request has a number of orders.
LEMMA OrdersIsNat ==
  ASSUME TypeOK, NEW r
  PROVE  IsFiniteSet(OrdersOf(r)) /\ Orders(r) \in Nat
<1>1. IsFiniteSet(OrdersOf(r))
  BY TradedIsNat
<1>2. QED
  BY <1>1, FS_CardinalityType DEF Orders

\* A request's orders stay the same while none is placed.
LEMMA OrdersKept ==
  ASSUME IInv, IInv', ExchKept, used' = used, NEW r
  PROVE  Orders(r)' = Orders(r) /\ Orders(r) \in Nat
<1>1. OrdersOf(r)' = OrdersOf(r)
  BY DEF OrdersOf, ExchKept
<1>2. QED
  BY <1>1, OrdersIsNat DEF Orders, IInv

\* A POST adds one order to one request.
LEMMA PostCounts ==
  ASSUME IInv, IInv', Backed, NEW s \in {"BUY", "SELL"}, NEW n \in Nat, NEW root \in 0..used,
         NEW how \in Hows, Post(s, n, root, how), NEW r
  PROVE  /\ Orders(r) \in Nat /\ Orders(r)' \in Nat
         /\ Orders(r)' = Orders(r)
            \/ (/\ Orders(r)' = Orders(r) + 1 /\ used' = used + 1
                /\ Placed(how) = used' /\ r = IF root = None THEN used' ELSE root)
         /\ Placed(how) # None => used' = used + 1 /\ Placed(how) = used'
         /\ Placed(how) # None => exch'[used'].root = IF root = None THEN used' ELSE root
         /\ how = "rejected" <=> Placed(how) = None
<1>1. \/ how = "rejected" /\ Placed(how) = None /\ UNCHANGED <<exch, used>>
      \/ /\ used' = used + 1 /\ Placed(how) = used'
         /\ used' \in Id /\ used' \notin 1..used /\ PolyMin <= n
         /\ \A o \in Id : o # used' => exch'[o] = exch[o]
         /\ exch'[used'].root = IF root = None THEN used' ELSE root
         /\ exch'[used'].size = n
         /\ exch'[used'].matched = IF how = "matched" THEN n ELSE 0
  BY PostAdds
<1>2. IsFiniteSet(OrdersOf(r)) /\ Orders(r) \in Nat /\ used \in Nat /\ 1..used \subseteq Id /\ 0 \notin Id
  BY OrdersIsNat, Basics DEF IInv
<1>3. CASE UNCHANGED <<exch, used>> /\ Placed(how) = None /\ how = "rejected"
  <2>1. Orders(r)' = Orders(r)
    BY <1>3 DEF Orders, OrdersOf
  <2>2. QED
    BY <1>2, <1>3, <2>1
<1>4. CASE ~(UNCHANGED <<exch, used>> /\ Placed(how) = None /\ how = "rejected")
  <2>1. used' = used + 1 /\ Placed(how) = used' /\ used' \in Id /\ used' \notin 1..used
        /\ Placed(how) # None
    BY <1>1, <1>2, <1>4 DEF None
  <2> DEFINE rt == IF root = None THEN used' ELSE root
  <2>2. \A o \in 1..used : exch'[o] = exch[o]
    BY <1>1, <1>2, <1>4, <2>1
  <2>3. exch'[used'].root = rt
    BY <1>1, <1>4
  <2>4. 1..used' = (1..used) \cup {used'}
    BY <1>2, <2>1
  <2>5. CASE r = rt
    <3>1. OrdersOf(r)' = OrdersOf(r) \cup {used'} /\ used' \notin OrdersOf(r)
      BY <2>1, <2>2, <2>3, <2>4, <2>5 DEF OrdersOf
    <3>2. Cardinality(OrdersOf(r) \cup {used'}) = Orders(r) + 1
      BY <1>2, <3>1, FS_AddElement DEF Orders
    <3>3. Orders(r)' = Orders(r) + 1
      BY <3>1, <3>2 DEF Orders
    <3>4. QED
      BY <1>2, <2>1, <2>3, <2>5, <3>3 DEF Placed, None
  <2>6. CASE r # rt
    <3>1. OrdersOf(r)' = OrdersOf(r)
      BY <2>1, <2>2, <2>3, <2>4, <2>6 DEF OrdersOf
    <3>2. Orders(r)' = Orders(r)
      BY <3>1 DEF Orders
    <3>3. exch'[used'].root = IF root = None THEN used' ELSE root
      BY <2>3
    <3>4. how = "rejected" <=> Placed(how) = None
      BY <2>1 DEF Placed
    <3>5. QED
      BY <1>2, <2>1, <3>2, <3>3, <3>4
  <2>7. QED
    BY <2>5, <2>6
<1>5. QED
  BY <1>1, <1>3, <1>4

\* The side of what a POST adds.
LEMMA PostSides ==
  ASSUME IInv, NEW s \in {"BUY", "SELL"}, NEW n \in Nat, NEW root \in 0..used,
         NEW how \in Hows, Post(s, n, root, how)
  PROVE  SidesKept /\ (Placed(how) # None => exch'[used'].side = s)
<1>1. used \in Nat /\ exch \in [Id -> ExchangeOrder] /\ MaxOrders \in Nat
  BY Basics, OrderEngineAssumption DEF IInv, TypeOK, OrderEngineAssumption
<1>2. CASE how = "rejected"
  BY <1>2 DEF Post, Placed, exchVars, SidesKept
<1>3. CASE how # "rejected"
  <2> PICK e : e = [side |-> s, size |-> n, matched |-> IF how = "matched" THEN n ELSE 0,
               st |-> IF how = "matched" THEN "matched" ELSE "live",
               news |-> how = "matched", root |-> IF root = None THEN used + 1 ELSE root]
    OBVIOUS
  <2>1. used' = used + 1 /\ used < MaxOrders /\ exch' = [exch EXCEPT ![used + 1] = e]
    BY <1>3 DEF Post
  <2>2. used + 1 \in Id /\ used + 1 \notin 1..used /\ 1..used \subseteq Id
    BY <1>1, <2>1 DEF Id
  <2>3. exch'[used'] = e /\ \A o \in 1..used : exch'[o] = exch[o]
    BY <1>1, <2>1, <2>2
  <2>4. QED
    BY <2>3 DEF SidesKept
<1>4. QED
  BY <1>2, <1>3

\* A request that was never placed has no orders.
LEMMA NoOrders ==
  ASSUME IInv, Backed, NEW r, r = None \/ r = used + 1
  PROVE  Orders(r) = 0
<1>1. used \in Nat /\ 1..used \subseteq Id
  BY Basics
<1>2. \A o \in 1..used : exch[o].root \in 1..used
  BY RootFound
<1>3. OrdersOf(r) = {}
  BY <1>1, <1>2 DEF OrdersOf, None
<1>4. QED
  BY <1>3, FS_EmptySet DEF Orders

\* The allowance of a row is an integer.
LEMMA AllowanceType == ASSUME TypeOK, NEW t \in Id PROVE Allowance(t) \in Int
<1>1. trk[t].reprices \in Nat
  BY TrkFields
<1>2. QED
  BY <1>1, Limits DEF Allowance

\* So it is in the next state.
LEMMA AllowanceNext == ASSUME TypeOK', NEW t \in Id PROVE Allowance(t)' \in Int
<1>1. trk'[t].reprices \in Nat
  BY DEF TypeOK, TrackedOrder
<1>2. PlaceAttempts \in Nat
  BY OrderEngineAssumption DEF OrderEngineAssumption
<1>3. QED
  BY <1>1, <1>2 DEF Allowance

---------------------------------------------------------------------------
(* Steps without a POST. *)

\* The caller is where it was, as far as its posts are concerned.
CallerCalm ==
  \/ caller'.at \notin PostPlaces
  \/ /\ caller.at \in PostPlaces /\ (caller'.at = "exitPosted" <=> caller.at = "exitPosted")
     /\ caller.at = "exitPosted" => caller'.order = caller.order
     /\ result'.root = result.root /\ caller'.side = caller.side
     /\ AttemptsLeft' <= AttemptsLeft
     /\ caller'.at # "posted" => caller.side = "SELL"

\* A caller who is where it was is calm.
LEMMA SameCaller == ASSUME IInv, Budgets, UNCHANGED <<caller, result>> PROVE CallerCalm
<1>1. AttemptsLeft' <= AttemptsLeft
  <2>1. AttemptsLeft' = AttemptsLeft
    BY DEF AttemptsLeft
  <2>2. QED
    BY <2>1, Limits DEF IInv
<1>2. QED
  BY <1>1 DEF CallerCalm, Budgets, CallerBudget

\* A step that places no order keeps Budgets, if no allowance that still matters shrinks.
LEMMA LessWaits ==
  ASSUME IInv, IInv', Backed, Budgets, ExchKept, SidesKept, used' = used,
         Waits' \subseteq Waits, CallerCalm,
         \A t \in Waits' : trk'[t].side = trk[t].side,
         worker.at = "emergencyWait" => worker'.at = "emergencyWait",
         worker'.at # "emergencyWait" => \A t \in Waits' : Allowance(t) <= Allowance(t)',
         \A t \in Waits' : RepriceWithin(t)'
  PROVE  Budgets'
<1>1. \A r : Orders(r)' = Orders(r) /\ Orders(r) \in Nat
  BY OrdersKept
<1>2. \A t \in Waits' : t \in 1..used /\ t \in Id /\ exch'[t].root = exch[t].root
  BY Basics DEF Waits, ExchKept
<1>3. Budget'
  <2>1. SUFFICES ASSUME worker'.at # "emergencyWait", NEW t \in Waits'
                 PROVE  /\ Orders(exch[t].root)' <= Allowance(t)'
                        /\ \A u \in Waits' : exch'[u].root = exch'[t].root => u = t
    BY DEF Budget
  <2> PICK r : r = exch[t].root
    OBVIOUS
  <2>2. Orders(r) <= Allowance(t) /\ \A u \in Waits : exch[u].root = r => u = t
    BY <2>1 DEF Budgets, Budget
  <2>3. Orders(exch[t].root)' = Orders(r)
    <3>1. Orders(exch[t].root)' = Orders(r)'
      BY <1>2 DEF Orders, OrdersOf
    <3>2. QED
      BY <1>1, <3>1
  <2>4. Allowance(t) \in Int /\ Allowance(t)' \in Int
    BY <1>2, AllowanceType, AllowanceNext DEF IInv
  <2>5. QED
    BY <1>1, <1>2, <2>1, <2>2, <2>3, <2>4
<1>4. RepriceBudget'
  BY DEF RepriceBudget
<1>5. CallerBudget'
  <2>1. CASE caller'.at \notin PostPlaces
    BY <2>1 DEF CallerBudget
  <2>2. CASE caller'.at \in PostPlaces
    <3> PICK r : r = CallerRoot
      OBVIOUS
    <3>1. CallerRoot' = r
      <4>1. caller.at = "exitPosted" /\ caller.order # None => caller.order \in 1..used
        BY <2>2 DEF CallerCalm, Budgets, CallerBudget, PostPlaces, None
      <4>2. QED
        BY <2>2, <4>1 DEF CallerRoot, CallerCalm, ExchKept
    <3>2. /\ Orders(r) + AttemptsLeft <= CallerLimit
          /\ \A t \in Waits : exch[t].root # r
          /\ caller.at = "exitPosted" => caller.order \in 0..used
          /\ r = None \/ (r \in 1..used /\ exch[r].side = caller.side)
      BY <2>2 DEF Budgets, CallerBudget, CallerCalm
    <3>3. Orders(CallerRoot)' = Orders(r)'
      BY <3>1 DEF Orders, OrdersOf
    <3>4. CallerLimit' = CallerLimit
      BY <2>2 DEF CallerLimit, CallerCalm
    <3>5. AttemptsLeft' <= AttemptsLeft /\ AttemptsLeft \in Nat /\ AttemptsLeft' \in Nat
          /\ CallerLimit \in Nat
      <4>1. AttemptsLeft' \in Nat
        BY DEF IInv, TypeOK, AttemptsLeft
      <4>2. QED
        BY <2>2, <4>1, Limits DEF CallerCalm, IInv
    <3>6. Orders(CallerRoot)' + AttemptsLeft' <= CallerLimit'
      BY <1>1, <3>2, <3>3, <3>4, <3>5
    <3>7. r = None \/ (r \in 1..used' /\ exch'[r].side = caller'.side)
      BY <2>2, <3>2 DEF CallerCalm, SidesKept
    <3>8. \A t \in Waits' : exch'[t].root # r
      BY <1>2, <3>2
    <3>9. /\ caller'.at = "exitPosted" => caller'.order \in 0..used'
          /\ caller'.at # "posted" => caller'.side = "SELL"
      BY <2>2, <3>2 DEF CallerCalm
    <3>10. QED
      BY <3>1, <3>6, <3>7, <3>8, <3>9 DEF CallerBudget
  <2>3. QED
    BY <2>1, <2>2
<1>6. OrdersPerRequest'
  <2>1. \A o \in 1..used : Orders(o) <= Limit(exch[o].side)
    BY Limited DEF Budgets
  <2>2. \A o \in 1..used' : Orders(o)' <= Limit(exch'[o].side)
    BY <1>1, <2>1 DEF SidesKept
  <2>3. QED
    BY <2>2, LimitedNext
<1>7. SideBudget'
  <2>1. \A t \in Waits' : exch[t].root \in 1..used
    BY <1>2, RootFound
  <2>2. QED
    BY <1>2, <2>1 DEF Budgets, SideBudget, SidesKept
<1>8. QED
  BY <1>3, <1>4, <1>5, <1>6, <1>7 DEF Budgets
\* A step that decides nothing at the worker's order.
CalmBudget ==
  /\ ExchKept /\ SidesKept /\ used' = used /\ Waits' \subseteq Waits /\ CallerCalm
  /\ \A t \in Waits : trk'[t].side = trk[t].side /\ trk'[t].reprices = trk[t].reprices
  /\ worker' = worker \/ (worker.at \in {"idle", "timer"} /\ worker'.at \in {"idle", "timer"})

\* A step that leaves what Budgets reads alone.
LEMMA CalmBudgets == ASSUME IInv, IInv', Backed, Budgets, CalmBudget PROVE Budgets'
<1>1. \A t \in Waits : t \in Id /\ Allowance(t) \in Int
  BY Basics, AllowanceType DEF Waits
<1>2. worker.at = "emergencyWait" => worker'.at = "emergencyWait"
  BY DEF CalmBudget
<1>3. \A t \in Waits' : Allowance(t) <= Allowance(t)'
  <2>1. SUFFICES ASSUME NEW t \in Waits' PROVE Allowance(t) <= Allowance(t)'
    OBVIOUS
  <2>2. Allowance(t)' = Allowance(t)
    BY DEF CalmBudget, Allowance
  <2>3. QED
    BY <1>1, <2>2 DEF CalmBudget
<1>4. \A t \in Waits' : RepriceWithin(t)'
  BY DEF CalmBudget, Budgets, RepriceBudget, RepriceWithin, Repricing
<1>5. \A t \in Waits' : trk'[t].side = trk[t].side
  BY DEF CalmBudget
<1>6. QED
  BY <1>2, <1>3, <1>4, <1>5, LessWaits DEF CalmBudget

\* A step of the worker at the order t.
LEMMA WorkerBudgets ==
  ASSUME IInv, IInv', Backed, Budgets, NEW t \in Id,
         UNCHANGED <<exch, used, caller, result>>, polls' = polls, done \subseteq done',
         worker.at \in {"idle", "timer"} \/ worker.t = t,
         worker.at # "emergencyWait",
         worker'.at \in {"idle", "timer"} \/ worker'.t = t,
         \A u \in polls \ {t} : trk'[u].side = trk[u].side /\ trk'[u].reprices = trk[u].reprices,
         t \in Waits' => Allowance(t) <= Allowance(t)' /\ RepriceWithin(t)' /\ trk'[t].side = trk[t].side
  PROVE  Budgets'
<1>1. ExchKept /\ SidesKept
  BY Basics DEF ExchKept, SidesKept, IInv, TypeOK, ExchangeOrder
<1>2. Waits' \subseteq Waits
  BY DEF Waits
<1>3. CallerCalm
  BY SameCaller
<1>4. \A u \in Waits : u \in Id /\ Allowance(u) \in Int /\ u # None
  BY Basics, AllowanceType DEF Waits, None
<1>5. ASSUME NEW u \in Waits', u # t
      PROVE  Allowance(u) <= Allowance(u)' /\ RepriceWithin(u)' /\ trk'[u].side = trk[u].side
  <2>1. trk'[u].side = trk[u].side /\ trk'[u].reprices = trk[u].reprices
    BY <1>5 DEF Waits
  <2>2. Allowance(u)' = Allowance(u)
    BY <1>5, <2>1 DEF Allowance
  <2>3. RepriceWithin(u)'
    BY <1>2, <1>5, <2>1 DEF Budgets, RepriceBudget, RepriceWithin, Repricing
  <2>4. QED
    BY <1>2, <1>4, <2>1, <2>2, <2>3
<1>6. QED
  BY <1>1, <1>2, <1>3, <1>5, LessWaits

\* The steps of the exchange and of its messages.
LEMMA ExchangeBudgets ==
  ASSUME IInv, IInv', Backed, Budgets, NEW o \in Id, NEW k \in 1..Size,
         Fill(o, k) \/ ExchangeCancels(o) \/ DeliverOrderMessage(o) \/ DeliverTradeMessage(o, k)
  PROVE  Budgets'
<1>1. UNCHANGED <<used, trk, polls, done, worker, caller, result>>
  BY DEF Fill, ExchangeCancels, DeliverOrderMessage, DeliverTradeMessage, engineVars, workVars, callVars
<1>2. exch[o] \in ExchangeOrder /\ exch[o] # NoOrder
  BY ExchFields DEF IInv, Fill, ExchangeCancels, DeliverOrderMessage, DeliverTradeMessage, NoOrder
<1>3. PICK e \in ExchangeOrder :
        /\ exch' = [exch EXCEPT ![o] = e] /\ e.side = exch[o].side
        /\ e.root = exch[o].root /\ e.size = exch[o].size /\ exch[o].matched <= e.matched
  <2>1. CASE Fill(o, k)
    <3>1. Traded(exch[o], k) \in ExchangeOrder
      BY <1>2, TradedType
    <3>2. /\ Traded(exch[o], k).root = exch[o].root /\ Traded(exch[o], k).size = exch[o].size
          /\ exch[o].matched <= Traded(exch[o], k).matched /\ Traded(exch[o], k).side = exch[o].side
      BY <1>2 DEF Traded, ExchangeOrder
    <3>3. QED
      BY <2>1, <3>1, <3>2 DEF Fill
  <2>2. CASE ExchangeCancels(o)
    <3> PICK e : e = [exch[o] EXCEPT !.st = "canceled", !.news = TRUE]
      OBVIOUS
    <3>1. e \in ExchangeOrder /\ e.root = exch[o].root /\ e.size = exch[o].size /\ exch[o].matched <= e.matched
      BY <1>2, ChangedOrder
    <3>2. e.side = exch[o].side
      BY <1>2 DEF ExchangeOrder
    <3>3. QED
      BY <2>2, <3>1, <3>2 DEF ExchangeCancels
  <2>3. CASE DeliverOrderMessage(o) \/ DeliverTradeMessage(o, k)
    <3> PICK e : e = [exch[o] EXCEPT !.news = FALSE]
      OBVIOUS
    <3>1. e \in ExchangeOrder /\ e.root = exch[o].root /\ e.size = exch[o].size /\ exch[o].matched <= e.matched
      BY <1>2, ChangedOrder
    <3>2. exch' = [exch EXCEPT ![o] = e] /\ e.side = exch[o].side
      BY <1>2, <2>3 DEF DeliverOrderMessage, DeliverTradeMessage, ExchangeOrder
    <3>3. QED
      BY <3>1, <3>2
  <2>4. QED
    BY <2>1, <2>2, <2>3
<1>4. ExchKept /\ SidesKept
  <2>1. ExchKept
    BY <1>1, <1>2, <1>3, ExchangeStep
  <2>2. \A p \in 1..used : p \in Id
    BY Basics
  <2>3. QED
    BY <1>3, <2>1, <2>2 DEF SidesKept, IInv, TypeOK
<1>5. CalmBudget
  BY <1>1, <1>4, SameCaller DEF CalmBudget, Waits
<1>6. QED
  BY <1>5, CalmBudgets

\* The steps that change neither rows nor orders.
LEMMA IdleStepsBudgets ==
  ASSUME IInv, IInv', Backed, Budgets, NEW t,
         Tick \/ TakeTimer \/ TimerDone \/ TimerSkips(t) \/ BackgroundPollReturns(t) \/ BecomeStale(t)
         \/ UNCHANGED vars
  PROVE  Budgets'
<1>1. UNCHANGED <<exch, used, done, caller, result>> /\ polls' \subseteq polls
  BY DEF Tick, TakeTimer, TimerDone, TimerSkips, BackgroundPollReturns, BecomeStale, vars,
         exchVars, engineVars, callVars, EndPoll
<1>2. ExchKept /\ SidesKept
  BY <1>1, Basics DEF ExchKept, SidesKept, IInv, TypeOK, ExchangeOrder
<1>3. \A u \in Id : trk'[u].side = trk[u].side /\ trk'[u].reprices = trk[u].reprices
  <2>1. CASE BecomeStale(t)
    <3>1. trk' = [trk EXCEPT ![t].stale = TRUE]
      BY <2>1 DEF BecomeStale
    <3>2. QED
      BY <3>1, Basics DEF TrackedOrder
  <2>2. CASE ~BecomeStale(t)
    BY <2>2 DEF Tick, TakeTimer, TimerDone, TimerSkips, BackgroundPollReturns, vars, engineVars
  <2>3. QED
    BY <2>1, <2>2
<1>4. worker' = worker \/ (worker.at \in {"idle", "timer"} /\ worker'.at \in {"idle", "timer"})
  BY DEF Tick, TakeTimer, TimerDone, TimerSkips, BackgroundPollReturns, BecomeStale, vars,
         workVars, Quiet
<1>5. CalmBudget
  BY <1>1, <1>2, <1>3, <1>4, Basics, SameCaller DEF CalmBudget, Waits
<1>6. QED
  BY <1>5, CalmBudgets

\* The worker takes the event of an order.
LEMMA TakeOrderEventBudgets == ASSUME IInv, IInv', Backed, Budgets, TakeOrderEvent PROVE Budgets'
<1>1. /\ UNCHANGED <<exch, used, polls, worker, caller, result>> /\ done \subseteq done'
  BY DEF TakeOrderEvent, exchVars, callVars
<1>2. ExchKept /\ SidesKept
  BY <1>1, Basics DEF ExchKept, SidesKept, IInv, TypeOK, ExchangeOrder
<1>3. \A u \in Id : trk'[u].side = trk[u].side /\ trk'[u].reprices = trk[u].reprices
  <2>1. PICK t, e : trk' = trk \/ trk' = [trk EXCEPT ![t] = Handle(trk[t], e)]
    BY DEF TakeOrderEvent
  <2>2. \A u \in Id : Handle(trk[u], e).side = trk[u].side /\ Handle(trk[u], e).reprices = trk[u].reprices
    BY Basics DEF Handle, TrackedOrder
  <2>3. QED
    BY <2>1, <2>2, Basics
<1>4. CalmBudget
  BY <1>1, <1>2, <1>3, Basics, SameCaller DEF CalmBudget, Waits
<1>5. QED
  BY <1>4, CalmBudgets
\* The worker stops at an await, or goes on, with the order's reprices as they were.
LEMMA SameBudgets ==
  ASSUME IInv, IInv', Backed, Budgets, NEW t \in polls \ done, NEW r,
         UNCHANGED <<exch, used, caller, result, polls>>, done \subseteq done',
         worker.at \in {"idle", "timer"} \/ worker.t = t,
         worker.at \notin {"emergencyWait", "place", "emergencyPlaced"},
         trk' = [trk EXCEPT ![t] = r], r.side = trk[t].side, r.reprices = trk[t].reprices,
         worker' = Resume \/ \E p \in WorkerPlaces : worker' = At(p, t) /\ p # "place"
            /\ (p \in Repricing => r.reprices < MaxReprice)
  PROVE  Budgets'
<1>1. t \in Id /\ trk[t].reprices \in Nat /\ t \in Waits
  BY Basics, TrkFields DEF Waits
<1>2. trk'[t] = r /\ \A u \in polls \ {t} : trk'[u] = trk[u]
  BY <1>1, Basics
<1>3. \/ worker'.at = "timer"
      \/ /\ worker'.t = t /\ worker'.at # "place"
         /\ worker'.at \in Repricing => r.reprices < MaxReprice
  BY <1>1, ResumeType, AtType
<1>4. Allowance(t) <= Allowance(t)'
  BY <1>1, <1>2, <1>3, Limits DEF Allowance, IInv
<1>5. RepriceWithin(t)'
  BY <1>1, <1>2, <1>3 DEF RepriceWithin, Repricing, Budgets, RepriceBudget
<1>6. trk'[t].side = trk[t].side
  BY <1>2
<1>7. QED
  BY <1>1, <1>2, <1>3, <1>4, <1>5, <1>6, WorkerBudgets

\* _reprice_or_emergency begins: one more try, or the emergency close.
LEMMA StartRepriceBudgets ==
  ASSUME IInv, IInv', Backed, Budgets, NEW t \in Id, StartReprice(t) PROVE Budgets'
<1>1. t \in polls \ done /\ trk[t] \in TrackedOrder /\ trk \in [Id -> TrackedOrder]
  BY Basics DEF StartReprice, IsStale, Open, IInv, BatchIsPolled, WokenWithFinalStatus, Terminal
<1>2. /\ done \subseteq done' /\ worker.at = "timer"
      /\ UNCHANGED <<exch, used, polls, caller, result>>
  BY DEF StartReprice, exchVars, callVars
<1>3. PICK r : /\ trk' = [trk EXCEPT ![t] = r]
               /\ r.side = trk[t].side /\ r.reprices = trk[t].reprices
  <2>1. trk = [trk EXCEPT ![t] = trk[t]]
    BY <1>1
  <2>2. CASE trk' = trk
    BY <2>1, <2>2
  <2>3. CASE trk' = [trk EXCEPT ![t].status = "STALE"]
    <3> DEFINE q == [trk[t] EXCEPT !.status = "STALE"]
    <3>1. trk' = [trk EXCEPT ![t] = q]
      BY <1>1, <2>3
    <3>2. q.side = trk[t].side /\ q.reprices = trk[t].reprices
      BY <1>1 DEF TrackedOrder
    <3> HIDE DEF q
    <3>3. QED
      BY <3>1, <3>2
  <2>4. QED
    BY <2>2, <2>3 DEF StartReprice
<1>4. worker' = Resume \/ \E p \in WorkerPlaces : worker' = At(p, t) /\ p # "place"
            /\ (p \in Repricing => r.reprices < MaxReprice)
  <2>1. trk[t].reprices \in Nat /\ MaxReprice \in Nat
    BY <1>1, OrderEngineAssumption DEF TrackedOrder, OrderEngineAssumption
  <2>2. ~Exhausted(t) => trk[t].reprices < MaxReprice
    BY <2>1 DEF Exhausted
  <2>3. QED
    BY <1>3, <2>2 DEF StartReprice, WorkerPlaces, Repricing
<1>5. QED
  BY <1>1, <1>2, <1>3, <1>4, SameBudgets

\* A FAK of the worker is answered.
LEMMA FakDoneBudgets ==
  ASSUME IInv, IInv', Backed, Budgets, NEW t \in Id, NEW k, NEW n, FakDone(t, k, n) PROVE Budgets'
<1>1. t \in polls \ done /\ trk[t] \in TrackedOrder
  BY Basics DEF FakDone
<1> DEFINE r == AfterFak(trk[t], n)
<1>2. /\ done \subseteq done' /\ trk' = [trk EXCEPT ![t] = r] /\ worker' = Resume
      /\ UNCHANGED <<exch, used, polls, caller, result>>
      /\ worker.at \in {"abortFak", "dustFak", "emergencyFak"} /\ worker.t = t
  BY <1>1, Basics DEF FakDone, callVars
<1>3. r.side = trk[t].side /\ r.reprices = trk[t].reprices
  <2>1. \/ r = GivenUp(trk[t]) \/ r = Added(trk[t], n)
        \/ r = [trk[t] EXCEPT !.filled = @ + n, !.status = "FILLED"]
    BY Zenon DEF AfterFak
  <2>2. QED
    BY <1>1, <2>1 DEF GivenUp, Added, TrackedOrder
<1> HIDE DEF r
<1>4. QED
  BY <1>1, <1>2, <1>3, SameBudgets

\* The worker has the prices it asked for.
LEMMA PricesDoneBudgets ==
  ASSUME IInv, IInv', Backed, Budgets, NEW t \in Id, PricesDone(t) PROVE Budgets'
<1>1. t \in polls \ done /\ trk[t] \in TrackedOrder /\ trk \in [Id -> TrackedOrder]
  BY Basics DEF PricesDone
<1>2. /\ done \subseteq done'
      /\ UNCHANGED <<exch, used, polls, caller, result>>
      /\ worker' = Resume \/ worker' = At("recover", t)
      /\ worker.at = "prices" /\ worker.t = t
  BY DEF PricesDone, exchVars, callVars
<1>3. /\ trk[t].reprices < MaxReprice /\ trk[t].reprices \in Nat /\ t \in Waits
      /\ MaxReprice \in Nat
  BY <1>1, <1>2, OrderEngineAssumption
  DEF Budgets, RepriceBudget, RepriceWithin, Repricing, Waits, TrackedOrder, OrderEngineAssumption
<1>4. CASE trk' = trk \/ trk' = [trk EXCEPT ![t] = GivenUp(trk[t])]
  <2>1. trk = [trk EXCEPT ![t] = trk[t]]
    BY <1>1
  <2>2. GivenUp(trk[t]).side = trk[t].side /\ GivenUp(trk[t]).reprices = trk[t].reprices
    BY <1>1 DEF GivenUp, TrackedOrder
  <2>3. PICK r : /\ trk' = [trk EXCEPT ![t] = r]
                 /\ r.side = trk[t].side /\ r.reprices = trk[t].reprices
    BY <1>4, <2>1, <2>2
  <2>4. QED
    BY <1>1, <1>2, <1>3, <2>3, SameBudgets DEF WorkerPlaces
<1>5. CASE trk' = [trk EXCEPT ![t] = PriceKept(trk[t])] /\ worker' = Resume
  <2> PICK q : q = PriceKept(trk[t])
    OBVIOUS
  <2>1. q.side = trk[t].side /\ q.reprices = trk[t].reprices + 1
    BY <1>1 DEF PriceKept, TrackedOrder
  <2>2. trk'[t] = q /\ \A u \in polls \ {t} : trk'[u] = trk[u]
    BY <1>1, <1>5, Basics
  <2>3. worker'.at = "timer"
    BY <1>5, ResumeType
  <2>4. Allowance(t) <= Allowance(t)'
    BY <1>2, <1>3, <2>1, <2>2, <2>3, Limits DEF Allowance, IInv
  <2>5. RepriceWithin(t)' /\ trk'[t].side = trk[t].side
    BY <1>3, <2>1, <2>2, <2>3 DEF RepriceWithin, Repricing
  <2>6. QED
    BY <1>1, <1>2, <2>2, <2>3, <2>4, <2>5, WorkerBudgets
<1>6. QED
  BY <1>1, <1>4, <1>5 DEF PricesDone

\* The order is finished, or is to be replaced, which its reprice pays for.
LEMMA ReplaceOrFinishBudgets ==
  ASSUME IInv, IInv', Backed, Budgets, NEW t \in polls \ done, NEW r \in TrackedOrder,
         ReplaceOrFinish(t, r), r.side = trk[t].side, r.reprices = trk[t].reprices,
         worker.t = t, worker.at \in {"recover", "recoverFak"},
         UNCHANGED <<exch, used, polls, caller, result>>
  PROVE  Budgets'
<1>1. /\ t \in Id /\ t \in Waits /\ trk[t].reprices \in Nat /\ trk[t].reprices < MaxReprice
      /\ MaxReprice \in Nat
  BY Basics, TrkFields, OrderEngineAssumption
  DEF Waits, Budgets, RepriceBudget, RepriceWithin, Repricing, OrderEngineAssumption
<1>2. CASE r.filled >= r.size
  <2> DEFINE q == [r EXCEPT !.status = "FILLED"]
  <2>1. trk' = [trk EXCEPT ![t] = q] /\ worker' = Resume /\ done \subseteq done'
    BY <1>2 DEF ReplaceOrFinish
  <2>2. q.side = r.side /\ q.reprices = r.reprices
    BY DEF TrackedOrder
  <2> HIDE DEF q
  <2>3. QED
    BY <2>1, <2>2, SameBudgets
<1>3. CASE ~(r.filled >= r.size)
  <2> DEFINE q == [r EXCEPT !.reprices = @ + 1]
  <2>1. trk' = [trk EXCEPT ![t] = q] /\ worker' = At("place", t) /\ done' = done
    BY <1>3 DEF ReplaceOrFinish
  <2>2. q.side = r.side /\ q.reprices = r.reprices + 1
    BY DEF TrackedOrder
  <2> HIDE DEF q
  <2>3. trk'[t] = q /\ \A u \in polls \ {t} : trk'[u] = trk[u]
    BY <1>1, <2>1, Basics
  <2>4. worker'.at = "place" /\ worker'.t = t
    BY <1>1, <2>1, AtType DEF WorkerPlaces
  <2>5. Allowance(t) <= Allowance(t)'
    BY <1>1, <2>2, <2>3, <2>4, Limits DEF Allowance, IInv
  <2>6. RepriceWithin(t)' /\ trk'[t].side = trk[t].side
    BY <1>1, <2>2, <2>3, <2>4 DEF RepriceWithin, Repricing
  <2>7. QED
    BY <1>1, <2>1, <2>3, <2>4, <2>5, <2>6, WorkerBudgets
<1>4. QED
  BY <1>2, <1>3

\* A cancel that failed is looked into.
LEMMA RecoverDoneBudgets ==
  ASSUME IInv, IInv', Backed, Budgets, NEW t \in Id, RecoverDone(t) PROVE Budgets'
<1>1. t \in polls \ done /\ worker.at = "recover" /\ worker.t = t
  BY Basics DEF RecoverDone
<1>2. UNCHANGED <<exch, used, polls, caller, result>>
  BY DEF RecoverDone, exchVars, callVars
<1>3. PICK rep \in FillReports(trk[t].oid) :
        LET r == Recovered(trk[t], rep)
        IN \/ trk' = [trk EXCEPT ![t] = r] /\ worker' = At("recoverFak", t) /\ done' = done
           \/ ReplaceOrFinish(t, r)
  BY DEF RecoverDone
<1> DEFINE r == Recovered(trk[t], rep)
<1>4. r \in TrackedOrder /\ r.side = trk[t].side
  BY <1>1, RecoveredRow
<1>5. r.reprices = trk[t].reprices
  BY Basics DEF Recovered, TrackedOrder
<1>6. trk[t].reprices < MaxReprice
  BY <1>1 DEF Budgets, RepriceBudget, RepriceWithin, Repricing, Waits
<1>7. \/ trk' = [trk EXCEPT ![t] = r] /\ worker' = At("recoverFak", t) /\ done' = done
      \/ ReplaceOrFinish(t, r)
  BY <1>3
<1> HIDE DEF r
<1>8. CASE ReplaceOrFinish(t, r)
  BY <1>1, <1>2, <1>4, <1>5, <1>8, ReplaceOrFinishBudgets
<1>9. CASE ~ReplaceOrFinish(t, r)
  BY <1>1, <1>2, <1>4, <1>5, <1>6, <1>7, <1>9, SameBudgets DEF WorkerPlaces
<1>10. QED
  BY <1>8, <1>9

\* The FAK after a failed cancel is answered.
LEMMA RecoverFakDoneBudgets ==
  ASSUME IInv, IInv', Backed, Budgets, NEW t \in Id, NEW k, NEW n \in Nat, RecoverFakDone(t, k, n)
  PROVE  Budgets'
<1>1. t \in polls \ done /\ trk[t] \in TrackedOrder /\ worker.at = "recoverFak" /\ worker.t = t
  BY Basics DEF RecoverFakDone
<1> DEFINE r == [trk[t] EXCEPT !.filled = @ + n, !.status = "FILLED"]
<1>2. ReplaceOrFinish(t, r) /\ UNCHANGED <<exch, used, polls, caller, result>>
  BY DEF RecoverFakDone, callVars
<1>3. r \in TrackedOrder
  <2>1. trk[t].filled + n \in Nat /\ "FILLED" \in Statuses
    BY <1>1 DEF TrackedOrder, Statuses, Terminal
  <2>2. QED
    BY <1>1, <2>1 DEF TrackedOrder
<1>4. r.side = trk[t].side /\ r.reprices = trk[t].reprices
  BY <1>1 DEF TrackedOrder
<1> HIDE DEF r
<1>5. QED
  BY <1>1, <1>2, <1>3, <1>4, ReplaceOrFinishBudgets

\* The replacement is answered.
LEMMA ReplaceDoneBudgets ==
  ASSUME IInv, IInv', Backed, Budgets, NEW t \in Id, ReplaceDone(t) PROVE Budgets'
<1>1. /\ t \in polls \ done /\ worker.t = t /\ worker.at = "placed"
      /\ trk[t] \in TrackedOrder /\ done \subseteq done' /\ worker' = Resume
      /\ UNCHANGED <<exch, used, polls, caller, result>>
  BY Basics DEF ReplaceDone, exchVars, callVars
<1>2. PICK r : /\ trk' = [trk EXCEPT ![t] = r]
               /\ r.side = trk[t].side /\ r.reprices = trk[t].reprices
  <2> PICK st : st = IF worker.reply = "matched" THEN "FILLED" ELSE "PENDING"
    OBVIOUS
  <2> PICK o : o = worker.order
    OBVIOUS
  <2> DEFINE f == [trk[t] EXCEPT !.status = "FAILED"]
             m == [trk[t] EXCEPT !.oid = o, !.stale = FALSE, !.status = st]
  <2>1. trk' = [trk EXCEPT ![t] = f] \/ trk' = [trk EXCEPT ![t] = m]
    BY <1>1, Basics DEF ReplaceDone
  <2>2. f.side = trk[t].side /\ f.reprices = trk[t].reprices
    BY <1>1 DEF TrackedOrder
  <2>3. m.side = trk[t].side /\ m.reprices = trk[t].reprices
    BY <1>1 DEF TrackedOrder
  <2> HIDE DEF f, m
  <2>4. QED
    BY <2>1, <2>2, <2>3
<1>3. QED
  BY <1>1, <1>2, SameBudgets
---------------------------------------------------------------------------
(* Steps with a POST, and new polls. *)

\* The worker's POST spends one order of the allowance.
LEMMA WorkerPostBudgets ==
  ASSUME IInv, IInv', Backed, Budgets, NEW t \in polls \ done, NEW how \in Hows,
         Post(trk[t].side, Remaining(t), exch[t].root, how), worker.t = t,
         \/ worker.at = "place" /\ worker'.at = "placed"
         \/ worker.at = "emergencyPrices" /\ worker'.at = "emergencyPlaced" /\ trk[t].side = "BUY",
         worker'.t = t, UNCHANGED <<trk, done, polls, caller, result>>
  PROVE  Budgets'
<1>1. /\ t \in Id /\ t \in 1..used /\ exch[t].root \in 1..used /\ exch[t].root \in 0..used
      /\ exch[t].root # None /\ used \in Nat /\ 1..used \subseteq Id /\ t \in Waits
  BY Basics, RootFound DEF None, Waits
<1>2. /\ trk[t].side \in {"BUY", "SELL"} /\ Remaining(t) \in Nat /\ trk[t].reprices \in Nat
      /\ MaxReprice \in Nat
  BY <1>1, TrkFields, RemainingType, OrderEngineAssumption DEF IInv, OrderEngineAssumption
<1>3. ExchKept /\ SidesKept
  BY <1>1, <1>2, PostKeeps, PostSides
<1>4. ASSUME NEW r
      PROVE  /\ Orders(r) \in Nat /\ Orders(r)' \in Nat /\ Orders(r)' <= Orders(r) + 1
             /\ r # exch[t].root => Orders(r)' = Orders(r)
  <2>1. /\ Orders(r) \in Nat /\ Orders(r)' \in Nat
        /\ Orders(r)' = Orders(r)
           \/ (/\ Orders(r)' = Orders(r) + 1 /\ used' = used + 1
               /\ Placed(how) = used' /\ r = IF exch[t].root = None THEN used' ELSE exch[t].root)
    BY <1>1, <1>2, PostCounts
  <2>2. QED
    BY <1>1, <2>1
<1>5. \A u \in Waits : u \in Id /\ u \in 1..used /\ exch'[u].root = exch[u].root
  BY <1>3, Basics DEF Waits, ExchKept
<1>6. Waits' = Waits
  BY DEF Waits
<1>7. /\ Orders(exch[t].root) <= Allowance(t) /\ Allowance(t)' = Allowance(t) + 1
      /\ Allowance(t) + 1 <= Limit(trk[t].side) /\ Allowance(t) \in Int
  <2>0. PlaceAttempts \in Nat
    BY Limits DEF IInv
  <2>1. Orders(exch[t].root) <= Allowance(t)
    BY <1>1 DEF Budgets, Budget
  <2>2. Allowance(t)' = Allowance(t) + 1 /\ Allowance(t) \in Int
    BY <1>1, <1>2, <2>0 DEF Allowance
  <2>3. trk[t].reprices <= MaxReprice
    BY <1>1 DEF Budgets, RepriceBudget, RepriceWithin
  <2>4. Allowance(t) + 1 <= Limit(trk[t].side)
    BY <1>2, <2>0, <2>3 DEF Allowance, Limit
  <2>5. QED
    BY <2>1, <2>2, <2>4
<1>8. Budget'
  <2>1. SUFFICES ASSUME NEW u \in Waits
                 PROVE  /\ Orders(exch[u].root)' <= Allowance(u)'
                        /\ \A v \in Waits : exch'[v].root = exch'[u].root => v = u
    BY <1>6 DEF Budget
  <2>2. \A v \in Waits : exch[v].root = exch[u].root => v = u
    BY DEF Budgets, Budget
  <2> PICK r : r = exch[u].root
    OBVIOUS
  <2>3. Orders(exch[u].root)' = Orders(r)'
    BY <1>5 DEF Orders, OrdersOf
  <2>4. Orders(r)' <= Allowance(u)'
    <3>1. CASE u = t
      BY <1>4, <1>7, <3>1
    <3>2. CASE u # t
      <4>1. r # exch[t].root
        BY <1>1, <2>2, <3>2
      <4>2. Allowance(u)' = Allowance(u)
        BY <3>2 DEF Allowance
      <4>3. Orders(r) <= Allowance(u)
        BY DEF Budgets, Budget
      <4>4. QED
        BY <1>4, <4>1, <4>2, <4>3
    <3>3. QED
      BY <3>1, <3>2
  <2>5. QED
    BY <1>5, <2>2, <2>3, <2>4
<1>9. RepriceBudget'
  BY <1>6 DEF Budgets, RepriceBudget, RepriceWithin, Repricing
<1>10. CallerBudget'
  <2>1. CASE caller.at \notin PostPlaces
    BY <2>1 DEF CallerBudget
  <2> SUFFICES ASSUME caller.at \in PostPlaces PROVE CallerBudget'
    BY <2>1
  <2> PICK r : r = CallerRoot
    OBVIOUS
  <2>2. /\ Orders(r) + AttemptsLeft <= CallerLimit
        /\ \A u \in Waits : exch[u].root # r
        /\ caller.at = "exitPosted" => caller.order \in 0..used
        /\ r = None \/ (r \in 1..used /\ exch[r].side = caller.side)
        /\ caller.at # "posted" => caller.side = "SELL"
    BY DEF Budgets, CallerBudget
  <2>3. CallerRoot' = r
    BY <1>1, <1>3, <2>2 DEF CallerRoot, ExchKept, None
  <2>4. Orders(CallerRoot)' = Orders(r)'
    BY <2>3 DEF Orders, OrdersOf
  <2>5. Orders(r)' = Orders(r)
    BY <1>1, <1>4, <2>2
  <2>6. caller.at = "exitPosted" => caller.order \in 0..used'
    BY <1>3, <2>2, RootStays
  <2>7. AttemptsLeft' = AttemptsLeft /\ CallerLimit' = CallerLimit
    BY DEF AttemptsLeft, CallerLimit
  <2>8. r = None \/ (r \in 1..used' /\ exch'[r].side = caller.side)
    BY <1>1, <1>3, <2>2, RootStays DEF SidesKept, None
  <2>9. Orders(CallerRoot)' + AttemptsLeft' <= CallerLimit'
    BY <2>2, <2>4, <2>5, <2>7
  <2>10. \A u \in Waits' : exch'[u].root # CallerRoot'
    BY <1>5, <1>6, <2>2, <2>3
  <2>11. QED
    BY <2>2, <2>3, <2>6, <2>8, <2>9, <2>10 DEF CallerBudget
<1>11. OrdersPerRequest'
  <2>1. \A o \in 1..used : Orders(o) <= Limit(exch[o].side)
    BY Limited DEF Budgets
  <2>2. ASSUME NEW o \in 1..used' PROVE Orders(o)' <= Limit(exch'[o].side)
    <3>1. CASE o = exch[t].root
      <4>1. exch'[o].side = trk[t].side
        BY <1>1, <1>3, <3>1 DEF SidesKept, Budgets, SideBudget
      <4>2. Orders(o) <= Allowance(t)
        BY <1>7, <3>1
      <4>3. Limit(trk[t].side) \in Nat
        BY Limits DEF IInv
      <4>4. Orders(o)' <= Limit(trk[t].side)
        BY <1>4, <1>7, <4>2, <4>3
      <4>5. QED
        BY <4>1, <4>4
    <3>2. CASE o # exch[t].root /\ o \in 1..used
      BY <1>3, <1>4, <2>1, <3>2 DEF SidesKept
    <3>3. CASE o # exch[t].root /\ o \notin 1..used
      <4>1. o = used + 1
        <5>1. used' = used \/ used' = used + 1
          BY <1>1, <1>2, PostAdds
        <5>2. QED
          BY <1>1, <3>3, <5>1
      <4>2. Orders(o)' = 0
        BY <1>4, <3>3, <4>1, NoOrders
      <4>3. QED
        BY <4>2, Limits DEF IInv
    <3>4. QED
      BY <3>1, <3>2, <3>3
  <2>3. QED
    BY <2>2, LimitedNext
<1>12. SideBudget'
  <2>1. \A u \in Waits : exch[u].root \in 1..used
    BY <1>5, RootFound
  <2>2. QED
    BY <1>3, <1>5, <1>6, <2>1 DEF Budgets, SideBudget, SidesKept
<1>13. QED
  BY <1>8, <1>9, <1>10, <1>11, <1>12 DEF Budgets

\* Both POSTs of the worker.
LEMMA ReplaceBudgets ==
  ASSUME IInv, IInv', Backed, Budgets, NEW t \in Id, NEW how \in Hows, Replace(t, how) \/ EmergencyBuy(t, how)
  PROVE  Budgets'
<1>1. t \in polls \ done
  BY Basics DEF Replace, EmergencyBuy
<1>2. UNCHANGED <<trk, done, polls, caller, result>>
  BY DEF Replace, EmergencyBuy, engineVars, callVars
<1>3. CASE Replace(t, how)
  BY <1>1, <1>2, <1>3, WorkerPostBudgets DEF Replace
<1>4. CASE EmergencyBuy(t, how)
  <2>1. trk[t].side = "BUY"
    BY <1>4 DEF EmergencyBuy, Backed, WorkerBacked
  <2>2. QED
    BY <1>1, <1>2, <1>4, <2>1, WorkerPostBudgets DEF EmergencyBuy
<1>5. QED
  BY <1>3, <1>4

\* The caller posts for a new request, or for the one whose order is gone.
LEMMA CallerPostBudgets ==
  ASSUME IInv, IInv', Backed, Budgets, NEW s \in {"BUY", "SELL"}, NEW n \in Nat, NEW root \in 0..used,
         NEW how \in Hows, Post(s, n, root, how), UNCHANGED <<trk, done, polls, worker>>,
         root # None => root \in 1..used /\ exch[root].side = s /\ \A t \in Waits : exch[t].root # root,
         Orders(root) + 1 + AttemptsLeft' <= CallerLimit',
         caller'.side = s, CallerLimit' <= Limit(s),
         \/ /\ caller'.at = "posted"
            /\ result'.root = IF root = None THEN Placed(how) ELSE root
         \/ /\ caller'.at = "exitPosted" /\ caller'.order = Placed(how) /\ s = "SELL"
  PROVE  Budgets'
<1>1. used \in Nat /\ 1..used \subseteq Id /\ 0 \notin Id /\ MaxReprice \in Nat
      /\ AttemptsLeft' \in Nat /\ CallerLimit' \in Nat /\ Limit(s) \in Nat
  <2>1. AttemptsLeft' \in Nat /\ CallerLimit' \in Nat
    BY OrderEngineAssumption DEF IInv, TypeOK, AttemptsLeft, CallerLimit, OrderEngineAssumption
  <2>2. QED
    BY <2>1, Basics, Limits, OrderEngineAssumption DEF OrderEngineAssumption, IInv
<1>2. ExchKept /\ SidesKept /\ (Placed(how) # None => exch'[used'].side = s)
  BY PostKeeps, PostSides
<1> DEFINE new == IF root = None THEN used' ELSE root
<1>3. /\ Placed(how) # None => used' = used + 1 /\ Placed(how) = used' /\ exch'[used'].root = new
      /\ \A r : /\ Orders(r) \in Nat /\ Orders(r)' \in Nat
                /\ Orders(r)' = Orders(r)
                   \/ (Orders(r)' = Orders(r) + 1 /\ r = new /\ Placed(how) # None)
  <2>1. ASSUME NEW r
        PROVE  /\ Orders(r) \in Nat /\ Orders(r)' \in Nat
               /\ Orders(r)' = Orders(r)
                  \/ (/\ Orders(r)' = Orders(r) + 1 /\ used' = used + 1
                      /\ Placed(how) = used' /\ r = IF root = None THEN used' ELSE root)
               /\ Placed(how) # None => used' = used + 1 /\ Placed(how) = used'
               /\ Placed(how) # None => exch'[used'].root = IF root = None THEN used' ELSE root
    BY PostCounts
  <2>2. QED
    BY <1>1, <2>1 DEF None
<1>4. \A u \in Waits : u \in Id /\ u \in 1..used /\ exch'[u].root = exch[u].root /\ exch[u].root \in 1..used
  BY <1>2, Basics, RootFound DEF Waits, ExchKept
<1>5. Waits' = Waits
  BY DEF Waits
<1>6. Placed(how) # None =>
        /\ Orders(new) <= Orders(root) /\ (\A u \in Waits : exch[u].root # new)
        /\ new \in 1..used' /\ exch'[new].side = s /\ new # None
  <2>1. CASE root = None
    <3>1. Placed(how) # None => new = used + 1 /\ new = used' /\ exch'[new].side = s
      BY <1>2, <1>3, <2>1
    <3>2. Orders(used + 1) = 0
      BY NoOrders
    <3>3. QED
      BY <1>1, <1>3, <1>4, <3>1, <3>2 DEF None
  <2>2. CASE root # None
    <3>1. new = root /\ root \in 1..used /\ exch'[root].side = s
      BY <1>2, <2>2 DEF SidesKept
    <3>2. root \in 0..used'
      BY <1>2, RootStays
    <3>3. QED
      BY <1>1, <1>3, <2>2, <3>1, <3>2 DEF None
  <2>3. QED
    BY <2>1, <2>2
<1> HIDE DEF new
<1>7. Budget'
  <2>1. SUFFICES ASSUME worker.at # "emergencyWait", NEW u \in Waits
                 PROVE  /\ Orders(exch[u].root)' <= Allowance(u)'
                        /\ \A v \in Waits : exch'[v].root = exch'[u].root => v = u
    BY <1>5 DEF Budget
  <2> PICK r : r = exch[u].root
    OBVIOUS
  <2>2. Orders(r) <= Allowance(u) /\ \A v \in Waits : exch[v].root = r => v = u
    BY <2>1 DEF Budgets, Budget
  <2>3. Orders(exch[u].root)' = Orders(r)'
    BY <1>4 DEF Orders, OrdersOf
  <2>4. Orders(r)' = Orders(r)
    BY <1>3, <1>6
  <2>5. Allowance(u)' = Allowance(u)
    BY DEF Allowance
  <2>6. QED
    BY <1>4, <2>2, <2>3, <2>4, <2>5
<1>8. RepriceBudget'
  BY <1>5 DEF Budgets, RepriceBudget, RepriceWithin, Repricing
<1>9. /\ caller'.at = "exitPosted" => caller'.order \in 0..used'
      /\ caller'.at # "posted" => caller'.side = "SELL"
  <2>1. None \in 0..used'
    BY <1>1, RootStays, <1>2 DEF None
  <2>2. Placed(how) # None => used' \in 0..used'
    BY <1>1, <1>3
  <2>3. QED
    BY <1>3, <2>1, <2>2
<1>10. CallerBudget'
  <2>1. CallerRoot' \in {None, root} \/ (CallerRoot' = new /\ Placed(how) # None)
    <3>1. CASE caller'.at = "posted"
      BY <1>3, <3>1 DEF CallerRoot, new
    <3>2. CASE caller'.at = "exitPosted"
      BY <1>3, <3>2 DEF CallerRoot
    <3>3. QED
      BY <3>1, <3>2
  <2> PICK q : q = CallerRoot'
    OBVIOUS
  <2>2. Orders(CallerRoot)' = Orders(q)'
    BY DEF Orders, OrdersOf
  <2>3. CASE q = None
    <3>1. Orders(q) = 0
      BY <2>3, NoOrders
    <3>2. Orders(q)' = 0
      BY <1>3, <1>6, <2>3, <3>1
    <3>3. \A u \in Waits' : exch'[u].root # q
      BY <1>4, <1>5, <2>3 DEF None
    <3>4. Orders(q)' + AttemptsLeft' <= CallerLimit'
      BY <1>1, <1>3, <3>2
    <3>5. QED
      BY <2>2, <2>3, <3>3, <3>4, <1>9 DEF CallerBudget
  <2>4. CASE q # None
    <3>1. /\ Orders(q) <= Orders(root) /\ (\A u \in Waits : exch[u].root # q)
          /\ q \in 1..used' /\ exch'[q].side = s
      <4>1. CASE q = root
        <5>1. root \in 1..used /\ exch'[root].side = s
          BY <1>2, <2>4, <4>1 DEF SidesKept
        <5>2. root \in 0..used'
          BY <1>2, RootStays
        <5>3. root \in 1..used'
          BY <1>1, <5>1, <5>2
        <5>4. QED
          BY <1>3, <2>4, <4>1, <5>1, <5>3
      <4>2. CASE q # root
        <5>1. q = new /\ Placed(how) # None
          BY <2>1, <2>4, <4>2
        <5>2. QED
          BY <1>6, <5>1
      <4>3. QED
        BY <4>1, <4>2
    <3>2. Orders(q)' <= Orders(root) + 1
      BY <1>3, <3>1
    <3>3. Orders(q)' + AttemptsLeft' <= CallerLimit'
      BY <1>1, <1>3, <3>2
    <3>4. \A u \in Waits' : exch'[u].root # q
      BY <1>4, <1>5, <3>1
    <3>5. QED
      BY <2>2, <3>1, <3>3, <3>4, <1>9 DEF CallerBudget
  <2>5. QED
    BY <2>3, <2>4
<1>11. OrdersPerRequest'
  <2>1. \A o \in 1..used : Orders(o) <= Limit(exch[o].side)
    BY Limited DEF Budgets
  <2>2. ASSUME NEW o \in 1..used' PROVE Orders(o)' <= Limit(exch'[o].side)
    <3>1. CASE Orders(o)' = Orders(o)
      <4>1. CASE o \in 1..used
        BY <1>2, <2>1, <3>1, <4>1 DEF SidesKept
      <4>2. CASE o \notin 1..used
        <5>1. used' = used \/ used' = used + 1
          BY PostAdds
        <5>2. o = used + 1
          BY <1>1, <4>2, <5>1
        <5>3. QED
          BY <3>1, <5>2, NoOrders, Limits DEF IInv
      <4>3. QED
        BY <4>1, <4>2
    <3>2. CASE Orders(o)' = Orders(o) + 1 /\ o = new /\ Placed(how) # None
      <4>1. Orders(o) <= Orders(root) /\ exch'[o].side = s
        BY <1>6, <3>2
      <4>2. Orders(o)' <= CallerLimit'
        BY <1>1, <1>3, <3>2, <4>1
      <4>3. QED
        BY <1>1, <1>3, <4>1, <4>2
    <3>3. QED
      BY <1>3, <3>1, <3>2
  <2>3. QED
    BY <2>2, LimitedNext
<1>12. SideBudget'
  BY <1>2, <1>4, <1>5 DEF Budgets, SideBudget, SidesKept
<1>13. QED
  BY <1>7, <1>8, <1>10, <1>11, <1>12 DEF Budgets
\* An exchange that did nothing kept its orders.
LEMMA ExchSame == ASSUME IInv, UNCHANGED <<exch, used>> PROVE ExchKept /\ SidesKept
BY Basics DEF ExchKept, SidesKept, IInv, TypeOK, ExchangeOrder

\* A new order o is waited for.
LEMMA NewPollBudgets ==
  ASSUME IInv, IInv', Backed, Budgets, NEW o \in 1..used, o \notin polls,
         UNCHANGED <<exch, used>>, Waits' \subseteq Waits \cup {o},
         \A u \in Waits : trk'[u].side = trk[u].side /\ trk'[u].reprices = trk[u].reprices,
         trk'[o].reprices = 0, trk'[o].side = exch[exch[o].root].side,
         \/ worker'.at = "emergencyWait" /\ UNCHANGED <<caller, result>>
            /\ \A r : caller.at \in PostPlaces /\ r = CallerRoot => exch[o].root # r
         \/ /\ worker' = worker /\ caller'.at \notin PostPlaces
            /\ Orders(exch[o].root) <= IF trk'[o].side = "SELL" THEN PlaceAttempts + 1 ELSE 1
            /\ \A u \in Waits : exch[u].root # exch[o].root
  PROVE  Budgets'
<1>1. /\ o \in Id /\ o # None /\ o \notin Waits /\ MaxReprice \in Nat
  BY Basics, OrderEngineAssumption DEF None, Waits, OrderEngineAssumption
<1>2. \A u \in Waits : u \in Id /\ trk[u].reprices \in Nat
  BY Basics, TrkFields DEF Waits, IInv
<1>3. ExchKept /\ SidesKept
  BY ExchSame
<1>4. \A r : Orders(r)' = Orders(r) /\ Orders(r) \in Nat
  BY <1>3, OrdersKept
<1>5. worker.at \notin {"idle", "timer"} => worker.t # o
  BY Basics
<1>6. RepriceBudget'
  <2>1. SUFFICES ASSUME NEW u \in Waits' PROVE RepriceWithin(u)'
    BY DEF RepriceBudget
  <2>2. CASE u = o
    BY <1>1, <1>5, <2>2 DEF RepriceWithin, Repricing
  <2>3. CASE u # o
    BY <2>3 DEF RepriceWithin, Repricing, Budgets, RepriceBudget
  <2>4. QED
    BY <2>2, <2>3
<1>7. OrdersPerRequest'
  <2>1. \A r \in 1..used : Orders(r) <= Limit(exch[r].side)
    BY Limited DEF Budgets
  <2>2. \A r \in 1..used' : Orders(r)' <= Limit(exch'[r].side)
    BY <1>4, <2>1
  <2>3. QED
    BY <2>2, LimitedNext
<1>8. Budget'
  <2>1. SUFFICES ASSUME worker'.at # "emergencyWait", NEW u \in Waits'
                 PROVE  /\ Orders(exch[u].root)' <= Allowance(u)'
                        /\ \A v \in Waits' : exch'[v].root = exch'[u].root => v = u
    BY DEF Budget
  <2>2. /\ worker' = worker /\ worker.at # "emergencyWait"
        /\ Orders(exch[o].root) <= IF trk'[o].side = "SELL" THEN PlaceAttempts + 1 ELSE 1
        /\ \A v \in Waits : exch[v].root # exch[o].root
    BY <2>1
  <2>3. \A v \in Waits : exch[v].root = exch[u].root /\ u \in Waits => v = u
    BY <2>2 DEF Budgets, Budget
  <2>4. \A v \in Waits' : exch'[v].root = exch'[u].root => v = u
    BY <2>2, <2>3
  <2> PICK r : r = exch[u].root
    OBVIOUS
  <2>5. Orders(exch[u].root)' = Orders(r)
    <3>1. Orders(exch[u].root)' = Orders(r)'
      BY DEF Orders, OrdersOf
    <3>2. QED
      BY <1>4, <3>1
  <2>6. Orders(r) <= Allowance(u)'
    <3>1. CASE u = o
      <4>1. Allowance(u)' = IF trk'[o].side = "SELL" THEN PlaceAttempts + 1 ELSE 1
        BY <1>1, <1>5, <2>2, <3>1, Limits DEF Allowance, IInv
      <4>2. QED
        BY <2>2, <3>1, <4>1
    <3>2. CASE u # o
      <4>1. Allowance(u)' = Allowance(u) /\ u \in Waits
        BY <2>2, <3>2 DEF Allowance
      <4>2. Orders(r) <= Allowance(u)
        BY <2>2, <4>1 DEF Budgets, Budget
      <4>3. QED
        BY <4>1, <4>2
    <3>3. QED
      BY <3>1, <3>2
  <2>7. QED
    BY <2>4, <2>5, <2>6
<1>9. CallerBudget'
  <2>1. CASE caller'.at \notin PostPlaces
    BY <2>1 DEF CallerBudget
  <2>2. CASE caller'.at \in PostPlaces
    <3>1. /\ UNCHANGED <<caller, result>> /\ caller.at \in PostPlaces
          /\ \A r : r = CallerRoot => exch[o].root # r
      BY <2>2
    <3> PICK r : r = CallerRoot
      OBVIOUS
    <3>2. CallerRoot' = r
      BY <3>1 DEF CallerRoot
    <3>3. Orders(CallerRoot)' = Orders(r)'
      BY <3>2 DEF Orders, OrdersOf
    <3>4. /\ Orders(r) + AttemptsLeft <= CallerLimit
          /\ \A t \in Waits : exch[t].root # r
          /\ caller.at = "exitPosted" => caller.order \in 0..used
          /\ r = None \/ (r \in 1..used /\ exch[r].side = caller.side)
          /\ caller.at # "posted" => caller.side = "SELL"
      BY <3>1 DEF Budgets, CallerBudget
    <3>5. AttemptsLeft' = AttemptsLeft /\ CallerLimit' = CallerLimit
      BY <3>1 DEF AttemptsLeft, CallerLimit
    <3>6. Orders(CallerRoot)' + AttemptsLeft' <= CallerLimit'
      BY <1>4, <3>3, <3>4, <3>5
    <3>7. \A t \in Waits' : exch'[t].root # r
      BY <3>1, <3>4
    <3>8. QED
      BY <3>1, <3>2, <3>4, <3>6, <3>7 DEF CallerBudget
  <2>3. QED
    BY <2>1, <2>2
<1>10. SideBudget'
  <2>1. SUFFICES ASSUME NEW u \in Waits' PROVE trk'[u].side = exch'[exch'[u].root].side
    BY DEF SideBudget
  <2>2. QED
    BY <2>1 DEF Budgets, SideBudget
<1>11. QED
  BY <1>6, <1>7, <1>8, <1>9, <1>10 DEF Budgets

\* The emergency BUY is answered.
LEMMA EmergencyBuyDoneBudgets ==
  ASSUME IInv, IInv', Backed, Budgets, NEW t \in Id, EmergencyBuyDone(t) PROVE Budgets'
<1> DEFINE o == worker.order
           n == Remaining(t)
<1>1. t \in polls \ done /\ t = worker.t /\ worker.at = "emergencyPlaced" /\ t \in Waits
  BY Basics DEF EmergencyBuyDone, Waits
<1>2. /\ trk[t] \in TrackedOrder /\ trk \in [Id -> TrackedOrder] /\ t \in 1..used
      /\ UNCHANGED <<exch, used, queue, caller, result>>
  BY <1>1, RowFound, Basics DEF EmergencyBuyDone, exchVars, callVars
<1>3. worker.reply # "none" =>
        /\ o \in 1..used /\ o \in Id /\ exch[o].root = exch[t].root /\ o \notin polls /\ o # t
  BY <1>1, Basics DEF Backed, WorkerBacked, WorkerPosted, IInv, PostedIsFresh, Unanswered, Fresh
<1>4. CASE worker.reply = "none" \/ worker.reply = "matched"
  <2>1. done' = done \cup {t} /\ worker' = Resume /\ polls' = polls
    BY <1>4 DEF EmergencyBuyDone
  <2>2. \A u \in polls \ {t} : trk'[u].side = trk[u].side /\ trk'[u].reprices = trk[u].reprices
    <3> PICK q, w : q = Added(trk[t], n) /\ w = NewTracked(o, "BUY", n, "FILLED", n)
      OBVIOUS
    <3>1. trk' = trk \/ (trk' = [trk EXCEPT ![t] = q, ![o] = w] /\ worker.reply = "matched")
      BY <1>4, <1>2 DEF EmergencyBuyDone
    <3>2. QED
      BY <1>2, <1>3, <3>1, Basics
  <2>3. t \notin Waits'
    BY <2>1 DEF Waits
  <2>4. worker'.at = "timer"
    BY <2>1, ResumeType
  <2>5. QED
    BY <1>1, <1>2, <2>1, <2>2, <2>3, <2>4, WorkerBudgets
<1>5. CASE worker.reply = "resting"
  <2> PICK w : w = NewTracked(o, "BUY", n, "PENDING", 0)
    OBVIOUS
  <2>1. /\ trk' = [trk EXCEPT ![o] = w] /\ polls' = polls \cup {o} /\ done' = done
        /\ worker'.at = "emergencyWait"
    BY <1>5 DEF EmergencyBuyDone, IInv, TypeOK
  <2>2. w.reprices = 0
    BY DEF NewTracked
  <2>3. trk'[o] = w /\ \A u \in polls : trk'[u] = trk[u]
    BY <1>2, <1>3, <1>5, <2>1, Basics
  <2>4. \A r : caller.at \in PostPlaces /\ r = CallerRoot => exch[o].root # r
    BY <1>1, <1>3, <1>5 DEF Budgets, CallerBudget
  <2>5. Waits' \subseteq Waits \cup {o} /\ Waits \subseteq polls
    BY <2>1 DEF Waits
  <2>6. trk'[o].side = exch[exch[o].root].side
    <3>1. w.side = "BUY" /\ trk[t].side = "BUY"
      BY <1>1 DEF NewTracked, Backed, WorkerBacked
    <3>2. QED
      BY <1>1, <1>3, <1>5, <2>3, <3>1 DEF Budgets, SideBudget
  <2>7. QED
    BY <1>2, <1>3, <1>5, <2>1, <2>2, <2>3, <2>4, <2>5, <2>6, NewPollBudgets
<1>6. QED
  BY <1>4, <1>5 DEF IInv, TypeOK, Replies

\* The caller moves on without a POST, and the worker's orders stay as they are.
LEMMA CallerBudgets ==
  ASSUME IInv, IInv', Backed, Budgets, UNCHANGED <<exch, used, done, worker>>, polls' \subseteq polls,
         \A u \in polls : trk'[u].side = trk[u].side /\ trk'[u].reprices = trk[u].reprices,
         CallerCalm
  PROVE  Budgets'
<1>1. ExchKept /\ SidesKept
  BY ExchSame
<1>2. CalmBudget
  BY <1>1 DEF CalmBudget, Waits
<1>3. QED
  BY <1>2, CalmBudgets

\* A POST of the caller is the first order of its request, one more attempt to place
\* it, or its last.
LEMMA RequestBudgets ==
  ASSUME IInv, IInv', Backed, Budgets, NEW how \in Hows,
         Execute(how) \/ PlaceSell(how) \/ ExitPost(how)
  PROVE  Budgets'
<1>1. /\ UNCHANGED <<trk, done, polls, worker>> /\ None \in 0..used
      /\ Size \in Nat /\ confirmed \in Nat /\ caller.size \in Nat
  <2>1. UNCHANGED <<trk, done, polls, worker>>
    BY DEF Execute, PlaceSell, ExitPost, engineVars, workVars
  <2>2. None \in 0..used
    BY Basics DEF None
  <2>3. Size \in Nat /\ confirmed \in Nat /\ caller.size \in Nat
    BY OrderEngineAssumption DEF IInv, TypeOK, OrderEngineAssumption
  <2>4. QED
    BY <2>1, <2>2, <2>3
<1>2. CASE Execute(how)
  <2>1. /\ caller'.at = "posted" /\ result'.root = Placed(how) /\ Post("BUY", Size, None, how)
        /\ caller'.side = "BUY" /\ caller'.tries = 0
    BY <1>2 DEF Execute, NewResult
  <2>2. CallerLimit' = 1 /\ AttemptsLeft' = 0 /\ 1 <= Limit("BUY") /\ Orders(None) = 0
    BY <2>1, NoOrders, Limits DEF CallerLimit, AttemptsLeft, Limit, IInv
  <2>3. QED
    BY <1>1, <2>1, <2>2, CallerPostBudgets
<1>3. CASE PlaceSell(how)
  <2>1. caller.at = "placing" /\ caller.side = "SELL" /\ CallerRoot = result.root
    BY <1>3 DEF PlaceSell, CallerRoot, Backed, CallerBacked
  <2>2. /\ caller'.at = "posted" /\ caller'.side = "SELL" /\ caller'.tries = caller.tries - 1
        /\ 0 < caller.tries /\ caller.tries \in Nat
    <3>1. caller \in CallerType
      BY DEF IInv, TypeOK, CallerType
    <3>2. caller' = [at |-> "posted", side |-> caller.side, order |-> Placed(how),
                     reply |-> Reply(how), size |-> caller.size, tries |-> caller.tries - 1]
      BY <1>3, <3>1, PlaceSellCaller
    <3>3. 0 < caller.tries /\ caller.tries \in Nat
      BY <2>1, Limits DEF IInv, PlacingHasTries
    <3>4. QED
      BY <2>1, <3>2, <3>3
  <2> PICK root, n : root = result.root /\ n = caller.size
    OBVIOUS
  <2>3. /\ result'.root = IF root = None THEN Placed(how) ELSE root
        /\ Post("SELL", n, root, how) /\ root \in 0..used
    BY <1>3 DEF PlaceSell, Backed, CallerBacked, IInv, TypeOK
  <2>4. /\ Orders(root) + caller.tries <= PlaceAttempts
        /\ root # None => root \in 1..used /\ exch[root].side = "SELL" /\ \A t \in Waits : exch[t].root # root
    BY <2>1 DEF Budgets, CallerBudget, PostPlaces, AttemptsLeft, CallerLimit
  <2>5. CallerLimit' = PlaceAttempts /\ AttemptsLeft' = caller.tries - 1
    BY <2>2 DEF CallerLimit, AttemptsLeft
  <2>6. Orders(root) + 1 + AttemptsLeft' <= CallerLimit' /\ CallerLimit' <= Limit("SELL")
    BY <2>2, <2>4, <2>5, OrdersIsNat, Limits DEF Limit, IInv
  <2>7. QED
    BY <1>1, <2>2, <2>3, <2>4, <2>6, CallerPostBudgets
<1>4. CASE ExitPost(how)
  <2>1. caller.at = "exit" /\ CallerRoot = result.root /\ caller.side = "SELL"
    BY <1>4 DEF ExitPost, CallerRoot, Budgets, CallerBudget, PostPlaces
  <2>2. caller'.at = "exitPosted" /\ caller'.order = Placed(how) /\ caller'.side = "SELL"
    BY <1>4, <2>1 DEF ExitPost, IInv, TypeOK
  <2> PICK root, n : root = result.root /\ n = caller.size
    OBVIOUS
  <2>3. Post("SELL", n, root, how) /\ root \in 0..used
    BY <1>4 DEF ExitPost, Backed, CallerBacked
  <2>4. /\ Orders(root) <= PlaceAttempts
        /\ root # None => root \in 1..used /\ exch[root].side = "SELL" /\ \A t \in Waits : exch[t].root # root
    <3>1. /\ Orders(root) + AttemptsLeft <= CallerLimit
          /\ root # None => root \in 1..used /\ exch[root].side = "SELL" /\ \A t \in Waits : exch[t].root # root
      BY <2>1 DEF Budgets, CallerBudget, PostPlaces
    <3>2. AttemptsLeft = 0 /\ CallerLimit = PlaceAttempts
      BY <2>1 DEF AttemptsLeft, CallerLimit
    <3>3. QED
      BY <3>1, <3>2, OrdersIsNat DEF IInv
  <2>5. CallerLimit' = PlaceAttempts + 1 /\ AttemptsLeft' = 0
    BY <2>2 DEF CallerLimit, AttemptsLeft
  <2>6. Orders(root) + 1 + AttemptsLeft' <= CallerLimit' /\ CallerLimit' <= Limit("SELL")
    BY <2>4, <2>5, OrdersIsNat, Limits DEF Limit, IInv
  <2>7. QED
    BY <1>1, <2>2, <2>3, <2>4, <2>6, CallerPostBudgets
<1>5. QED
  BY <1>2, <1>3, <1>4

\* close_position() has asked for nothing yet.
LEMMA ClosePositionBudgets ==
  ASSUME IInv, IInv', Backed, Budgets, ClosePosition PROVE Budgets'
<1>1. /\ UNCHANGED <<exch, used, trk, done, polls, worker>>
      /\ caller'.at = "placing" /\ caller'.side = "SELL" /\ caller'.tries = PlaceAttempts
      /\ result'.root = None
  BY ClosePositionType DEF ClosePosition, exchVars, engineVars, workVars, NewResult, IInv
<1>2. ExchKept /\ SidesKept
  BY <1>1, ExchSame
<1>3. Waits' = Waits /\ \A t \in Waits : t \in 1..used /\ exch[t].root \in 1..used
  BY <1>1, Basics, RootFound DEF Waits
<1>4. Budget' /\ RepriceBudget' /\ SideBudget' /\ OrdersPerRequest'
  <2>1. Budget'
    BY <1>1, <1>3 DEF Budgets, Budget, Allowance, Orders, OrdersOf
  <2>2. RepriceBudget'
    BY <1>1, <1>3 DEF Budgets, RepriceBudget, RepriceWithin
  <2>3. SideBudget'
    BY <1>1, <1>3 DEF Budgets, SideBudget
  <2>4. OrdersPerRequest'
    BY <1>1 DEF Budgets, OrdersPerRequest
  <2>5. QED
    BY <2>1, <2>2, <2>3, <2>4
<1>5. CallerBudget'
  <2>1. CallerRoot' = None /\ CallerLimit' = PlaceAttempts /\ AttemptsLeft' = PlaceAttempts
    BY <1>1 DEF CallerRoot, CallerLimit, AttemptsLeft
  <2>2. Orders(None)' = 0
    <3>1. Orders(None)' = Orders(None)
      BY <1>1 DEF Orders, OrdersOf
    <3>2. QED
      BY <3>1, NoOrders
  <2> PICK q : q = CallerRoot'
    OBVIOUS
  <2>3. Orders(CallerRoot)' = Orders(None)'
    BY <2>1 DEF Orders, OrdersOf
  <2>4. Orders(CallerRoot)' + AttemptsLeft' <= CallerLimit'
    BY <2>1, <2>2, <2>3, Limits DEF IInv
  <2>5. \A t \in Waits' : exch'[t].root # CallerRoot'
    BY <1>1, <1>3, <2>1 DEF None
  <2>6. QED
    BY <1>1, <2>1, <2>4, <2>5 DEF CallerBudget
<1>6. QED
  BY <1>4, <1>5 DEF Budgets

\* The balances answer after a BUY.
LEMMA BuyConfirmsBudgets ==
  ASSUME IInv, IInv', Backed, Budgets, BuyConfirms PROVE Budgets'
<1>1. UNCHANGED <<exch, used, trk, done, polls, worker>> /\ caller'.at \in {"idle", "residual"}
  BY BuyConfirmsSteps DEF IInv, exchVars, workVars
<1>2. CallerCalm
  BY <1>1 DEF CallerCalm, PostPlaces
<1>3. QED
  BY <1>1, <1>2, CallerBudgets

\* The caller's POST is answered.
LEMMA PostReplyBudgets == ASSUME IInv, IInv', Backed, Budgets, PostReply PROVE Budgets'
<1> DEFINE o == caller.order
           n == caller.size
<1>1. /\ caller.at = "posted" /\ UNCHANGED <<exch, used, done, worker>>
      /\ n \in Nat /\ caller.side \in {"BUY", "SELL"} /\ caller \in CallerType /\ result \in ResultType
  BY DEF PostReply, exchVars, IInv, TypeOK, CallerType, ResultType
<1>2. CASE caller.reply = "none"
  <2>1. UNCHANGED <<trk, polls, result>>
    BY <1>2 DEF PostReply
  <2> PICK c : c = [caller EXCEPT !.at = "fallbackFak", !.order = None, !.tries = FakAttempts]
    OBVIOUS
  <2> PICK p : p = [caller EXCEPT !.at = "placing", !.order = None]
    OBVIOUS
  <2>2. /\ c.at = "fallbackFak" /\ c.side = caller.side /\ Idle.at = "idle"
        /\ p.at = "placing" /\ p.side = caller.side /\ p.tries = caller.tries
    BY <1>1 DEF CallerType, Idle
  <2>3. caller' = Idle \/ (caller' \in {c, p} /\ caller.side = "SELL")
    BY <1>2 DEF PostReply
  <2>4. CallerCalm
    <3>1. CASE caller' = Idle
      BY <2>2, <3>1 DEF CallerCalm, PostPlaces
    <3>2. CASE caller' \in {c, p} /\ caller.side = "SELL"
      <4>1. AttemptsLeft' <= AttemptsLeft
        <5>1. AttemptsLeft = caller.tries /\ caller.tries \in Nat
          BY <1>1, Limits DEF AttemptsLeft, IInv
        <5>2. CASE caller' = c
          <6>1. AttemptsLeft' = 0
            BY <2>2, <5>2 DEF AttemptsLeft
          <6>2. QED
            BY <5>1, <6>1
        <5>3. CASE caller' = p
          <6>1. AttemptsLeft' = caller.tries
            BY <2>2, <5>3 DEF AttemptsLeft
          <6>2. QED
            BY <5>1, <6>1
        <5>4. QED
          BY <3>2, <5>2, <5>3
      <4>2. QED
        BY <1>1, <2>1, <2>2, <3>2, <4>1 DEF CallerCalm, PostPlaces
    <3>3. QED
      BY <2>3, <3>1, <3>2
  <2>5. QED
    BY <1>1, <2>1, <2>4, CallerBudgets
<1>3. CASE caller.reply # "none"
  <2>1. o \in 1..used /\ o \in Id /\ exch[o].root = result.root /\ o \notin polls
    BY <1>1, <1>3, Basics
    DEF CallerPosted, Backed, CallerBacked, IInv, PostedIsFresh, Unanswered, Fresh
  <2>2. CASE caller.reply = "matched" /\ caller.side = "BUY"
    <3> PICK q : q = NewTracked(o, "BUY", n, "FILLED", n)
      OBVIOUS
    <3>1. /\ trk' = [trk EXCEPT ![o] = q] /\ BuyReturns(q) /\ polls' = polls
      BY <1>3, <2>2 DEF PostReply
    <3> PICK c : c = [caller EXCEPT !.at = "confirming", !.size = FilledShares(q)]
      OBVIOUS
    <3>2. c.at = "confirming" /\ Idle.at = "idle"
      BY <1>1 DEF CallerType, Idle
    <3>3. caller' = Idle \/ caller' = c
      BY <3>1 DEF BuyReturns
    <3>4. CallerCalm
      BY <3>2, <3>3 DEF CallerCalm, PostPlaces
    <3>5. \A u \in polls : trk'[u] = trk[u]
      BY <2>1, <3>1, Basics
    <3>6. QED
      BY <1>1, <3>1, <3>4, <3>5, CallerBudgets
  <2>3. CASE caller.reply = "resting" \/ (caller.reply = "matched" /\ caller.side = "SELL")
    <3> PICK q : q = NewTracked(o, caller.side, n, "PENDING", 0)
      OBVIOUS
    <3>1. /\ trk' = [trk EXCEPT ![o] = q] /\ polls' = polls \cup {o}
          /\ caller' = [caller EXCEPT !.at = "polling", !.tries = 0]
      BY <1>3, <2>3 DEF PostReply, StartPoll
    <3>2. trk'[o] = q /\ \A u \in polls : trk'[u] = trk[u]
      BY <2>1, <3>1, Basics
    <3>3. q.reprices = 0 /\ q.side = caller.side
      BY DEF NewTracked
    <3>4. caller'.at = "polling"
      BY <1>1, <3>1 DEF CallerType
    <3>5. /\ Orders(result.root) + AttemptsLeft <= CallerLimit /\ \A t \in Waits : exch[t].root # result.root
          /\ result.root = None \/ exch[result.root].side = caller.side
      <4>1. CallerRoot = result.root
        BY <1>1 DEF CallerRoot
      <4>2. QED
        BY <1>1, <4>1 DEF Budgets, CallerBudget, PostPlaces
    <3>6. /\ Orders(exch[o].root) <= IF trk'[o].side = "SELL" THEN PlaceAttempts + 1 ELSE 1
          /\ trk'[o].side = exch[exch[o].root].side
      <4>1. CallerLimit = IF caller.side = "BUY" THEN 1 ELSE PlaceAttempts
        BY <1>1 DEF CallerLimit
      <4>2. AttemptsLeft \in Nat /\ PlaceAttempts \in Nat /\ Orders(exch[o].root) \in Nat
        BY Limits, OrdersIsNat DEF IInv
      <4>3. exch[o].root # None
        BY <2>1, RootFound DEF None
      <4>4. QED
        BY <1>1, <2>1, <3>2, <3>3, <3>5, <4>1, <4>2, <4>3
    <3>7. Waits' \subseteq Waits \cup {o} /\ Waits \subseteq polls
      BY <1>1, <3>1 DEF Waits
    <3>8. QED
      BY <1>1, <2>1, <3>2, <3>3, <3>4, <3>5, <3>6, <3>7, NewPollBudgets DEF PostPlaces
  <2>4. QED
    BY <1>1, <1>3, <2>2, <2>3 DEF PostReply
<1>4. QED
  BY <1>2, <1>3

\* _poll_order() returns, and what follows it.
LEMMA CallerReturnsBudgets ==
  ASSUME IInv, IInv', Backed, Budgets, NEW k, NEW r, PollReturns \/ ResidualDone(k, r) PROVE Budgets'
<1>1. UNCHANGED <<exch, used, trk, done, worker>> /\ polls' \subseteq polls
  BY DEF PollReturns, ResidualDone, EndPoll, exchVars, workVars
<1>2. caller'.at \in {"idle", "confirming"}
  <2> PICK t : t = caller.order
    OBVIOUS
  <2> PICK c : c = [caller EXCEPT !.at = "confirming", !.size = FilledShares(trk[t])]
    OBVIOUS
  <2>1. c.at = "confirming" /\ Idle.at = "idle"
    BY DEF IInv, TypeOK, Idle
  <2>2. caller' = Idle \/ caller' = c
    BY DEF PollReturns, ResidualDone, BuyReturns, SellReturns
  <2>3. QED
    BY <2>1, <2>2
<1>3. CallerCalm
  BY <1>2 DEF CallerCalm, PostPlaces
<1>4. QED
  BY <1>1, <1>3, CallerBudgets

\* The fallback FAK of close_position() is answered.
LEMMA FallbackFakDoneBudgets ==
  ASSUME IInv, IInv', Backed, Budgets, NEW k, NEW r, FallbackFakDone(k, r) PROVE Budgets'
<1>1. /\ caller.at = "fallbackFak" /\ UNCHANGED <<exch, used, done, polls, worker>>
      /\ caller \in CallerType
  BY DEF FallbackFakDone, workVars, IInv, TypeOK, CallerType
<1>2. \A u \in Id : trk'[u].side = trk[u].side /\ trk'[u].reprices = trk[u].reprices
  <2>1. CASE trk' = trk
    BY <2>1
  <2>2. CASE trk' = [t \in Id |-> IF t \in active THEN [trk[t] EXCEPT !.status = "CANCELLED"] ELSE trk[t]]
    <3>1. ASSUME NEW u \in Id
          PROVE  /\ [trk[u] EXCEPT !.status = "CANCELLED"].side = trk[u].side
                 /\ [trk[u] EXCEPT !.status = "CANCELLED"].reprices = trk[u].reprices
      BY Basics DEF TrackedOrder
    <3>2. \A u \in Id : trk'[u] = IF u \in active THEN [trk[u] EXCEPT !.status = "CANCELLED"] ELSE trk[u]
      BY <2>2
    <3>3. QED
      BY <3>1, <3>2
  <2>3. QED
    BY <2>1, <2>2 DEF FallbackFakDone
<1>3. CallerCalm
  <2> PICK c : c = [caller EXCEPT !.at = "exit", !.tries = 0]
    OBVIOUS
  <2> PICK p : p = [caller EXCEPT !.tries = @ - 1]
    OBVIOUS
  <2>1. /\ c.at = "exit" /\ c.side = caller.side /\ Idle.at = "idle"
        /\ p.at = "fallbackFak" /\ p.side = caller.side
    BY <1>1 DEF CallerType, Idle
  <2>2. caller' = Idle \/ (caller' \in {c, p} /\ result' = result)
    BY DEF FallbackFakDone, SellReturns
  <2>3. CASE caller' = Idle
    BY <2>1, <2>3 DEF CallerCalm, PostPlaces
  <2>4. CASE caller' \in {c, p} /\ result' = result
    <3>1. AttemptsLeft' <= AttemptsLeft
      <4>1. AttemptsLeft = 0
        BY <1>1 DEF AttemptsLeft
      <4>2. caller'.at \in {"exit", "fallbackFak"}
        BY <2>1, <2>4
      <4>3. AttemptsLeft' = 0
        BY <4>2 DEF AttemptsLeft
      <4>4. QED
        BY <4>1, <4>3
    <3>2. caller.side = "SELL"
      BY <1>1 DEF Backed, CallerBacked
    <3>3. QED
      BY <1>1, <2>1, <2>4, <3>1, <3>2 DEF CallerCalm, PostPlaces
  <2>5. QED
    BY <2>2, <2>3, <2>4
<1>4. QED
  BY <1>1, <1>2, <1>3, Basics, CallerBudgets

\* The last order of close_position() is answered.
LEMMA ExitReplyBudgets == ASSUME IInv, IInv', Backed, Budgets, ExitReply PROVE Budgets'
<1> DEFINE o == caller.order
           n == caller.size
           st == IF caller.reply = "matched" THEN "FILLED" ELSE "PENDING"
           f == IF st = "FILLED" THEN n ELSE 0
<1>1. /\ caller.at = "exitPosted" /\ caller' = Idle
      /\ UNCHANGED <<exch, used, done, worker>>
  BY DEF ExitReply, exchVars, workVars, SellReturns
<1>2. caller'.at = "idle"
  BY <1>1 DEF Idle
<1>3. CallerCalm
  BY <1>2 DEF CallerCalm, PostPlaces
<1>4. CASE caller.reply = "none"
  <2>1. UNCHANGED <<trk, polls>>
    BY <1>4 DEF ExitReply
  <2>2. QED
    BY <1>1, <1>3, <2>1, CallerBudgets
<1>5. CASE caller.reply # "none"
  <2>1. o \in 1..used /\ o \in Id /\ o \notin polls /\ o # None
    BY <1>1, <1>5, Basics DEF CallerPosted, IInv, PostedIsFresh, Unanswered, Fresh, None
  <2> PICK q : q = NewTracked(o, "SELL", n, st, f)
    OBVIOUS
  <2>2. trk' = [trk EXCEPT ![o] = q] /\ (polls' = polls \/ polls' = polls \cup {o})
    BY <1>5 DEF ExitReply, StartPoll
  <2>3. trk'[o] = q /\ \A u \in polls : trk'[u] = trk[u]
    BY <2>1, <2>2, Basics
  <2>4. q.reprices = 0 /\ q.side = "SELL"
    BY DEF NewTracked
  <2>5. /\ Orders(exch[o].root) <= PlaceAttempts + 1
        /\ \A t \in Waits : exch[t].root # exch[o].root
        /\ exch[exch[o].root].side = "SELL"
    <3>1. CallerRoot = exch[o].root /\ exch[o].root # None
      BY <1>1, <2>1, RootFound DEF CallerRoot, None
    <3>2. CallerLimit = PlaceAttempts + 1 /\ AttemptsLeft = 0
      BY <1>1 DEF CallerLimit, AttemptsLeft
    <3>3. Orders(exch[o].root) \in Nat
      BY OrdersIsNat DEF IInv
    <3>4. QED
      BY <1>1, <3>1, <3>2, <3>3 DEF Budgets, CallerBudget, PostPlaces
  <2>6. Waits' \subseteq Waits \cup {o} /\ Waits \subseteq polls
    BY <1>1, <2>2 DEF Waits
  <2>7. QED
    BY <1>1, <1>2, <2>1, <2>3, <2>4, <2>5, <2>6, NewPollBudgets DEF PostPlaces
<1>6. QED
  BY <1>4, <1>5
\* Budgets holds before the first order.
LEMMA InitBudgets == Init => Budgets
<1> SUFFICES ASSUME Init PROVE Budgets
  OBVIOUS
<1>1. polls = {} /\ Waits = {} /\ used = 0 /\ 1..used = {} /\ caller.at = "idle" /\ MaxReprice \in Nat
  BY OrderEngineAssumption DEF Init, Waits, Idle, OrderEngineAssumption
<1>2. Budget /\ RepriceBudget /\ SideBudget /\ CallerBudget
  BY <1>1 DEF Budget, RepriceBudget, SideBudget, CallerBudget, PostPlaces
<1>3. OrdersPerRequest
  BY <1>1 DEF OrdersPerRequest
<1>5. QED
  BY <1>2, <1>3 DEF Budgets

\* Every step keeps Budgets.
LEMMA NextBudgets == ASSUME IInv, Backed, Budgets, [Next]_vars PROVE Budgets'
<1>0. IInv'
  BY NextInv
<1>1. CASE UNCHANGED vars
  BY <1>0, <1>1, IdleStepsBudgets
<1>2. CASE ExchangeNext
  <2>1. PICK o \in Id : \/ \E k \in 1..Size : Fill(o, k) \/ DeliverTradeMessage(o, k)
                        \/ ExchangeCancels(o) \/ DeliverOrderMessage(o)
    BY <1>2 DEF ExchangeNext
  <2>2. PolyMin \in 1..Size
    BY OrderEngineAssumption DEF OrderEngineAssumption
  <2>3. QED
    BY <1>0, <2>1, <2>2, ExchangeBudgets
<1>3. CASE WorkerNext
  <2>1. CASE TakeOrderEvent \/ TakeTimer \/ TimerDone
    BY <1>0, <2>1, TakeOrderEventBudgets, IdleStepsBudgets
  <2>2. ASSUME NEW t \in Id, TimerSkips(t) \/ StartReprice(t) \/ PricesDone(t) \/ RecoverDone(t)
        PROVE  Budgets'
    BY <1>0, <2>2, IdleStepsBudgets, StartRepriceBudgets, PricesDoneBudgets, RecoverDoneBudgets
  <2>3. ASSUME NEW t \in Id, NEW k \in 0..Size, NEW r \in 0..Size,
               FakDone(t, k, r) \/ RecoverFakDone(t, k, r)
        PROVE  Budgets'
    <3>1. r \in Nat
      OBVIOUS
    <3>2. QED
      BY <1>0, <2>3, <3>1, FakDoneBudgets, RecoverFakDoneBudgets
  <2>4. ASSUME NEW t \in Id, NEW how \in Hows, Replace(t, how) \/ EmergencyBuy(t, how)
        PROVE  Budgets'
    BY <1>0, <2>4, ReplaceBudgets
  <2>5. ASSUME NEW t \in Id, ReplaceDone(t) \/ EmergencyBuyDone(t)
        PROVE  Budgets'
    BY <1>0, <2>5, ReplaceDoneBudgets, EmergencyBuyDoneBudgets
  <2>6. QED
    BY <1>3, <2>1, <2>2, <2>3, <2>4, <2>5 DEF WorkerNext
<1>4. CASE CallerNext
  <2>1. ASSUME NEW how \in Hows, Execute(how) \/ PlaceSell(how) \/ ExitPost(how)
        PROVE  Budgets'
    BY <1>0, <2>1, RequestBudgets
  <2>2. CASE ClosePosition \/ PostReply \/ PollReturns \/ BuyConfirms \/ ExitReply
    BY <1>0, <2>2, ClosePositionBudgets, BuyConfirmsBudgets, PostReplyBudgets, CallerReturnsBudgets,
       ExitReplyBudgets
  <2>3. ASSUME NEW k \in 0..Size, NEW r \in 0..Size, ResidualDone(k, r) \/ FallbackFakDone(k, r)
        PROVE  Budgets'
    BY <1>0, <2>3, CallerReturnsBudgets, FallbackFakDoneBudgets
  <2>4. QED
    BY <1>4, <2>1, <2>2, <2>3 DEF CallerNext
<1>5. CASE PollNext
  BY <1>0, <1>5, IdleStepsBudgets DEF PollNext
<1>6. CASE TimeNext
  BY <1>0, <1>6, IdleStepsBudgets DEF TimeNext
<1>7. QED
  BY <1>1, <1>2, <1>3, <1>4, <1>5, <1>6 DEF Next

\* The step that combines them with IInv and Backed.
LEMMA BudgetsAlways == Spec => []Budgets
<1>1. IInv /\ Backed /\ Budgets /\ [Next]_vars => IInv' /\ Backed' /\ Budgets'
  BY NextInv, NextBacked, NextBudgets
<1>2. QED
  BY <1>1, InitInv, InitBacked, InitBudgets, PTL DEF Spec

\* One request has at most as many orders accepted as it has attempts to place the
\* first, reprices and one emergency order, however often its order is repriced,
\* cancelled or lost, and whichever answers are lost.
THEOREM RequestsPlaceFewOrders == Spec => []OrdersPerRequest
<1>1. Budgets => OrdersPerRequest
  BY DEF Budgets
<1>2. QED
  BY <1>1, BudgetsAlways, PTL
===============================================================================
