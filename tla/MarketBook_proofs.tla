--------------------------- MODULE MarketBook_proofs ---------------------------
(***************************************************************************)
(* Proofs about MarketBook, for any prices, modes and bounds.              *)
(*                                                                         *)
(* A clean snapshot is current whatever the messages say (SInv): the       *)
(* levels change only in a step that marks it, and none is computed        *)
(* across such a step.  Of a numbered message with several changes the     *)
(* cache applies only the first (FirstIsApplied), of one without a number  *)
(* all of them (AllAreApplied); the levels follow the exchange's but for   *)
(* those that are untold for this reason.  The invariant BInv says how     *)
(* each message follows the one before (Chain), that what is under way     *)
(* goes on where the cache stopped, or starts with a whole book (NetIs),   *)
(* and which levels an early best_bid_ask message may have brought before  *)
(* they are told (Held).                                                   *)
(***************************************************************************)
EXTENDS MarketBook, FiniteSetTheorems, WellFoundedInduction, TLAPS

---------------------------------------------------------------------------
(* The best prices. *)

\* A non-empty set of naturals has a least element.
LEMMA LeastNat ==
  ASSUME NEW T \in SUBSET Nat, T # {}
  PROVE  \E n \in T : \A m \in T : n <= m
<1> DEFINE R == {ss \in Nat \X Nat : ss[1] < ss[2]}
<1>1. IsWellFoundedOn(R, Nat)
  BY NatLessThanWellFounded DEF OpToRel
<1>2. \A m, k \in Nat : m < k => <<m, k>> \in R
  OBVIOUS
<1> HIDE DEF R
<1>3. PICK n \in T : \A m \in T : ~(<<m, n>> \in R)
  <2>1. T \subseteq Nat
    OBVIOUS
  <2>2. QED
    BY <1>1, <2>1, WFMin
<1>4. ASSUME NEW m \in T PROVE n <= m
  <2>1. n \in Nat /\ m \in Nat /\ ~(<<m, n>> \in R)
    BY <1>3
  <2>2. ~(m < n)
    BY <2>1, <1>2
  <2>3. QED
    BY <2>1, <2>2
<1>5. QED
  BY <1>4

\* The least and the greatest of bounded numbers are among them.
LEMMA MinIs ==
  ASSUME NEW T \in SUBSET Nat, T # {}
  PROVE  Min(T) \in T /\ \A m \in T : Min(T) <= m
<1>1. \E n \in T : \A m \in T : n <= m
  BY LeastNat
<1>2. QED
  BY <1>1 DEF Min

\* ... and the greatest of bounded ones.
LEMMA MaxIs ==
  ASSUME NEW b \in Nat, NEW T \in SUBSET (0..b), T # {}
  PROVE  Max(T) \in T /\ \A m \in T : m <= Max(T)
<1> DEFINE D == {d \in 0..b : b - d \in T}
<1>1. \A t \in T : b - t \in D /\ t \in 0..b
  <2>1. ASSUME NEW t \in T PROVE b - t \in D /\ t \in 0..b
    <3>1. t \in 0..b /\ b - t \in 0..b /\ b - (b - t) = t
      OBVIOUS
    <3>2. QED
      BY <3>1
  <2>2. QED
    BY <2>1
<1>2. D # {} /\ D \in SUBSET Nat
  <2>1. PICK t \in T : TRUE
    OBVIOUS
  <2>2. b - t \in D
    BY <1>1
  <2>3. D \subseteq Nat
    OBVIOUS
  <2>4. QED
    BY <2>2, <2>3
<1>3. PICK d \in D : \A e \in D : d <= e
  BY <1>2, LeastNat
<1>4. b - d \in T /\ d \in 0..b
  OBVIOUS
<1>5. \A t \in T : t <= b - d
  <2>1. ASSUME NEW t \in T PROVE t <= b - d
    <3>1. d <= b - t /\ t \in 0..b
      BY <1>1, <1>3
    <3>2. QED
      BY <3>1, <1>4
  <2>2. QED
    BY <2>1
<1>6. \E x \in T : \A y \in T : x >= y
  BY <1>4, <1>5
<1>7. Max(T) \in T /\ \A y \in T : Max(T) >= y
  BY <1>6 DEF Max
<1>8. T \subseteq Int
  OBVIOUS
<1>9. QED
  BY <1>7, <1>8

\* The later of a message and the first one.
LEMMA MaxOfTwo == ASSUME NEW n \in Int PROVE Max({1, n}) = IF n > 1 THEN n ELSE 1
<1>1. CASE n > 1
  <2>1. \E x \in {1, n} : \A y \in {1, n} : x >= y
    BY <1>1
  <2>2. Max({1, n}) \in {1, n} /\ \A y \in {1, n} : Max({1, n}) >= y
    BY <2>1 DEF Max
  <2>3. QED
    BY <2>2, <1>1
<1>2. CASE ~(n > 1)
  <2>1. \E x \in {1, n} : \A y \in {1, n} : x >= y
    BY <1>2
  <2>2. Max({1, n}) \in {1, n} /\ \A y \in {1, n} : Max({1, n}) >= y
    BY <2>1 DEF Max
  <2>3. QED
    BY <2>2, <1>2
<1>3. QED
  BY <1>1, <1>2

Sides == {"bids", "asks"}
Book == [bids : SUBSET Prices, asks : SUBSET Prices]

\* Prices are between 0 and the ceiling.
LEMMA PricesAre ==
  /\ Ceiling \in Nat /\ Prices # {}
  /\ \A p \in Prices : p \in Nat /\ p > 0 /\ p < Ceiling
BY MarketBookAssumption

\* A best price that is told is a level; 0 is told of an empty side.
LEMMA ToldIs ==
  ASSUME NEW b \in Book
  PROVE  /\ Told(b).bid = 0 => b.bids = {}
         /\ Told(b).bid # 0 => Told(b).bid \in b.bids
         /\ Told(b).ask = 0 => b.asks = {}
         /\ Told(b).ask # 0 => Told(b).ask \in b.asks
<1>1. b.bids \subseteq Prices /\ b.asks \subseteq Prices
  BY DEF Book
<1>2. Ceiling \in Nat /\ \A p \in Prices : p \in Nat /\ p > 0 /\ p < Ceiling
  BY PricesAre
<1>3. Told(b).bid = Max(b.bids \cup {0})
  BY DEF Told, Best
<1>4. Told(b).ask = IF b.asks = {} THEN 0 ELSE Min(b.asks \cup {Ceiling})
  BY DEF Told, Best
<1>5. /\ Max(b.bids \cup {0}) \in b.bids \cup {0}
      /\ \A p \in b.bids : p <= Max(b.bids \cup {0})
  <2>1. b.bids \cup {0} \in SUBSET (0..Ceiling)
    <3>1. \A p \in b.bids \cup {0} : p \in 0..Ceiling
      <4>1. \A p \in b.bids : p \in 0..Ceiling
        BY <1>1, <1>2
      <4>2. 0 \in 0..Ceiling
        BY <1>2
      <4>3. QED
        BY <4>1, <4>2
    <3>2. QED
      BY <3>1
  <2>2. PICK T \in SUBSET (0..Ceiling) : T = b.bids \cup {0} /\ T # {}
    BY <2>1
  <2>3. Max(T) \in T /\ \A p \in T : p <= Max(T)
    BY <1>2, <2>2, MaxIs
  <2>4. QED
    BY <2>2, <2>3
<1>6. /\ Min(b.asks \cup {Ceiling}) \in b.asks \cup {Ceiling}
      /\ \A p \in b.asks : Min(b.asks \cup {Ceiling}) <= p
  <2>1. b.asks \cup {Ceiling} \in SUBSET Nat
    BY <1>1, <1>2
  <2>2. QED
    BY <2>1, MinIs
<1>7. Told(b).bid = 0 => b.bids = {}
  <2>1. SUFFICES ASSUME Told(b).bid = 0, NEW p \in b.bids PROVE FALSE
    OBVIOUS
  <2>2. p <= 0 /\ p \in Nat /\ p > 0
    BY <2>1, <1>1, <1>2, <1>3, <1>5
  <2>3. QED
    BY <2>2
<1>8. b.asks # {} => Told(b).ask \in b.asks /\ Told(b).ask # 0
  <2>1. SUFFICES ASSUME NEW p \in b.asks PROVE Told(b).ask \in b.asks /\ Told(b).ask # 0
    OBVIOUS
  <2>2. Told(b).ask \in b.asks \cup {Ceiling} /\ Told(b).ask <= p
    BY <1>4, <1>6
  <2>3. Told(b).ask # Ceiling
    <3>1. p \in Nat /\ p < Ceiling /\ Ceiling \in Nat
      BY <1>1, <1>2
    <3>2. QED
      BY <2>2, <3>1
  <2>4. QED
    BY <2>2, <2>3, <1>1, <1>2
<1>9. QED
  BY <1>3, <1>4, <1>5, <1>7, <1>8

\* What is told of the empty book is told of no other.
LEMMA ToldEmpty == ASSUME NEW b \in Book, Told(b) = Told(Empty) PROVE b = Empty
<1>1. Empty \in Book /\ Empty.bids = {} /\ Empty.asks = {}
  BY DEF Empty, Book
<1>2. Told(Empty).bid = 0 /\ Told(Empty).ask = 0
  BY <1>1, ToldIs
<1>3. b.bids = {} /\ b.asks = {}
  BY <1>2, ToldIs
<1>4. QED
  BY <1>3 DEF Empty, Book

---------------------------------------------------------------------------
(* Changes of levels. *)

Shows(b, level) == level[2] \in b[level[1]]

\* A level is a side and a price.
LEMMA LevelIs ==
  /\ \A side \in Sides, p \in Prices : <<side, p>> \in Levels
  /\ \A level \in Levels : /\ level[1] \in Sides /\ level[2] \in Prices
                           /\ level = <<level[1], level[2]>>
BY DEF Levels, Sides

\* Books that show the same levels are the same.
LEMMA SameBook ==
  ASSUME NEW b \in Book, NEW d \in Book, \A level \in Levels : Shows(b, level) <=> Shows(d, level)
  PROVE  b = d
<1>1. ASSUME NEW side \in Sides, NEW p \in Prices PROVE p \in b[side] <=> p \in d[side]
  <2>1. <<side, p>> \in Levels /\ <<side, p>>[1] = side /\ <<side, p>>[2] = p
    BY LevelIs
  <2>2. QED
    BY <2>1 DEF Shows
<1>2. b.bids \subseteq Prices /\ d.bids \subseteq Prices /\ b.asks \subseteq Prices /\ d.asks \subseteq Prices
  BY DEF Book
<1>3. b.bids = d.bids
  BY <1>1, <1>2 DEF Sides
<1>4. b.asks = d.asks
  BY <1>1, <1>2 DEF Sides
<1>5. QED
  BY <1>3, <1>4 DEF Book

\* A change adds its level or takes it away, and leaves the others.
LEMMA ChangedIs ==
  ASSUME NEW b \in Book, NEW c \in Change
  PROVE  /\ Changed(b, c) \in Book
         /\ \A level \in Levels :
              Shows(Changed(b, c), level) <=> IF LevelOf(c) = level THEN c.present ELSE Shows(b, level)
<1>1. c.side \in Sides /\ c.price \in Prices /\ c.present \in BOOLEAN
  BY DEF Change, Sides
<1>2. /\ Changed(b, c) \in Book
      /\ \A s \in Sides :
           Changed(b, c)[s] = IF s # c.side THEN b[s]
                              ELSE IF c.present THEN b[s] \cup {c.price} ELSE b[s] \ {c.price}
  BY <1>1 DEF Book, Sides, Changed
<1>3. ASSUME NEW level \in Levels
      PROVE  Shows(Changed(b, c), level) <=> IF LevelOf(c) = level THEN c.present ELSE Shows(b, level)
  <2>1. PICK s \in Sides, p \in Prices : s = level[1] /\ p = level[2] /\ level = <<s, p>>
    BY LevelIs
  <2>2. LevelOf(c) = level <=> c.side = s /\ c.price = p
    BY <2>1 DEF LevelOf
  <2>3. Shows(Changed(b, c), level) <=> p \in Changed(b, c)[s]
    BY <2>1 DEF Shows
  <2>4. Shows(b, level) <=> p \in b[s]
    BY <2>1 DEF Shows
  <2>5. p \in Changed(b, c)[s] <=> IF c.side = s /\ c.price = p THEN c.present ELSE p \in b[s]
    <3>1. CASE s # c.side
      BY <1>2, <2>1, <3>1
    <3>2. CASE s = c.side /\ c.present
      <4>1. Changed(b, c)[s] = b[s] \cup {c.price}
        BY <1>2, <3>2
      <4>2. QED
        BY <3>2, <4>1
    <3>3. CASE s = c.side /\ ~c.present
      <4>1. Changed(b, c)[s] = b[s] \ {c.price}
        BY <1>2, <3>3
      <4>2. QED
        BY <3>3, <4>1
    <3>4. QED
      BY <3>1, <3>2, <3>3
  <2>6. QED
    BY <2>2, <2>3, <2>4, <2>5
<1>4. QED
  BY <1>2, <1>3

\* What some of the changes of a message make of a level: the last one of it counts.
Says(b, cs, part, level) ==
  IF \E x \in part : LevelOf(cs[x]) = level
    THEN cs[Max({x \in part : LevelOf(cs[x]) = level})].present ELSE Shows(b, level)

\* ... and of a book.
Final(b, cs, part) ==
  [bids |-> {p \in Prices : Says(b, cs, part, <<"bids", p>>)},
   asks |-> {p \in Prices : Says(b, cs, part, <<"asks", p>>)}]

LEMMA FinalIs ==
  ASSUME NEW b, NEW cs, NEW part
  PROVE  /\ Final(b, cs, part) \in Book
         /\ \A level \in Levels : Shows(Final(b, cs, part), level) <=> Says(b, cs, part, level)
<1>1. PICK x, y : /\ x = {p \in Prices : Says(b, cs, part, <<"bids", p>>)}
                  /\ y = {p \in Prices : Says(b, cs, part, <<"asks", p>>)}
  OBVIOUS
<1>2. x \subseteq Prices /\ y \subseteq Prices /\ Final(b, cs, part) = [bids |-> x, asks |-> y]
  BY <1>1 DEF Final
<1>3. \A p \in Prices : p \in x <=> Says(b, cs, part, <<"bids", p>>)
  BY <1>1
<1>4. \A p \in Prices : p \in y <=> Says(b, cs, part, <<"asks", p>>)
  BY <1>1
<1>5. ASSUME NEW level \in Levels
      PROVE  Shows([bids |-> x, asks |-> y], level) <=> Says(b, cs, part, level)
  <2>1. PICK s \in Sides, p \in Prices : s = level[1] /\ p = level[2] /\ level = <<s, p>>
    BY LevelIs
  <2>2. CASE s = "bids"
    BY <1>3, <2>1, <2>2 DEF Shows
  <2>3. CASE s = "asks"
    BY <1>4, <2>1, <2>3 DEF Shows
  <2>4. QED
    BY <2>2, <2>3 DEF Sides
<1>6. QED
  BY <1>2, <1>5 DEF Book

\* No change leaves the book as it is ...
LEMMA FinalOfNone == ASSUME NEW b \in Book, NEW cs PROVE Final(b, cs, {}) = b
<1>1. \A level \in Levels : Shows(Final(b, cs, {}), level) <=> Shows(b, level)
  BY FinalIs DEF Says
<1>2. Final(b, cs, {}) \in Book
  BY FinalIs
<1>3. QED
  BY <1>1, <1>2, SameBook

\* ... and the last of some changes comes after the others.
LEMMA FinalStep ==
  ASSUME NEW b \in Book, NEW k \in Nat, NEW cs \in [1..k -> Change],
         NEW part \in SUBSET (1..k), NEW x \in part, \A y \in part : y <= x
  PROVE  Final(b, cs, part) = Changed(Final(b, cs, part \ {x}), cs[x])
<1>1. cs[x] \in Change /\ cs[x].present \in BOOLEAN
  BY DEF Change
<1>2. PICK d \in Book : d = Final(b, cs, part \ {x})
  BY FinalIs
<1>3. ASSUME NEW level \in Levels
      PROVE  Shows(Final(b, cs, part), level) <=> Shows(Changed(d, cs[x]), level)
  <2>1. Shows(Final(b, cs, part), level) <=> Says(b, cs, part, level)
    BY FinalIs
  <2>2. Shows(d, level) <=> Says(b, cs, part \ {x}, level)
    BY <1>2, FinalIs
  <2>3. Shows(Changed(d, cs[x]), level)
          <=> IF LevelOf(cs[x]) = level THEN cs[x].present ELSE Shows(d, level)
    BY <1>1, ChangedIs
  <2>4. CASE LevelOf(cs[x]) = level
    <3>1. PICK T : T = {y \in part : LevelOf(cs[y]) = level}
      OBVIOUS
    <3>2. T \in SUBSET (0..k) /\ x \in T
      <4>1. \A y \in T : y \in part /\ y \in 1..k /\ y \in 0..k
        BY <3>1
      <4>2. x \in T
        BY <2>4, <3>1
      <4>3. QED
        BY <4>1, <4>2
    <3>3. Max(T) \in T /\ x <= Max(T)
      BY <3>2, MaxIs
    <3>4. Max(T) = x
      <4>1. Max(T) \in part /\ \A y \in part : y \in 1..k
        BY <3>1, <3>3
      <4>2. Max(T) <= x /\ Max(T) \in 1..k /\ x \in 1..k
        <5>1. PICK z : z = Max(T) /\ z \in part
          BY <4>1
        <5>2. z <= x /\ z \in 1..k /\ x \in 1..k
          BY <5>1
        <5>3. QED
          BY <5>1, <5>2
      <4>3. QED
        BY <3>3, <4>2
    <3>5. Says(b, cs, part, level) = cs[x].present
      BY <2>4, <3>1, <3>4 DEF Says
    <3>6. QED
      BY <2>1, <2>3, <2>4, <3>5
  <2>5. CASE LevelOf(cs[x]) # level
    <3>1. {y \in part : LevelOf(cs[y]) = level} = {y \in part \ {x} : LevelOf(cs[y]) = level}
      BY <2>5
    <3>2. (\E y \in part : LevelOf(cs[y]) = level) <=> (\E y \in part \ {x} : LevelOf(cs[y]) = level)
      BY <2>5
    <3>3. Says(b, cs, part, level) <=> Says(b, cs, part \ {x}, level)
      BY <3>1, <3>2 DEF Says
    <3>4. QED
      BY <2>1, <2>2, <2>3, <2>5, <3>3
  <2>6. QED
    BY <2>4, <2>5
<1>4. Final(b, cs, part) \in Book /\ Changed(d, cs[x]) \in Book
  BY <1>1, FinalIs, ChangedIs
<1>5. QED
  BY <1>2, <1>3, <1>4, SameBook

\* What holds of no position, and of some when it holds without the greatest of
\* them, holds of the first k.
LEMMA OneByOne ==
  ASSUME NEW k \in Nat, NEW P, {} \in P,
         \A s \in SUBSET (1..k) : s # {} /\ s \ {Max(s)} \in P => s \in P
  PROVE  (1..k) \in P
<1> DEFINE T == {n \in Nat : n <= k /\ (1..n) \notin P}
<1>1. SUFFICES ASSUME (1..k) \notin P PROVE FALSE
  OBVIOUS
<1>2. k \in T /\ T \in SUBSET Nat
  BY <1>1
<1>3. PICK n \in T : \A m \in T : n <= m
  BY <1>2, LeastNat
<1>4. n # 0
  <2>1. 1..0 = {}
    OBVIOUS
  <2>2. QED
    BY <2>1
<1>5. n \in Nat /\ n > 0 /\ n <= k /\ n - 1 \in Nat /\ n - 1 \notin T
  BY <1>3, <1>4
<1>6. (1..(n - 1)) \in P
  BY <1>5
<1> HIDE DEF T
<1>7. Max(1..n) = n
  <2>1. (1..n) \in SUBSET (0..n) /\ (1..n) # {} /\ n \in 1..n
    <3>1. n \in 1..n /\ \A y \in 1..n : y \in 0..n
      BY <1>5
    <3>2. QED
      BY <3>1
  <2>2. PICK S \in SUBSET (0..n) : S = 1..n /\ S # {} /\ n \in S
    BY <2>1
  <2>3. Max(S) \in S /\ \A y \in S : y <= Max(S)
    BY <1>5, <2>2, MaxIs
  <2>4. PICK z \in 1..n : z = Max(1..n) /\ n <= z
    BY <2>2, <2>3
  <2>5. QED
    BY <2>4, <1>5
<1>8. (1..n) \ {n} = 1..(n - 1)
  BY <1>5
<1>9. (1..n) \in SUBSET (1..k) /\ (1..n) # {}
  <2>1. n \in 1..n /\ \A y \in 1..n : y \in 1..k
    BY <1>5
  <2>2. QED
    BY <2>1
<1>10. (1..n) \notin P
  BY <1>3 DEF T
<1>11. QED
  BY <1>6, <1>7, <1>8, <1>9, <1>10

\* A running fold over the changes of a message.
Runs(it, b, cs) ==
  it = [s \in SUBSET DOMAIN cs |-> IF s = {} THEN b
                             ELSE LET x == Max(s) IN Changed(it[s \ {x}], cs[x])]

\* The fold of an event is such a running fold.
LEMMA AllChangedRuns ==
  ASSUME NEW b, NEW cs
  PROVE  AllChanged(b, cs) = (CHOOSE it : Runs(it, b, cs))[DOMAIN cs]
BY DEF AllChanged, FoldLeft, MapThenFoldSet, Runs

\* An event makes all its changes.
LEMMA AllChangedIs ==
  ASSUME NEW b \in Book, NEW k \in Nat, NEW cs \in [1..k -> Change]
  PROVE  AllChanged(b, cs) = Final(b, cs, 1..k)
<1> DEFINE w == [s \in SUBSET (1..k) |-> Final(b, cs, s)]
<1>1. DOMAIN cs = 1..k
  OBVIOUS
<1>2. ASSUME NEW s \in SUBSET (1..k), s # {}
      PROVE  w[s] = LET x == Max(s) IN Changed(w[s \ {x}], cs[x])
  <2>1. PICK x : x = Max(s) /\ x \in s /\ \A y \in s : y <= x
    <3>1. s \in SUBSET (0..k)
      OBVIOUS
    <3>2. QED
      BY <3>1, <1>2, MaxIs
  <2>2. Final(b, cs, s) = Changed(Final(b, cs, s \ {x}), cs[x])
    BY <2>1, FinalStep
  <2>3. w[s] = Final(b, cs, s) /\ w[s \ {x}] = Final(b, cs, s \ {x})
    OBVIOUS
  <2>4. QED
    BY <2>1, <2>2, <2>3
<1>3. w[{}] = b
  BY FinalOfNone
<1>4. Runs(w, b, cs)
  BY <1>1, <1>2, <1>3 DEF Runs
<1>5. PICK it : it = (CHOOSE f : Runs(f, b, cs)) /\ Runs(it, b, cs)
  BY <1>4
<1>6. it[{}] = b
  BY <1>5 DEF Runs
<1>7. \A s \in SUBSET (1..k) : s # {} => it[s] = LET x == Max(s) IN Changed(it[s \ {x}], cs[x])
  BY <1>1, <1>5 DEF Runs
<1> HIDE DEF w
<1>8. it[1..k] = w[1..k]
  <2> DEFINE P == {s \in SUBSET (1..k) : it[s] = w[s]}
  <2>1. {} \in P
    BY <1>3, <1>6
  <2>2. \A s \in SUBSET (1..k) : s # {} /\ s \ {Max(s)} \in P => s \in P
    BY <1>2, <1>7
  <2>3. (1..k) \in P
    <3> HIDE DEF P
    <3>1. QED
      BY <2>1, <2>2, OneByOne
  <2>4. QED
    BY <2>3
<1>9. w[1..k] = Final(b, cs, 1..k)
  BY DEF w
<1>10. QED
  BY <1>1, <1>5, <1>8, <1>9, AllChangedRuns

\* A running fold over the changes of a message that is applied.
Applies(it, m) ==
  it = [s \in SUBSET DOMAIN m.changes |->
          IF s = {} THEN [book |-> book, last |-> last]
          ELSE LET x == Max(s) IN ApplyChange(it[s \ {x}], m, m.changes[x])]

\* ... and the fold of a message is that of ApplyChange.
LEMMA AppliedRuns ==
  ASSUME NEW m, m.kind = "price_change"
  PROVE  Applied(m) = (CHOOSE it : Applies(it, m))[DOMAIN m.changes]
BY DEF Applied, FoldLeft, MapThenFoldSet, Applies

\* The fold of a message is any function that makes its changes one by one.
LEMMA AppliedIs ==
  ASSUME NEW m, m.kind = "price_change", NEW k \in Nat, DOMAIN m.changes = 1..k,
         NEW w, Applies(w, m)
  PROVE  Applied(m) = w[1..k]
<1>1. PICK it : it = (CHOOSE f : Applies(f, m)) /\ Applies(it, m)
  OBVIOUS
<1>2. it[{}] = [book |-> book, last |-> last] /\ w[{}] = [book |-> book, last |-> last]
  BY <1>1 DEF Applies
<1>3. \A s \in SUBSET (1..k) : s # {} =>
        it[s] = LET x == Max(s) IN ApplyChange(it[s \ {x}], m, m.changes[x])
  BY <1>1 DEF Applies
<1>4. \A s \in SUBSET (1..k) : s # {} =>
        w[s] = LET x == Max(s) IN ApplyChange(w[s \ {x}], m, m.changes[x])
  BY DEF Applies
<1>5. it[1..k] = w[1..k]
  <2> DEFINE P == {s \in SUBSET (1..k) : it[s] = w[s]}
  <2>1. {} \in P
    BY <1>2
  <2>2. \A s \in SUBSET (1..k) : s # {} /\ s \ {Max(s)} \in P => s \in P
    BY <1>3, <1>4
  <2>3. (1..k) \in P
    <3> HIDE DEF P
    <3>1. QED
      BY <2>1, <2>2, OneByOne
  <2>4. QED
    BY <2>3
<1>6. QED
  BY <1>1, <1>5, AppliedRuns

\* Of a numbered message's changes the first one is applied, if the number is new.
THEOREM FirstIsApplied ==
  ASSUME NEW m, m.kind = "price_change", NEW k \in Nat \ {0}, DOMAIN m.changes = 1..k,
         m.seq \in Nat \ {0}, last \in Nat
  PROVE  Applied(m) = ApplyChange([book |-> book, last |-> last], m, m.changes[1])
<1> DEFINE now == [book |-> book, last |-> last]
           once == ApplyChange(now, m, m.changes[1])
           w == [s \in SUBSET (1..k) |->
                   IF s = {} THEN now ELSE ApplyChange(now, m, m.changes[Min(s)])]
<1>1. ASSUME NEW c, NEW d PROVE ApplyChange(ApplyChange(now, m, c), m, d) = ApplyChange(now, m, c)
  <2>1. CASE Valid(m.seq, last)
    <3>1. ~Valid(m.seq, m.seq)
      BY DEF Valid
    <3>2. ApplyChange(now, m, c).last = m.seq
      BY <2>1 DEF ApplyChange, Remembered
    <3>3. QED
      BY <3>1, <3>2 DEF ApplyChange
  <2>2. CASE ~Valid(m.seq, last)
    BY <2>2 DEF ApplyChange
  <2>3. QED
    BY <2>1, <2>2
<1>2. Applies(w, m)
  <2>1. ASSUME NEW s \in SUBSET (1..k), s # {}
        PROVE  w[s] = LET x == Max(s) IN ApplyChange(w[s \ {x}], m, m.changes[x])
    <3>1. s \in SUBSET (0..k) /\ s \in SUBSET Nat
      OBVIOUS
    <3>2. PICK x : x = Max(s) /\ x \in s /\ \A y \in s : y <= x
      BY <3>1, <2>1, MaxIs
    <3>3. Min(s) \in s /\ \A y \in s : Min(s) <= y
      BY <3>1, <2>1, MinIs
    <3>4. CASE s \ {x} = {}
      <4>1. Min(s) = x
        BY <3>2, <3>3, <3>4
      <4>2. w[s \ {x}] = now /\ w[s] = ApplyChange(now, m, m.changes[Min(s)])
        BY <3>4, <2>1
      <4>3. QED
        BY <3>2, <4>1, <4>2
    <3>5. CASE s \ {x} # {}
      <4>1. s \ {x} \in SUBSET (1..k) /\ s \ {x} \in SUBSET Nat
        <5>1. \A y \in s : y \in 1..k /\ y \in Nat
          OBVIOUS
        <5>2. QED
          BY <5>1
      <4>2. w[s \ {x}] = ApplyChange(now, m, m.changes[Min(s \ {x})])
        BY <4>1, <3>5
      <4>3. Min(s \ {x}) = Min(s)
        <5>1. Min(s \ {x}) \in s \ {x} /\ \A y \in s \ {x} : Min(s \ {x}) <= y
          BY <4>1, <3>5, MinIs
        <5>2. Min(s \ {x}) \in Nat /\ Min(s \ {x}) < x /\ Min(s) \in Nat
          <6>1. PICK a \in Nat, c \in Nat : a = Min(s \ {x}) /\ c = x
            BY <4>1, <5>1, <3>1, <3>2
          <6>2. a <= c /\ a # c
            BY <6>1, <5>1, <3>2
          <6>3. Min(s) \in Nat
            BY <3>1, <3>3
          <6>4. QED
            BY <6>1, <6>2, <6>3
        <5>3. Min(s) <= Min(s \ {x}) /\ Min(s) # x
          BY <5>1, <5>2, <3>1, <3>2, <3>3
        <5>4. Min(s \ {x}) <= Min(s)
          BY <5>1, <5>3, <3>3
        <5>5. QED
          BY <5>2, <5>3, <5>4
      <4>4. w[s] = ApplyChange(now, m, m.changes[Min(s)])
        BY <2>1
      <4>5. ApplyChange(w[s \ {x}], m, m.changes[x]) = w[s]
        BY <4>2, <4>3, <4>4, <1>1
      <4>6. QED
        BY <3>2, <4>5
    <3>6. QED
      BY <3>4, <3>5
  <2>2. w[{}] = now
    OBVIOUS
  <2>3. QED
    BY <2>1, <2>2 DEF Applies
<1>3. w[1..k] = once
  <2>1. (1..k) \in SUBSET Nat /\ 1 \in 1..k /\ (1..k) # {}
    <3>1. \A i \in 1..k : i \in Nat
      OBVIOUS
    <3>2. 1 \in 1..k
      OBVIOUS
    <3>3. QED
      BY <3>1, <3>2
  <2>2. Min(1..k) \in 1..k /\ Min(1..k) <= 1
    BY <2>1, MinIs
  <2>3. Min(1..k) = 1
    BY <2>2
  <2>4. QED
    BY <2>1, <2>3
<1>4. Applied(m) = w[1..k]
  <2> HIDE DEF w
  <2>1. QED
    BY <1>2, AppliedIs
<1>5. QED
  BY <1>3, <1>4

\* Of a message without a number all changes are applied.
THEOREM AllAreApplied ==
  ASSUME NEW m, m.kind = "price_change", NEW k \in Nat, m.changes \in [1..k -> Change],
         m.seq = 0, book \in Book
  PROVE  Applied(m) = [book |-> AllChanged(book, m.changes), last |-> last]
<1> DEFINE w == [s \in SUBSET (1..k) |-> [book |-> Final(book, m.changes, s), last |-> last]]
<1>1. DOMAIN m.changes = 1..k
  OBVIOUS
<1>2. ASSUME NEW s \in SUBSET (1..k), s # {}
      PROVE  w[s] = LET x == Max(s) IN ApplyChange(w[s \ {x}], m, m.changes[x])
  <2>1. PICK x : x = Max(s) /\ x \in s /\ \A y \in s : y <= x
    <3>1. s \in SUBSET (0..k)
      OBVIOUS
    <3>2. QED
      BY <3>1, <1>2, MaxIs
  <2>2. PICK cs \in [1..k -> Change] : cs = m.changes
    OBVIOUS
  <2>3. Final(book, cs, s) = Changed(Final(book, cs, s \ {x}), cs[x])
    BY <2>1, FinalStep
  <2>4. PICK d : d = Final(book, m.changes, s \ {x})
    OBVIOUS
  <2>5. w[s \ {x}] = [book |-> d, last |-> last] /\ w[s] = [book |-> Changed(d, m.changes[x]), last |-> last]
    BY <2>2, <2>3, <2>4
  <2>6. ApplyChange([book |-> d, last |-> last], m, m.changes[x])
          = [book |-> Changed(d, m.changes[x]), last |-> last]
    BY DEF ApplyChange, Valid, Remembered
  <2>7. QED
    BY <2>1, <2>5, <2>6
<1>3. w[{}] = [book |-> book, last |-> last]
  BY FinalOfNone
<1>4. Applies(w, m)
  BY <1>1, <1>2, <1>3 DEF Applies
<1>5. w[1..k] = [book |-> Final(book, m.changes, 1..k), last |-> last]
  OBVIOUS
<1>6. Applied(m) = w[1..k]
  <2> HIDE DEF w
  <2>1. QED
    BY <1>1, <1>4, AppliedIs
<1>7. QED
  BY <1>5, <1>6, AllChangedIs

---------------------------------------------------------------------------
(* Messages. *)

IsSeq(s) == \E S : s \in Seq(S)

\* Two sequences in a row.
LEMMA Joined ==
  ASSUME NEW s, NEW t, IsSeq(s), IsSeq(t)
  PROVE  /\ IsSeq(s \o t) /\ Len(s \o t) = Len(s) + Len(t) /\ Len(s) \in Nat /\ Len(t) \in Nat
         /\ DOMAIN s = 1..Len(s) /\ DOMAIN t = 1..Len(t)
         /\ DOMAIN (s \o t) = 1..(Len(s) + Len(t))
         /\ \A i \in 1..Len(s) : (s \o t)[i] = s[i]
         /\ \A i \in (Len(s) + 1)..(Len(s) + Len(t)) : (s \o t)[i] = t[i - Len(s)]
<1>1. PICK S : s \in Seq(S)
  BY DEF IsSeq
<1>2. PICK T : t \in Seq(T)
  BY DEF IsSeq
<1>3. s \in Seq(S \cup T)
  <2>1. \A i \in 1..Len(s) : s[i] \in S \cup T
    BY <1>1
  <2>2. Len(s) \in Nat /\ DOMAIN s = 1..Len(s) /\ s = [i \in 1..Len(s) |-> s[i]]
    BY <1>1
  <2>3. QED
    BY <2>1, <2>2
<1>4. t \in Seq(S \cup T)
  <2>1. \A i \in 1..Len(t) : t[i] \in S \cup T
    BY <1>2
  <2>2. Len(t) \in Nat /\ DOMAIN t = 1..Len(t) /\ t = [i \in 1..Len(t) |-> t[i]]
    BY <1>2
  <2>3. QED
    BY <2>1, <2>2
<1>5. s \o t \in Seq(S \cup T)
  BY <1>3, <1>4
<1>6. IsSeq(s \o t)
  BY <1>5 DEF IsSeq
<1>7. QED
  BY <1>3, <1>4, <1>5, <1>6

\* One or two messages are a sequence.
LEMMA Short ==
  ASSUME NEW m, NEW n
  PROVE  /\ IsSeq(<<>>) /\ IsSeq(<<m>>) /\ IsSeq(<<m, n>>)
         /\ Len(<<>>) = 0 /\ Len(<<m>>) = 1 /\ Len(<<m, n>>) = 2
         /\ <<m>>[1] = m /\ <<m, n>>[1] = m /\ <<m, n>>[2] = n
         /\ DOMAIN <<>> = {} /\ DOMAIN <<m>> = {1} /\ DOMAIN <<m, n>> = {1, 2}
<1>1. <<>> \in Seq({m, n}) /\ <<m>> \in Seq({m, n}) /\ <<m, n>> \in Seq({m, n})
  OBVIOUS
<1>2. IsSeq(<<>>) /\ IsSeq(<<m>>) /\ IsSeq(<<m, n>>)
  BY <1>1 DEF IsSeq
<1>3. DOMAIN <<>> = {} /\ DOMAIN <<m>> = 1..1 /\ DOMAIN <<m, n>> = 1..2
  OBVIOUS
<1>4. DOMAIN <<m>> = {1} /\ DOMAIN <<m, n>> = {1, 2}
  BY <1>3
<1>5. QED
  BY <1>2, <1>3, <1>4

\* Messages left when the first one is taken, and a part of them.
LEMMA TailIs ==
  ASSUME NEW s, IsSeq(s), s # <<>>
  PROVE  /\ IsSeq(Tail(s)) /\ Len(s) \in Nat \ {0} /\ DOMAIN s = 1..Len(s) /\ Head(s) = s[1]
         /\ Len(Tail(s)) = Len(s) - 1 /\ DOMAIN Tail(s) = 1..(Len(s) - 1)
         /\ \A i \in 1..(Len(s) - 1) : Tail(s)[i] = s[i + 1]
<1>1. PICK S : s \in Seq(S)
  BY DEF IsSeq
<1>2. Tail(s) \in Seq(S)
  BY <1>1
<1>3. QED
  BY <1>1, <1>2 DEF IsSeq

\* ... and the messages after the n-th.
LEMMA PartIs ==
  ASSUME NEW s, IsSeq(s), NEW n \in 1..Len(s)
  PROVE  /\ IsSeq(SubSeq(s, n + 1, Len(s))) /\ Len(s) \in Nat /\ DOMAIN s = 1..Len(s)
         /\ Len(SubSeq(s, n + 1, Len(s))) = Len(s) - n
         /\ \A i \in 1..(Len(s) - n) : SubSeq(s, n + 1, Len(s))[i] = s[n + i]
<1>1. PICK S : s \in Seq(S)
  BY DEF IsSeq
<1>2. Len(s) \in Nat /\ n \in Nat /\ n <= Len(s)
  BY <1>1
<1>3. /\ SubSeq(s, n + 1, Len(s)) \in Seq(S) /\ Len(SubSeq(s, n + 1, Len(s))) = Len(s) - n
      /\ \A i \in 1..(Len(s) - n) : SubSeq(s, n + 1, Len(s))[i] = s[n + i]
  BY <1>1, <1>2
<1>4. IsSeq(SubSeq(s, n + 1, Len(s)))
  BY <1>3 DEF IsSeq
<1>5. QED
  BY <1>1, <1>2, <1>3, <1>4

---------------------------------------------------------------------------
(* Snapshots, whatever the exchange says. *)

Typed == IsSeq(sent) /\ IsSeq(net)

\* Without HTTP nobody asks for a book.
NoFetch == "http" \notin mode => fetch = "idle"

\* A snapshot being computed is of the current levels.
ReaderIsCurrent == "http" \notin mode /\ reader # None => reader = book

SInv == Typed /\ NoFetch /\ ReaderIsCurrent /\ CleanSnapshotIsCurrent

\* What the exchange says of an event is one message or two.
LEMMA EventIs ==
  ASSUME NEW cs, NEW b, NEW ms \in Event(cs, b)
  PROVE  IsSeq(ms) /\ Len(ms) \in {1, 2}
<1>1. \/ ms = <<ChangeMessage(seq + 1, b, cs), BestMessage(seq + 2, b)>>
      \/ ms = <<BestMessage(seq + 1, b), ChangeMessage(seq + 2, b, cs)>>
      \/ ms = <<ChangeMessage(seq + 1, b, cs)>>
  BY DEF Event
<1>2. PICK x, y : ms = <<x>> \/ ms = <<x, y>>
  BY <1>1
<1>3. CASE ms = <<x>>
  BY <1>3, Short
<1>4. CASE ms = <<x, y>>
  BY <1>4, Short
<1>5. QED
  BY <1>2, <1>3, <1>4

\* Messages stay sequences when the exchange says more ...
LEMMA ExchangeTyped ==
  ASSUME Typed, NEW cs, ExchangeChanges(cs)
  PROVE  Typed'
<1>1. PICK b : b = AllChanged(Current, cs)
  OBVIOUS
<1>2. PICK ms \in Event(cs, b) : sent' = sent \o ms /\ net' = IF conn = "up" THEN net \o ms ELSE net
  BY <1>1 DEF ExchangeChanges
<1>3. IsSeq(ms)
  BY EventIs
<1>4. QED
  BY <1>2, <1>3, Joined DEF Typed

\* A connection starts with a book and what has followed.
LEMMA ConnectIs ==
  ASSUME Typed, Connect
  PROVE  \E n \in 1..seq : net' = <<BookMessage(n, AsOf(n))>> \o SubSeq(sent, n + 1, seq)
<1>1. seq \in Nat /\ QueueCap \in Nat
  BY MarketBookAssumption DEF Typed, IsSeq, seq
<1>2. PICK n \in Max({1, seq - QueueCap})..seq :
        net' = <<BookMessage(n, AsOf(n))>> \o SubSeq(sent, n + 1, seq)
  BY DEF Connect
<1>3. Max({1, seq - QueueCap}) = IF seq - QueueCap > 1 THEN seq - QueueCap ELSE 1
  BY <1>1, MaxOfTwo
<1>4. n \in 1..seq
  BY <1>1, <1>3
<1>5. QED
  BY <1>2, <1>4

\* ... and when a connection starts.
LEMMA ConnectTyped == ASSUME Typed, Connect PROVE Typed'
<1>1. PICK n \in 1..seq : net' = <<BookMessage(n, AsOf(n))>> \o SubSeq(sent, n + 1, seq)
  BY ConnectIs
<1>2. IsSeq(SubSeq(sent, n + 1, seq)) /\ IsSeq(<<BookMessage(n, AsOf(n))>>)
  BY PartIs, Short DEF Typed, seq
<1>3. sent' = sent
  BY DEF Connect
<1>4. QED
  BY <1>1, <1>2, <1>3, Joined DEF Typed

\* ... and when a message is taken, which marks the snapshot if it changes the levels.
LEMMA DeliverTyped ==
  ASSUME Typed, Deliver
  PROVE  /\ Typed'
         /\ (book' = book /\ UNCHANGED <<cached, dirty>>) \/ dirty' = TRUE
<1>1. IsSeq(Tail(net)) /\ net' = Tail(net) /\ sent' = sent
  BY TailIs DEF Typed, Deliver
<1>2. QED
  BY <1>1 DEF Deliver, Typed, Touch, bookVars

\* Every step keeps what snapshots need.
LEMMA SNextInv == ASSUME SInv, [Next]_vars PROVE SInv'
<1> USE DEF SInv, NoFetch, ReaderIsCurrent, CleanSnapshotIsCurrent
<1>1. CASE \E n \in 1..MaxChanges : \E cs \in [1..n -> Change] : ExchangeChanges(cs)
  <2>0. PICK n \in 1..MaxChanges : \E cs \in [1..n -> Change] : ExchangeChanges(cs)
    BY <1>1
  <2>1. PICK cs \in [1..n -> Change] : ExchangeChanges(cs)
    BY <2>0
  <2>2. Typed'
    BY <2>1, ExchangeTyped
  <2>3. UNCHANGED <<mode, bookVars, cached, dirty, reader, fetch>>
    BY <2>1 DEF ExchangeChanges
  <2>4. QED
    BY <2>2, <2>3 DEF bookVars
<1>2. CASE Disconnect
  <2>1. net' = <<>> /\ IsSeq(<<>>) /\ DOMAIN <<>> = {}
    BY <1>2, Short DEF Disconnect
  <2>2. QED
    BY <1>2, <2>1 DEF Disconnect, Typed, bookVars
<1>3. CASE Connect
  <2>1. Typed'
    BY <1>3, ConnectTyped
  <2>2. QED
    BY <1>3, <2>1 DEF Connect, bookVars
<1>4. CASE Deliver
  <2>1. /\ Typed' /\ reader = None /\ UNCHANGED <<mode, reader, fetch>>
        /\ \/ book' = book /\ UNCHANGED <<cached, dirty>>
           \/ dirty' = TRUE
    BY <1>4, DeliverTyped DEF Deliver
  <2>2. QED
    BY <2>1
<1>5. CASE Sync
  BY <1>5 DEF Sync, Typed, netVars, bookVars
<1>6. CASE SyncStores
  BY <1>6 DEF SyncStores, StoreSnapshot, Typed, netVars, bookVars
<1>7. CASE FetchBook
  BY <1>7 DEF FetchBook, Typed, netVars, bookVars
<1>8. CASE FetchApplies
  <2>1. "http" \in mode /\ fetch' = "idle" /\ UNCHANGED netVars
    BY <1>8 DEF FetchApplies
  <2>2. QED
    BY <2>1 DEF Typed, netVars
<1>9. CASE FetchFails
  BY <1>9 DEF FetchFails, Typed, netVars, bookVars
<1>10. CASE TimePasses
  BY <1>10 DEF TimePasses, Typed, netVars
<1>11. CASE UNCHANGED vars
  BY <1>11 DEF vars, Typed, netVars, bookVars
<1>12. QED
  BY <1>1, <1>2, <1>3, <1>4, <1>5, <1>6, <1>7, <1>8, <1>9, <1>10, <1>11 DEF Next

\* It holds at first.
LEMMA SInitInv == Init => SInv
<1> SUFFICES ASSUME Init PROVE SInv
  OBVIOUS
<1>1. PICK m : sent = <<m>>
  BY DEF Init
<1>2. Typed
  BY <1>1, Short DEF Init, Typed
<1>3. QED
  BY <1>2 DEF Init, SInv, NoFetch, ReaderIsCurrent, CleanSnapshotIsCurrent

\* A snapshot that is marked clean is that of the current levels, whatever
\* messages came before, while or after it was computed.
THEOREM CleanIsCurrent == Spec => []CleanSnapshotIsCurrent
<1>1. Spec => []SInv
  BY SInitInv, SNextInv, PTL DEF Spec
<1>2. SInv => CleanSnapshotIsCurrent
  BY DEF SInv
<1>3. QED
  BY <1>1, <1>2, PTL

---------------------------------------------------------------------------
(* What the exchange says, one message after another; u: with numbers.     *)

\* Do the messages have numbers?
Numbered == "unnumbered" \notin mode

\* A best_bid_ask message that comes before the levels it speaks of.
Early(s, n) == n \in 2..Len(s) /\ s[n].kind = "best_bid_ask" /\ s[n].after # s[n - 1].after

\* The book that the change of the n-th message changes.
Before(s, n) == IF Early(s, n - 1) THEN s[n - 2].after ELSE s[n - 1].after

TellsChange(s, n) ==
  /\ s[n].kind = "price_change" /\ \E k \in Nat \ {0} : s[n].changes \in [1..k -> Change]
  /\ s[n].after = AllChanged(Before(s, n), s[n].changes)

TellsBest(s, n) ==
  /\ s[n].kind = "best_bid_ask" /\ s[n].best = Told(s[n].after)
  /\ IF Early(s, n)
       THEN n < Len(s) /\ s[n + 1].kind = "price_change" /\ s[n + 1].after = s[n].after
       ELSE s[n - 1].kind = "price_change"

\* The n-th message's place, number and book.
Placed(m, n, u) == m.pos = n /\ m.seq = (IF u THEN n ELSE 0) /\ m.after \in Book

Chain(s, u) ==
  /\ Len(s) \in Nat \ {0} /\ DOMAIN s = 1..Len(s)
  /\ \A n \in 1..Len(s) : Placed(s[n], n, u)
  /\ s[1].kind = "book"
  /\ \A n \in 2..Len(s) : TellsChange(s, n) \/ TellsBest(s, n)

\* The chain goes on with the messages of an event.
LEMMA ChainGrows ==
  ASSUME NEW s, NEW u, Chain(s, u), NEW a \in Nat, a = Len(s), NEW t, NEW d \in Nat, d = Len(t),
         DOMAIN t = 1..d, \A n \in 1..a : t[n] = s[n],
         NEW k \in Nat \ {0}, NEW cs \in [1..k -> Change],
         NEW b, b = AllChanged(s[a].after, cs), b # s[a].after, u <=> Numbered,
         \/ d = a + 1 /\ t[a + 1] = ChangeMessage(a + 1, b, cs)
         \/ d = a + 2 /\ t[a + 1] = ChangeMessage(a + 1, b, cs) /\ t[a + 2] = BestMessage(a + 2, b)
         \/ d = a + 2 /\ t[a + 1] = BestMessage(a + 1, b) /\ t[a + 2] = ChangeMessage(a + 2, b, cs)
  PROVE  Chain(t, u)
<1>0. /\ a > 0 /\ \A n \in 1..a : Placed(s[n], n, u)
      /\ s[1].kind = "book" /\ \A n \in 2..a : TellsChange(s, n) \/ TellsBest(s, n)
  BY DEF Chain
<1>1. a \in 1..a /\ s[a].after \in Book /\ (d = a + 1 \/ d = a + 2)
  BY <1>0 DEF Placed
<1>2. b \in Book
  BY <1>1, AllChangedIs, FinalIs
<1>3. ~Early(s, a)
  BY <1>1 DEF Chain, TellsChange, TellsBest, Early
<1>4. \A n \in 1..a : Early(t, n) <=> Early(s, n)
  BY <1>1 DEF Early
<1>5. ASSUME NEW n \in 2..a PROVE Before(t, n) = Before(s, n)
  <2>1. n - 1 \in 1..a /\ t[n - 1] = s[n - 1] /\ (Early(t, n - 1) <=> Early(s, n - 1))
    BY <1>1, <1>4
  <2>2. Early(s, n - 1) => n - 2 \in 1..a
    BY <1>1 DEF Early
  <2>3. QED
    BY <2>1, <2>2 DEF Before
<1>6. ASSUME NEW n \in 2..a PROVE TellsChange(t, n) \/ TellsBest(t, n)
  <2>1. n \in 1..a /\ n - 1 \in 1..a /\ t[n] = s[n] /\ t[n - 1] = s[n - 1]
    BY <1>1
  <2>2. CASE TellsChange(s, n)
    BY <2>1, <2>2, <1>5 DEF TellsChange
  <2>3. CASE TellsBest(s, n)
    <3>1. Early(s, n) => n + 1 \in 1..a /\ t[n + 1] = s[n + 1] /\ n < d
      BY <1>1, <2>3 DEF TellsBest
    <3>2. QED
      BY <2>1, <2>3, <3>1, <1>4 DEF TellsBest
  <2>4. QED
    BY <2>2, <2>3, <1>1 DEF Chain
<1>7. Before(t, a + 1) = s[a].after
  BY <1>1, <1>3, <1>4 DEF Before
<1>8. ASSUME NEW n \in {a + 1, a + 2}, t[n] = ChangeMessage(n, b, cs), Before(t, n) = s[a].after
      PROVE  TellsChange(t, n)
  BY <1>8 DEF TellsChange, ChangeMessage
<1>9. ASSUME NEW n
       PROVE  Placed(ChangeMessage(n, b, cs), n, u) /\ Placed(BestMessage(n, b), n, u)
  BY <1>2 DEF Placed, ChangeMessage, BestMessage, Number, Numbered
<1>10. \A n \in (a + 1)..d :
        Placed(t[n], n, u) /\ t[n].after = b /\ (TellsChange(t, n) \/ TellsBest(t, n))
  <2>1. CASE d = a + 1 /\ t[a + 1] = ChangeMessage(a + 1, b, cs)
    <3>1. TellsChange(t, a + 1)
      BY <2>1, <1>7, <1>8
    <3>2. Placed(t[a + 1], a + 1, u)
      <4> HIDE DEF Placed
      <4>1. QED
        BY <2>1, <1>9
    <3>3. t[a + 1].after = b
      BY <2>1 DEF ChangeMessage
    <3>4. \A n \in (a + 1)..d : n = a + 1
      BY <2>1, <1>1
    <3>5. QED
      BY <3>1, <3>2, <3>3, <3>4
  <2>2. CASE d = a + 2 /\ t[a + 1] = ChangeMessage(a + 1, b, cs) /\ t[a + 2] = BestMessage(a + 2, b)
    <3>1. TellsChange(t, a + 1)
      BY <2>2, <1>7, <1>8
    <3>0. Placed(t[a + 1], a + 1, u) /\ Placed(t[a + 2], a + 2, u)
      <4> HIDE DEF Placed
      <4>1. QED
        BY <2>2, <1>9
    <3>2. /\ t[a + 1].after = b /\ t[a + 1].kind = "price_change"
          /\ t[a + 2].after = b /\ t[a + 2].kind = "best_bid_ask"
          /\ t[a + 2].best = Told(b)
      BY <2>2 DEF ChangeMessage, BestMessage
    <3>3. ~Early(t, a + 2) /\ (a + 2) - 1 = a + 1
      BY <3>2, <1>1 DEF Early
    <3>4. TellsBest(t, a + 2)
      BY <3>2, <3>3 DEF TellsBest
    <3>5. \A n \in (a + 1)..d : n = a + 1 \/ n = a + 2
      BY <2>2, <1>1
    <3>6. QED
      BY <3>0, <3>1, <3>2, <3>4, <3>5
  <2>3. CASE d = a + 2 /\ t[a + 1] = BestMessage(a + 1, b) /\ t[a + 2] = ChangeMessage(a + 2, b, cs)
    <3>0. Placed(t[a + 1], a + 1, u) /\ Placed(t[a + 2], a + 2, u)
      <4> HIDE DEF Placed
      <4>1. QED
        BY <2>3, <1>9
    <3>1. /\ t[a + 1].after = b /\ t[a + 1].kind = "best_bid_ask" /\ t[a + 1].best = Told(b)
          /\ t[a + 2].after = b /\ t[a + 2].kind = "price_change"
      BY <2>3 DEF ChangeMessage, BestMessage
    <3>2. (a + 2) - 1 = a + 1 /\ (a + 2) - 2 = a /\ (a + 1) - 1 = a /\ (a + 1) + 1 = a + 2
          /\ t[a] = s[a] /\ a + 1 \in 2..d /\ a + 1 < d
      BY <2>3, <1>1
    <3>3. Early(t, a + 1)
      BY <3>1, <3>2 DEF Early
    <3>4. TellsBest(t, a + 1)
      BY <3>1, <3>2, <3>3 DEF TellsBest
    <3>5. Before(t, a + 2) = s[a].after
      BY <3>2, <3>3 DEF Before
    <3>6. TellsChange(t, a + 2)
      BY <2>3, <3>5, <1>8
    <3>7. \A n \in (a + 1)..d : n = a + 1 \/ n = a + 2
      BY <2>3, <1>1
    <3>8. QED
      BY <3>0, <3>1, <3>4, <3>6, <3>7
  <2>4. QED
    BY <2>1, <2>2, <2>3
<1>11. \A n \in 1..d : n \in 1..a \/ n \in (a + 1)..d
  BY <1>1
<1>12. \A n \in 2..d : n \in 2..a \/ n \in (a + 1)..d
  BY <1>1
<1>13. \A n \in 1..d : Placed(t[n], n, u)
  BY <1>2, <1>10, <1>11 DEF Chain
<1>14. t[1].kind = "book" /\ d \in Nat \ {0}
  BY <1>1 DEF Chain
<1>15. \A n \in 2..d : TellsChange(t, n) \/ TellsBest(t, n)
  BY <1>6, <1>10, <1>12
<1>16. QED
  BY <1>13, <1>14, <1>15 DEF Chain


---------------------------------------------------------------------------
(* Levels that are untold, and what the cache makes of what it is told.    *)

\* Untold(n), of any messages.
UntoldIn(s, n, u) ==
  {level \in Levels :
     /\ u
     /\ \E i \in 2..n :
          /\ s[i].kind = "price_change"
          /\ \E k \in DOMAIN s[i].changes \ {1} : LevelOf(s[i].changes[k]) = level
          /\ \A j \in (i + 1)..n :
               s[j].kind = "price_change" => LevelOf(s[j].changes[1]) # level}

LEMMA UntoldIs == ASSUME NEW n PROVE Untold(n) = UntoldIn(sent, n, Numbered)
BY DEF Untold, UntoldIn, Numbered

\* A level stays untold until a message changes it first.
LEMMA UntoldStays ==
  ASSUME NEW s, NEW u, NEW n \in Nat, n >= 2, NEW level \in Levels, level \notin UntoldIn(s, n, u),
         s[n].kind = "price_change" => LevelOf(s[n].changes[1]) # level
  PROVE  level \notin UntoldIn(s, n - 1, u)
<1>1. SUFFICES ASSUME level \in UntoldIn(s, n - 1, u) PROVE level \in UntoldIn(s, n, u)
  OBVIOUS
<1>2. u
  BY <1>1 DEF UntoldIn
<1>3. PICK i \in 2..(n - 1) :
        /\ s[i].kind = "price_change"
        /\ \E k \in DOMAIN s[i].changes \ {1} : LevelOf(s[i].changes[k]) = level
        /\ \A j \in (i + 1)..(n - 1) : s[j].kind = "price_change" => LevelOf(s[j].changes[1]) # level
  BY <1>1 DEF UntoldIn
<1>4. i \in 2..n /\ \A j \in (i + 1)..n : j \in (i + 1)..(n - 1) \/ j = n
  OBVIOUS
<1>5. \A j \in (i + 1)..n : s[j].kind = "price_change" => LevelOf(s[j].changes[1]) # level
  BY <1>3, <1>4
<1>6. QED
  BY <1>2, <1>3, <1>4, <1>5 DEF UntoldIn

\* The later changes of a message leave levels untold.
LEMMA UntoldLater ==
  ASSUME NEW s, NEW n \in Nat, n >= 2, s[n].kind = "price_change",
         NEW k \in DOMAIN s[n].changes \ {1}, LevelOf(s[n].changes[k]) \in Levels
  PROVE  LevelOf(s[n].changes[k]) \in UntoldIn(s, n, TRUE)
<1>1. n \in 2..n /\ \A j \in (n + 1)..n : FALSE
  OBVIOUS
<1>2. QED
  BY <1>1 DEF UntoldIn

\* What is untold does not depend on what is said later.
LEMMA UntoldSame ==
  ASSUME NEW s, NEW t, NEW u, NEW n \in Nat, \A i \in 1..n : t[i] = s[i]
  PROVE  UntoldIn(t, n, u) = UntoldIn(s, n, u)
<1>1. \A i \in 2..n : i \in 1..n /\ \A j \in (i + 1)..n : j \in 1..n
  OBVIOUS
<1>2. \A i \in 2..n : t[i] = s[i] /\ \A j \in (i + 1)..n : t[j] = s[j]
  BY <1>1
<1>3. QED
  BY <1>2 DEF UntoldIn

\* What the cache makes of the changes of a message.
Made(b, cs, u) == IF u THEN Changed(b, cs[1]) ELSE AllChanged(b, cs)

\* Of a level that is told, it makes what the exchange has made of it.
LEMMA Effect ==
  ASSUME NEW s, NEW u, u \in BOOLEAN, NEW n \in Nat, n >= 2, s[n].kind = "price_change",
         NEW k \in Nat \ {0}, s[n].changes \in [1..k -> Change],
         NEW b \in Book, NEW d \in Book, NEW level \in Levels, level \notin UntoldIn(s, n, u)
  PROVE  \/ Shows(Made(b, s[n].changes, u), level) <=> Shows(AllChanged(d, s[n].changes), level)
         \/ /\ level \notin UntoldIn(s, n - 1, u)
            /\ Shows(Made(b, s[n].changes, u), level) <=> Shows(b, level)
            /\ Shows(AllChanged(d, s[n].changes), level) <=> Shows(d, level)
<1>1. PICK cs \in [1..k -> Change] : cs = s[n].changes
  OBVIOUS
<1>2. 1 \in 1..k /\ cs[1] \in Change /\ DOMAIN cs = 1..k
  OBVIOUS
<1>3. Shows(AllChanged(d, cs), level) <=> Says(d, cs, 1..k, level)
  BY AllChangedIs, FinalIs
<1>4. Shows(AllChanged(b, cs), level) <=> Says(b, cs, 1..k, level)
  BY AllChangedIs, FinalIs
<1>5. Shows(Changed(b, cs[1]), level) <=> IF LevelOf(cs[1]) = level THEN cs[1].present ELSE Shows(b, level)
  BY <1>2, ChangedIs
<1>6. ASSUME u, NEW x \in 1..k, LevelOf(cs[x]) = level PROVE x = 1
  <2>1. SUFFICES ASSUME x # 1 PROVE FALSE
    OBVIOUS
  <2>2. x \in DOMAIN s[n].changes \ {1} /\ LevelOf(s[n].changes[x]) \in Levels /\ (u <=> TRUE)
    BY <1>1, <1>2, <1>6, <2>1
  <2>3. level \in UntoldIn(s, n, TRUE)
    BY <1>1, <1>6, <2>2, UntoldLater
  <2>4. u = TRUE
    BY <1>6
  <2>5. QED
    BY <2>3, <2>4
<1>7. CASE \E x \in 1..k : LevelOf(cs[x]) = level
  <2>1. Says(d, cs, 1..k, level) <=> Says(b, cs, 1..k, level)
    BY <1>7 DEF Says
  <2>2. CASE ~u
    BY <1>1, <1>3, <1>4, <2>1, <2>2 DEF Made
  <2>3. CASE u
    <3>1. LevelOf(cs[1]) = level
      BY <1>6, <1>7, <2>3
    <3>2. PICK T \in SUBSET (0..k) : T = {x \in 1..k : LevelOf(cs[x]) = level}
      <4>1. \A x \in 1..k : x \in 0..k
        OBVIOUS
      <4>2. {x \in 1..k : LevelOf(cs[x]) = level} \in SUBSET (0..k)
        BY <4>1
      <4>3. QED
        BY <4>2
    <3>3. \A x \in T : x = 1
      BY <1>6, <2>3, <3>2
    <3>4. T # {}
      BY <1>2, <3>1, <3>2
    <3>5. Max(T) = 1
      BY <3>3, <3>4, MaxIs
    <3>6. Says(d, cs, 1..k, level) <=> cs[1].present
      BY <1>7, <3>2, <3>5 DEF Says
    <3>7. QED
      BY <1>1, <1>3, <1>5, <2>3, <3>1, <3>6 DEF Made
  <2>4. QED
    BY <2>2, <2>3
<1>8. CASE ~\E x \in 1..k : LevelOf(cs[x]) = level
  <2>1. LevelOf(cs[1]) # level
    BY <1>2, <1>8
  <2>2. level \notin UntoldIn(s, n - 1, u)
    BY <1>1, <2>1, UntoldStays
  <2>3. /\ Says(d, cs, 1..k, level) <=> Shows(d, level)
        /\ Says(b, cs, 1..k, level) <=> Shows(b, level)
    BY <1>8 DEF Says
  <2>4. Shows(Made(b, cs, u), level) <=> Shows(b, level)
    BY <1>4, <1>5, <2>1, <2>3 DEF Made
  <2>5. QED
    BY <1>1, <1>3, <2>2, <2>3, <2>4
<1>9. QED
  BY <1>7, <1>8

\* The levels that may be held after the n-th message: an early one has moved
\* the top of the book before it.
May(s, n, level) ==
  n # 0 /\ (Shows(s[n].after, level) \/ (Early(s, n) /\ Shows(s[n - 1].after, level)))

HeldAt(b, s, n, u) ==
  b \in Book /\ \A level \in Levels \ UntoldIn(s, n, u) : Shows(b, level) => May(s, n, level)

MirrorAt(b, s, n, u) ==
  \A level \in Levels \ UntoldIn(s, n, u) : Shows(b, level) <=> Shows(s[n].after, level)

\* The messages of a chain.
LEMMA ChainSays ==
  ASSUME NEW s, NEW u, Chain(s, u)
  PROVE  /\ Len(s) \in Nat \ {0}
         /\ \A n \in 1..Len(s) :
              s[n].after \in Book /\ s[n].pos = n /\ s[n].seq = IF u THEN n ELSE 0
         /\ \A n \in 2..Len(s) : \/ TellsChange(s, n) /\ s[n].kind = "price_change"
                                 \/ TellsBest(s, n) /\ s[n].kind = "best_bid_ask"
BY DEF Chain, Placed, TellsChange, TellsBest

\* A message's changes lead from levels that were held to those that are.
LEMMA ChangeKeeps ==
  ASSUME NEW s, NEW u, u \in BOOLEAN, Chain(s, u), NEW n \in 2..Len(s), s[n].kind = "price_change",
         NEW b, HeldAt(b, s, n - 1, u)
  PROVE  /\ HeldAt(Made(b, s[n].changes, u), s, n, u)
         /\ ~Early(s, n - 1) /\ MirrorAt(b, s, n - 1, u) => MirrorAt(Made(b, s[n].changes, u), s, n, u)
<1>1. /\ n \in Nat /\ n >= 2 /\ n - 1 \in 1..Len(s) /\ n \in 1..Len(s) /\ n - 1 # 0 /\ n # 0
      /\ TellsChange(s, n) /\ s[n - 1].after \in Book /\ s[n].after \in Book
  BY ChainSays
<1>2. PICK k \in Nat \ {0} : s[n].changes \in [1..k -> Change]
  BY <1>1 DEF TellsChange
<1>3. PICK cs \in [1..k -> Change] : cs = s[n].changes
  BY <1>2
<1>4. PICK d : d = Before(s, n) /\ s[n].after = AllChanged(d, cs)
  BY <1>1, <1>3 DEF TellsChange
<1>5. b \in Book /\ ~Early(s, n)
  BY DEF HeldAt, Early
<1>6. /\ d \in Book
      /\ \A level \in Levels : May(s, n - 1, level) => Shows(d, level) \/ Shows(s[n].after, level)
  <2>1. CASE ~Early(s, n - 1)
    BY <1>1, <1>4, <2>1 DEF Before, May
  <2>2. CASE Early(s, n - 1)
    <3>1. /\ n - 2 \in 1..Len(s) /\ (n - 1) - 1 = n - 2 /\ (n - 1) + 1 = n
          /\ n - 1 \in 2..Len(s) /\ s[n - 1].kind = "best_bid_ask" /\ s[n - 2].after \in Book
      BY <2>2, ChainSays DEF Early
    <3>2. TellsBest(s, n - 1)
      BY <3>1, ChainSays
    <3>3. s[n].after = s[n - 1].after /\ d = s[n - 2].after
      BY <1>4, <3>1, <3>2, <2>2 DEF TellsBest, Before
    <3>4. QED
      BY <3>1, <3>3 DEF May
  <2>3. QED
    BY <2>1, <2>2
<1>7. PICK e : e = Made(b, cs, u)
  OBVIOUS
<1>8. e \in Book
  <2>1. Changed(b, cs[1]) \in Book
    BY <1>5, ChangedIs
  <2>2. AllChanged(b, cs) \in Book
    BY <1>5, AllChangedIs, FinalIs
  <2>3. QED
    BY <1>7, <2>1, <2>2 DEF Made
<1>9. ASSUME NEW level \in Levels, level \notin UntoldIn(s, n, u)
      PROVE  \/ Shows(e, level) <=> Shows(s[n].after, level)
             \/ /\ level \notin UntoldIn(s, n - 1, u)
                /\ Shows(e, level) <=> Shows(b, level)
                /\ Shows(s[n].after, level) <=> Shows(d, level)
  BY <1>1, <1>3, <1>4, <1>5, <1>6, <1>7, <1>9, Effect
<1>10. HeldAt(e, s, n, u)
  <2>1. ASSUME NEW level \in Levels \ UntoldIn(s, n, u), Shows(e, level) PROVE May(s, n, level)
    <3>1. SUFFICES Shows(s[n].after, level)
      BY <1>1 DEF May
    <3>2. CASE level \notin UntoldIn(s, n - 1, u) /\ Shows(b, level)
               /\ (Shows(s[n].after, level) <=> Shows(d, level))
      <4>1. May(s, n - 1, level)
        BY <3>2 DEF HeldAt
      <4>2. QED
        BY <1>6, <3>2, <4>1
    <3>3. QED
      BY <1>9, <2>1, <3>2
  <2>2. QED
    BY <1>8, <2>1 DEF HeldAt
<1>11. ASSUME ~Early(s, n - 1), MirrorAt(b, s, n - 1, u) PROVE MirrorAt(e, s, n, u)
  <2>1. d = s[n - 1].after
    BY <1>4, <1>11 DEF Before
  <2>2. ASSUME NEW level \in Levels \ UntoldIn(s, n, u)
        PROVE  Shows(e, level) <=> Shows(s[n].after, level)
    BY <1>9, <1>11, <2>1, <2>2 DEF MirrorAt
  <2>3. QED
    BY <2>2 DEF MirrorAt
<1>12. QED
  BY <1>3, <1>7, <1>10, <1>11

\* No best_bid_ask message follows another but an early one.
LEMMA BestFollowsChange ==
  ASSUME NEW s, NEW u, Chain(s, u), NEW n \in 2..Len(s), s[n].kind = "best_bid_ask"
  PROVE  /\ ~Early(s, n - 1)
         /\ (s[n - 1].kind = "best_bid_ask" => Early(s, n))
         /\ (~Early(s, n) => s[n].after = s[n - 1].after)
<1>1. TellsBest(s, n)
  BY ChainSays
<1>2. ASSUME Early(s, n - 1) PROVE FALSE
  <2>1. n - 1 \in 2..Len(s) /\ s[n - 1].kind = "best_bid_ask" /\ (n - 1) + 1 = n
    BY <1>2 DEF Early
  <2>2. TellsBest(s, n - 1)
    BY <2>1, ChainSays
  <2>3. QED
    BY <2>1, <2>2, <1>2 DEF TellsBest
<1>3. QED
  BY <1>1, <1>2 DEF TellsBest, Early

\* After it, what was held before it may still be, and what it tells.
LEMMA MayStay ==
  ASSUME NEW s, NEW u, Chain(s, u), NEW n \in 2..Len(s), s[n].kind = "best_bid_ask",
         NEW b, HeldAt(b, s, n - 1, u), NEW level \in Levels, level \notin UntoldIn(s, n, u),
         Shows(b, level) \/ Shows(s[n].after, level)
  PROVE  May(s, n, level)
<1>1. n \in Nat /\ n >= 2 /\ n # 0 /\ n - 1 # 0
  BY ChainSays
<1>2. CASE Shows(s[n].after, level)
  BY <1>1, <1>2 DEF May
<1>3. CASE Shows(b, level)
  <2>1. level \notin UntoldIn(s, n - 1, u)
    BY <1>1, UntoldStays
  <2>2. May(s, n - 1, level)
    BY <1>3, <2>1 DEF HeldAt
  <2>3. Shows(s[n - 1].after, level)
    BY <2>2, BestFollowsChange DEF May
  <2>4. QED
    BY <1>1, <2>3, BestFollowsChange DEF May
<1>4. QED
  BY <1>2, <1>3

\* A best price that is told adds no level but those told.
LEMMA BestKeeps ==
  ASSUME NEW s, NEW u, Chain(s, u), NEW n \in 2..Len(s), s[n].kind = "best_bid_ask",
         NEW b, HeldAt(b, s, n - 1, u)
  PROVE  HeldAt(MoveTop(b, s[n].best), s, n, u)
<1>1. b \in Book /\ n \in 1..Len(s) /\ s[n].after \in Book /\ s[n].best = Told(s[n].after)
  BY ChainSays DEF HeldAt, TellsBest
<1>2. PICK moved \in Book : /\ moved = MoveTop(b, s[n].best)
                            /\ moved.bids \subseteq b.bids \cup s[n].after.bids
                            /\ moved.asks \subseteq b.asks \cup s[n].after.asks
  <2>1. Moved(b.bids, Best(b).bid, s[n].best.bid) \subseteq b.bids \cup s[n].after.bids
    BY <1>1, ToldIs DEF Moved
  <2>2. Moved(b.asks, Best(b).ask, s[n].best.ask) \subseteq b.asks \cup s[n].after.asks
    BY <1>1, ToldIs DEF Moved
  <2>3. b.bids \cup s[n].after.bids \subseteq Prices /\ b.asks \cup s[n].after.asks \subseteq Prices
    BY <1>1 DEF Book
  <2>4. PICK x, y : /\ x = Moved(b.bids, Best(b).bid, s[n].best.bid)
                  /\ y = Moved(b.asks, Best(b).ask, s[n].best.ask)
    OBVIOUS
  <2>5. MoveTop(b, s[n].best) = [bids |-> x, asks |-> y]
    BY <2>4 DEF MoveTop
  <2>6. [bids |-> x, asks |-> y] \in Book
    BY <2>1, <2>2, <2>3, <2>4 DEF Book
  <2>7. QED
    BY <2>1, <2>2, <2>4, <2>5, <2>6
<1>3. ASSUME NEW level \in Levels, Shows(moved, level)
      PROVE  Shows(b, level) \/ Shows(s[n].after, level)
  <2>1. PICK side \in Sides, p \in Prices : level = <<side, p>> /\ side = level[1] /\ p = level[2]
    BY LevelIs
  <2>2. CASE side = "bids"
    BY <1>2, <1>3, <2>1, <2>2 DEF Shows
  <2>3. CASE side = "asks"
    BY <1>2, <1>3, <2>1, <2>3 DEF Shows
  <2>4. QED
    BY <2>2, <2>3 DEF Sides
<1>4. QED
  BY <1>2, <1>3, MayStay DEF HeldAt

\* A message that tells no prices is ignored.
LEMMA IgnoredKeeps ==
  ASSUME NEW s, NEW u, Chain(s, u), NEW n \in 2..Len(s), s[n].kind = "best_bid_ask",
         NEW b, HeldAt(b, s, n - 1, u)
  PROVE  HeldAt(b, s, n, u)
BY MayStay DEF HeldAt

---------------------------------------------------------------------------
(* What is under way, and what it does to the levels held. *)

\* The messages after the j-th are under way ...
Under(s, t, j) == Len(t) = Len(s) - j /\ \A i \in 1..(Len(s) - j) : t[i] = s[j + i]

\* ... perhaps after a whole book.
UnderBook(s, t, j, u) ==
  /\ Len(t) = Len(s) - j + 1
  /\ t[1].kind = "book" /\ Placed(t[1], j, u) /\ t[1].after = s[j].after
  /\ \A i \in 2..(Len(s) - j + 1) : t[i] = s[j + i - 1]

\* The cache has heard of the j-th message, or ignored it as it tells no prices.
Caught(s, h, j, u) ==
  \/ j = h
  \/ u /\ j <= h
  \/ 1 <= h /\ j = h + 1 /\ s[j].kind = "best_bid_ask" /\ s[j].after = Empty

\* What has been said before stays as it was when more is said.
LEMMA HeldLonger ==
  ASSUME NEW s, NEW ms, IsSeq(s), IsSeq(ms), NEW h \in 0..Len(s), NEW u, NEW b
  PROVE  /\ HeldAt(b, s, h, u) => HeldAt(b, s \o ms, h, u)
         /\ h # 0 => s[h] = (s \o ms)[h] /\ UntoldIn(s \o ms, h, u) = UntoldIn(s, h, u)
<1>1. PICK t : t = s \o ms
  OBVIOUS
<1>2. /\ Len(s) \in Nat /\ Len(ms) \in Nat /\ Len(t) = Len(s) + Len(ms)
      /\ \A i \in 1..Len(s) : t[i] = s[i]
  BY <1>1, Joined
<1>3. h \in Nat /\ \A i \in 1..h : t[i] = s[i]
  BY <1>2
<1>4. UntoldIn(t, h, u) = UntoldIn(s, h, u)
  BY <1>3, UntoldSame
<1>5. ASSUME NEW level \in Levels PROVE May(t, h, level) <=> May(s, h, level)
  <2>1. CASE h = 0
    BY <2>1 DEF May
  <2>2. CASE h # 0
    <3>1. t[h] = s[h] /\ (h - 1 \in 1..Len(s) => t[h - 1] = s[h - 1])
      BY <1>2, <2>2
    <3>2. Early(t, h) <=> Early(s, h)
      BY <1>2, <3>1 DEF Early
    <3>3. Early(s, h) => h - 1 \in 1..Len(s)
      BY <1>2 DEF Early
    <3>4. QED
      BY <3>1, <3>2, <3>3 DEF May
  <2>3. QED
    BY <2>1, <2>2
<1>6. HeldAt(b, s, h, u) => HeldAt(b, t, h, u)
  BY <1>4, <1>5 DEF HeldAt
<1>7. h # 0 => s[h] = t[h]
  BY <1>3
<1>8. QED
  BY <1>1, <1>4, <1>6, <1>7

\* What is under way goes on in the same way when more is said.
LEMMA UnderLonger ==
  ASSUME NEW s, NEW t, NEW ms, IsSeq(s), IsSeq(t), IsSeq(ms), NEW j \in 1..Len(s), NEW u
  PROVE  /\ Under(s, t, j) => Under(s \o ms, t \o ms, j)
         /\ UnderBook(s, t, j, u) => UnderBook(s \o ms, t \o ms, j, u)
<1>1. PICK x, y : x = s \o ms /\ y = t \o ms
  OBVIOUS
<1>2. PICK a \in Nat, c \in Nat, d \in Nat : a = Len(s) /\ c = Len(t) /\ d = Len(ms)
  BY Joined
<1>3. Len(x) = a + d /\ Len(y) = c + d
  BY <1>1, <1>2, Joined
<1>4. \A i \in 1..a : x[i] = s[i]
  BY <1>1, <1>2, Joined
<1>5. \A i \in (a + 1)..(a + d) : x[i] = ms[i - a]
  BY <1>1, <1>2, Joined
<1>6. \A i \in 1..c : y[i] = t[i]
  BY <1>1, <1>2, Joined
<1>7. \A i \in (c + 1)..(c + d) : y[i] = ms[i - c]
  BY <1>1, <1>2, Joined
<1>8. ASSUME Under(s, t, j) PROVE Under(x, y, j)
  <2>1. c = a - j /\ \A i \in 1..c : t[i] = s[j + i]
    BY <1>2, <1>8 DEF Under
  <2>2. ASSUME NEW i \in 1..(a + d - j) PROVE y[i] = x[j + i]
    <3>1. CASE i <= c
      <4>1. i \in 1..c /\ j + i \in 1..a
        BY <1>2, <2>1, <3>1
      <4>2. QED
        BY <1>4, <1>6, <2>1, <4>1
    <3>2. CASE ~(i <= c)
      <4>1. i \in (c + 1)..(c + d) /\ j + i \in (a + 1)..(a + d) /\ i - c = (j + i) - a
        BY <1>2, <2>1, <3>2
      <4>2. QED
        BY <1>5, <1>7, <4>1
    <3>3. QED
      BY <3>1, <3>2
  <2>3. Len(y) = Len(x) - j
    BY <1>2, <1>3, <2>1
  <2>4. QED
    BY <1>3, <2>2, <2>3 DEF Under
<1>9. ASSUME UnderBook(s, t, j, u) PROVE UnderBook(x, y, j, u)
  <2>1. /\ c = a - j + 1 /\ t[1].kind = "book" /\ Placed(t[1], j, u) /\ t[1].after = s[j].after
        /\ \A i \in 2..c : t[i] = s[j + i - 1]
    BY <1>2, <1>9 DEF UnderBook
  <2>2. ASSUME NEW i \in 2..(a + d - j + 1) PROVE y[i] = x[j + i - 1]
    <3>1. CASE i <= c
      <4>1. i \in 1..c /\ i \in 2..c /\ j + i - 1 \in 1..a
        BY <1>2, <2>1, <3>1
      <4>2. QED
        BY <1>4, <1>6, <2>1, <4>1
    <3>2. CASE ~(i <= c)
      <4>1. i \in (c + 1)..(c + d) /\ j + i - 1 \in (a + 1)..(a + d) /\ i - c = (j + i - 1) - a
        BY <1>2, <2>1, <3>2
      <4>2. QED
        BY <1>5, <1>7, <4>1
    <3>3. QED
      BY <3>1, <3>2
  <2>3. Len(y) = Len(x) - j + 1 /\ 1 \in 1..c
    BY <1>2, <1>3, <2>1
  <2>4. y[1] = t[1] /\ x[j] = s[j]
    BY <1>2, <1>4, <1>6, <2>3
  <2>5. QED
    BY <1>3, <2>1, <2>2, <2>3, <2>4 DEF UnderBook
<1>10. QED
  BY <1>1, <1>8, <1>9

\* What remains when the first message has been taken.
LEMMA UnderShorter ==
  ASSUME NEW s, NEW t, IsSeq(s), IsSeq(t), t # <<>>, NEW j \in 1..Len(s), NEW u
  PROVE  /\ Under(s, t, j) => /\ j + 1 \in 2..Len(s) /\ Head(t) = s[j + 1]
                              /\ Under(s, Tail(t), j + 1)
         /\ UnderBook(s, t, j, u) => /\ Head(t).kind = "book" /\ Placed(Head(t), j, u)
                                     /\ Head(t).after = s[j].after
                                     /\ Under(s, Tail(t), j)
<1>1. PICK r : r = Tail(t)
  OBVIOUS
<1>2. PICK c \in Nat \ {0} : c = Len(t) /\ Len(r) = c - 1 /\ Head(t) = t[1]
  BY <1>1, TailIs
<1>3. \A i \in 1..(c - 1) : r[i] = t[i + 1]
  BY <1>1, <1>2, TailIs
<1>4. PICK a \in Nat : a = Len(s)
  BY Joined
<1>5. ASSUME Under(s, t, j)
      PROVE  j + 1 \in 2..Len(s) /\ Head(t) = s[j + 1] /\ Under(s, r, j + 1)
  <2>1. c = a - j /\ \A i \in 1..c : t[i] = s[j + i]
    BY <1>2, <1>4, <1>5 DEF Under
  <2>2. j + 1 \in 2..a /\ 1 \in 1..c /\ Len(r) = a - (j + 1)
    BY <1>2, <1>4, <2>1
  <2>3. ASSUME NEW i \in 1..(a - (j + 1)) PROVE r[i] = s[(j + 1) + i]
    <3>1. i \in 1..(c - 1) /\ i + 1 \in 1..c /\ j + (i + 1) = (j + 1) + i
      BY <1>2, <1>4, <2>1
    <3>2. QED
      BY <1>3, <2>1, <3>1
  <2>4. QED
    BY <1>2, <1>4, <2>1, <2>2, <2>3 DEF Under
<1>6. ASSUME UnderBook(s, t, j, u)
      PROVE  /\ Head(t).kind = "book" /\ Placed(Head(t), j, u) /\ Head(t).after = s[j].after
             /\ Under(s, r, j)
  <2>1. /\ c = a - j + 1 /\ t[1].kind = "book" /\ Placed(t[1], j, u) /\ t[1].after = s[j].after
        /\ \A i \in 2..c : t[i] = s[j + i - 1]
    BY <1>2, <1>4, <1>6 DEF UnderBook
  <2>2. Len(r) = a - j
    BY <1>2, <1>4, <2>1
  <2>3. ASSUME NEW i \in 1..(a - j) PROVE r[i] = s[j + i]
    <3>1. i \in 1..(c - 1) /\ i + 1 \in 2..c /\ j + (i + 1) - 1 = j + i
      BY <1>2, <1>4, <2>1
    <3>2. QED
      BY <1>3, <2>1, <3>1
  <2>4. QED
    BY <1>2, <1>4, <2>1, <2>2, <2>3 DEF Under
<1>7. QED
  BY <1>1, <1>5, <1>6

\* The n-th message is new, and nothing was missed before it.
LEMMA NothingMissed ==
  ASSUME NEW s, NEW u, u \in BOOLEAN, Chain(s, u), NEW h \in 0..Len(s), NEW n \in 2..Len(s),
         Caught(s, h, n - 1, u), ~(u /\ n <= h), NEW b, HeldAt(b, s, h, u)
  PROVE  HeldAt(b, s, n - 1, u)
         /\ (n - 1 = h \/ (1 <= h /\ n - 1 = h + 1 /\ n - 1 \in 2..Len(s)
                           /\ s[n - 1].kind = "best_bid_ask" /\ s[n - 1].after = Empty))
<1>1. Len(s) \in Nat /\ h \in Nat /\ n \in Nat
  BY ChainSays
<1>2. CASE n - 1 = h
  BY <1>2
<1>3. CASE n - 1 # h
  <2>1. 1 <= h /\ n - 1 = h + 1 /\ s[n - 1].kind = "best_bid_ask" /\ s[n - 1].after = Empty
    BY <1>1, <1>3 DEF Caught
  <2>2. n - 1 \in 2..Len(s) /\ (n - 1) - 1 = h
    BY <1>1, <2>1
  <2>3. HeldAt(b, s, (n - 1) - 1, u)
    BY <2>2
  <2>4. QED
    BY <2>1, <2>2, <2>3, IgnoredKeeps
<1>4. QED
  BY <1>2, <1>3

\* What the messages' numbers have to do with the message applied last.
Counted == last = IF Numbered THEN heard ELSE 0

Held == heard \in 0..seq /\ HeldAt(book, sent, heard, Numbered)

OnlyChanges == "best_bid_ask" \notin mode => \A n \in 2..seq : sent[n].kind = "price_change"

\* The cache mirrors the exchange.
Mirrors == heard > 0 => MirrorAt(book, sent, heard, Numbered)

\* A message of the chain that is taken leads to what it says ...
LEMMA Takes ==
  ASSUME Chain(sent, Numbered), Held, Counted, NEW n \in 2..seq, Caught(sent, heard, n - 1, Numbered),
         Taken(sent[n])
  PROVE  /\ Applied(sent[n]).last = IF Numbered THEN n ELSE 0
         /\ HeldAt(Applied(sent[n]).book, sent, n, Numbered)
         /\ (\A i \in 2..seq : sent[i].kind = "price_change") /\ Mirrors
              => MirrorAt(Applied(sent[n]).book, sent, n, Numbered)
<1>1. PICK a \in Nat : a = Len(sent) /\ a = seq
  BY ChainSays DEF seq
<1>2. PICK u \in BOOLEAN : u = Numbered
  BY DEF Numbered
<1>3. /\ heard \in 0..Len(sent) /\ heard \in Nat /\ n \in Nat /\ n >= 2 /\ n \in 2..Len(sent)
      /\ n - 1 \in 1..Len(sent) /\ n \in 1..Len(sent) /\ n # 0
      /\ book \in Book /\ HeldAt(book, sent, heard, u) /\ Chain(sent, u) /\ Caught(sent, heard, n - 1, u)
  BY <1>1, <1>2 DEF Held, HeldAt
<1>4. PICK m : m = sent[n]
  OBVIOUS
<1>5. /\ m.seq = (IF u THEN n ELSE 0) /\ last = (IF u THEN heard ELSE 0) /\ m.after \in Book
      /\ m.kind = "price_change" => TellsChange(sent, n)
      /\ m.kind = "best_bid_ask" => TellsBest(sent, n)
      /\ m.kind = "price_change" \/ m.kind = "best_bid_ask"
  BY <1>2, <1>3, <1>4, ChainSays DEF Counted
<1>6. Valid(m.seq, last) /\ ~(u /\ n <= heard)
  BY <1>3, <1>4, <1>5 DEF Taken, Valid
<1>7. /\ HeldAt(book, sent, n - 1, u)
      /\ (n - 1 = heard \/ (1 <= heard /\ n - 1 = heard + 1 /\ n - 1 \in 2..Len(sent)
                            /\ sent[n - 1].kind = "best_bid_ask" /\ sent[n - 1].after = Empty))
  BY <1>3, <1>6, NothingMissed
<1>8. Remembered(m.seq, last) = IF u THEN n ELSE 0
  BY <1>3, <1>5 DEF Remembered
<1>9. CASE m.kind = "price_change"
  <2>1. PICK k \in Nat \ {0} : m.changes \in [1..k -> Change]
    BY <1>4, <1>5, <1>9 DEF TellsChange
  <2>2. Applied(m).book = Made(book, m.changes, u) /\ Applied(m).last = IF u THEN n ELSE 0
    <3>1. CASE u
      <4>1. DOMAIN m.changes = 1..k /\ m.seq \in Nat \ {0} /\ last \in Nat
        BY <1>3, <1>5, <2>1, <3>1
      <4>2. Applied(m) = ApplyChange([book |-> book, last |-> last], m, m.changes[1])
        BY <1>9, <4>1, FirstIsApplied
      <4>3. QED
        BY <1>6, <1>8, <3>1, <4>2 DEF ApplyChange, Made
    <3>2. CASE ~u
      <4>1. Applied(m) = [book |-> AllChanged(book, m.changes), last |-> last]
        BY <1>3, <1>5, <1>9, <2>1, <3>2, AllAreApplied
      <4>2. QED
        BY <1>5, <3>2, <4>1 DEF Made
    <3>3. QED
      BY <3>1, <3>2
  <2>3. HeldAt(Applied(m).book, sent, n, u)
    BY <1>3, <1>4, <1>7, <1>9, <2>2, ChangeKeeps
  <2>4. ASSUME \A i \in 2..seq : sent[i].kind = "price_change", Mirrors
        PROVE  MirrorAt(Applied(m).book, sent, n, u)
    <3>1. ~Early(sent, n - 1)
      BY <1>1, <2>4 DEF Early
    <3>2. n - 1 = heard
      BY <1>1, <1>7, <2>4
    <3>3. MirrorAt(book, sent, n - 1, u)
      BY <1>2, <1>3, <2>4, <3>2 DEF Mirrors
    <3>4. QED
      BY <1>3, <1>4, <1>7, <1>9, <2>2, <3>1, <3>3, ChangeKeeps
  <2>5. QED
    BY <1>2, <1>4, <2>2, <2>3, <2>4
<1>10. CASE m.kind = "best_bid_ask"
  <2>1. Applied(m).book = MoveTop(book, m.best) /\ Applied(m).last = IF u THEN n ELSE 0
    BY <1>8, <1>10 DEF Applied
  <2>2. HeldAt(Applied(m).book, sent, n, u)
    BY <1>3, <1>4, <1>7, <1>10, <2>1, BestKeeps
  <2>3. m.kind # "price_change" /\ n \in 2..seq
    BY <1>10
  <2>4. QED
    BY <1>2, <1>4, <2>1, <2>2, <2>3
<1>11. QED
  BY <1>5, <1>9, <1>10

\* ... and one that is not is old, or tells no prices.
LEMMA Ignores ==
  ASSUME Chain(sent, Numbered), Held, Counted, NEW n \in 2..seq, Caught(sent, heard, n - 1, Numbered),
         ~Taken(sent[n])
  PROVE  Caught(sent, heard, n, Numbered)
<1>1. PICK a \in Nat : a = Len(sent) /\ a = seq
  BY ChainSays DEF seq
<1>2. PICK u \in BOOLEAN : u = Numbered
  BY DEF Numbered
<1>3. /\ heard \in 0..Len(sent) /\ heard \in Nat /\ n \in Nat /\ n >= 2 /\ n \in 2..Len(sent)
      /\ n - 1 \in 1..Len(sent) /\ n \in 1..Len(sent)
      /\ HeldAt(book, sent, heard, u) /\ Chain(sent, u) /\ Caught(sent, heard, n - 1, u)
  BY <1>1, <1>2 DEF Held
<1>4. PICK m : m = sent[n]
  OBVIOUS
<1>5. m.seq = (IF u THEN n ELSE 0) /\ last = (IF u THEN heard ELSE 0) /\ m.after \in Book
  BY <1>2, <1>3, <1>4, ChainSays DEF Counted
<1>6. CASE u /\ n <= heard
  BY <1>2, <1>6 DEF Caught
<1>7. CASE ~(u /\ n <= heard)
  <2>1. Valid(m.seq, last)
    BY <1>3, <1>5, <1>7 DEF Valid
  <2>2. m.kind = "best_bid_ask" /\ m.best = Told(Empty)
    BY <1>4, <2>1 DEF Taken
  <2>3. m.best = Told(m.after)
    BY <1>3, <1>4, <2>2, ChainSays DEF TellsBest
  <2>4. m.after = Empty
    BY <1>5, <2>2, <2>3, ToldEmpty
  <2>5. n - 1 = heard \/ (n - 1 \in 2..Len(sent) /\ sent[n - 1].kind = "best_bid_ask"
                          /\ sent[n - 1].after = Empty)
    BY <1>3, <1>7, NothingMissed
  <2>6. n - 1 = heard
    <3>1. SUFFICES ASSUME sent[n - 1].kind = "best_bid_ask", sent[n - 1].after = Empty PROVE FALSE
      BY <2>5
    <3>2. Early(sent, n)
      BY <1>3, <1>4, <2>2, <3>1, BestFollowsChange
    <3>3. QED
      BY <1>4, <2>4, <3>1, <3>2 DEF Early
  <2>7. 1 <= heard /\ n = heard + 1
    BY <1>3, <2>6
  <2>8. QED
    BY <1>4, <2>2, <2>4, <2>7 DEF Caught
<1>8. QED
  BY <1>6, <1>7

\* A whole book, if it is new.
LEMMA TakesBook ==
  ASSUME Chain(sent, Numbered), Held, Counted, NEW j \in 1..seq,
         NEW m, m.kind = "book", Placed(m, j, Numbered), m.after = AsOf(j)
  PROVE  /\ Taken(m) => /\ Applied(m).last = IF Numbered THEN j ELSE 0
                        /\ HeldAt(Applied(m).book, sent, j, Numbered)
                        /\ MirrorAt(Applied(m).book, sent, j, Numbered)
         /\ ~Taken(m) => Caught(sent, heard, j, Numbered)
<1>1. /\ m.seq = (IF Numbered THEN j ELSE 0) /\ seq \in Nat /\ j \in Nat /\ j # 0
      /\ AsOf(j) = sent[j].after /\ sent[j].after \in Book /\ heard \in Nat
  BY ChainSays DEF seq, Held, Placed, AsOf
<1>2. ASSUME Taken(m)
      PROVE  /\ Applied(m).last = IF Numbered THEN j ELSE 0
             /\ HeldAt(Applied(m).book, sent, j, Numbered)
             /\ MirrorAt(Applied(m).book, sent, j, Numbered)
  <2>1. Applied(m).last = Remembered(m.seq, last) /\ Applied(m).book = sent[j].after
    BY <1>1 DEF Applied, Replaced
  <2>2. Remembered(m.seq, last) = IF Numbered THEN j ELSE 0
    BY <1>1 DEF Remembered, Counted
  <2>3. HeldAt(sent[j].after, sent, j, Numbered)
    BY <1>1 DEF HeldAt, May
  <2>4. MirrorAt(sent[j].after, sent, j, Numbered)
    BY DEF MirrorAt
  <2>5. QED
    BY <2>1, <2>2, <2>3, <2>4
<1>3. ASSUME ~Taken(m) PROVE Caught(sent, heard, j, Numbered)
  <2>1. ~Valid(m.seq, last)
    BY <1>3 DEF Taken
  <2>2. Numbered /\ j <= heard
    BY <1>1, <2>1 DEF Valid, Counted
  <2>3. QED
    BY <2>2 DEF Caught
<1>4. QED
  BY <1>2, <1>3

---------------------------------------------------------------------------
(* The levels. *)

\* What is under way goes on from what the cache knows, or from a whole book.
NetFollows(s, t, h, u) ==
  \E j \in 1..Len(s) : (Under(s, t, j) /\ Caught(s, h, j, u)) \/ UnderBook(s, t, j, u)
NetIs == IF conn = "up" THEN NetFollows(sent, net, heard, Numbered) ELSE net = <<>>

BInv == Chain(sent, Numbered) /\ OnlyChanges /\ NetIs /\ Held /\ Counted /\ MirrorsExchange

LEMMA MirrorsIs == MirrorsExchange <=> (mode \subseteq {"unnumbered"} => Mirrors)
BY UntoldIs DEF MirrorsExchange, Mirrors, MirrorAt, Agree, Shows, AsOf

\* The exchange says more.
LEMMA ExchangeKeeps ==
  ASSUME SInv, BInv, NEW n \in 1..MaxChanges, NEW cs \in [1..n -> Change], ExchangeChanges(cs)
  PROVE  BInv'
<1>1. PICK k \in Nat \ {0} : k = n /\ cs \in [1..k -> Change]
  BY MarketBookAssumption
<1>2. PICK b : b = AllChanged(Current, cs) /\ b = AllChanged(sent[seq].after, cs)
  BY DEF Current, AsOf
<1>3. /\ b # sent[seq].after
      /\ UNCHANGED <<mode, conn, book, last, heard>>
  BY <1>2 DEF ExchangeChanges, Current, AsOf, bookVars
<1>4. PICK ms \in Event(cs, b) : sent' = sent \o ms /\ net' = IF conn = "up" THEN net \o ms ELSE net
  BY <1>2 DEF ExchangeChanges
<1>5. IsSeq(ms) /\ IsSeq(sent) /\ IsSeq(net) /\ seq \in Nat
  BY EventIs, Joined DEF SInv, Typed, seq
<1>6. PICK t : t = sent'
  OBVIOUS
<1>7. PICK d \in Nat : d = Len(ms)
  BY <1>5, Joined
<1>8. Len(t) = seq + d /\ DOMAIN t = 1..(seq + d) /\ \A i \in 1..seq : t[i] = sent[i]
  BY <1>4, <1>5, <1>6, <1>7, Joined DEF seq
<1>9. \A i \in (seq + 1)..(seq + d) : t[i] = ms[i - seq]
  BY <1>4, <1>5, <1>6, <1>7, Joined DEF seq
<1>10. \/ /\ d = 2 /\ ms[1] = ChangeMessage(seq + 1, b, cs)
          /\ ms[2] = BestMessage(seq + 2, b) /\ "best_bid_ask" \in mode
       \/ /\ d = 2 /\ ms[1] = BestMessage(seq + 1, b)
          /\ ms[2] = ChangeMessage(seq + 2, b, cs) /\ "best_bid_ask" \in mode
       \/ d = 1 /\ ms[1] = ChangeMessage(seq + 1, b, cs)
  <2>1. PICK x, y : x = ChangeMessage(seq + 1, b, cs) /\ y = BestMessage(seq + 2, b)
    OBVIOUS
  <2>2. PICK v, w : v = BestMessage(seq + 1, b) /\ w = ChangeMessage(seq + 2, b, cs)
    OBVIOUS
  <2>3. \/ ms = <<x, y>> /\ "best_bid_ask" \in mode
        \/ ms = <<v, w>> /\ "best_bid_ask" \in mode
        \/ ms = <<x>>
    BY <2>1, <2>2 DEF Event
  <2>4. QED
    BY <1>7, <2>1, <2>2, <2>3, Short
<1>11. \/ /\ Len(t) = seq + 1 /\ t[seq + 1] = ChangeMessage(seq + 1, b, cs)
       \/ /\ Len(t) = seq + 2 /\ t[seq + 1] = ChangeMessage(seq + 1, b, cs)
          /\ t[seq + 2] = BestMessage(seq + 2, b) /\ "best_bid_ask" \in mode
       \/ /\ Len(t) = seq + 2 /\ t[seq + 1] = BestMessage(seq + 1, b)
          /\ t[seq + 2] = ChangeMessage(seq + 2, b, cs) /\ "best_bid_ask" \in mode
  <2>1. CASE d = 1
    <3>1. t[seq + 1] = ms[1] /\ Len(t) = seq + 1
      BY <1>5, <1>8, <1>9, <2>1
    <3>2. QED
      BY <1>10, <2>1, <3>1
  <2>2. CASE d = 2
    <3>1. t[seq + 1] = ms[1] /\ t[seq + 2] = ms[2] /\ Len(t) = seq + 2
      BY <1>5, <1>8, <1>9, <2>2
    <3>2. QED
      BY <1>10, <2>2, <3>1
  <2>3. QED
    BY <1>10, <2>1, <2>2
<1>12. Chain(t, Numbered)
  <2>1. Chain(sent, Numbered) /\ seq = Len(sent)
    BY DEF BInv, seq
  <2>2. PICK e \in Nat : e = Len(t) /\ DOMAIN t = 1..e
    BY <1>5, <1>7, <1>8
  <2>3. PICK a \in Nat : a = seq /\ a = Len(sent)
    BY <1>5, <2>1
  <2>4. /\ \A i \in 1..a : t[i] = sent[i]
        /\ b = AllChanged(sent[a].after, cs) /\ b # sent[a].after
        /\ \/ e = a + 1 /\ t[a + 1] = ChangeMessage(a + 1, b, cs)
           \/ e = a + 2 /\ t[a + 1] = ChangeMessage(a + 1, b, cs) /\ t[a + 2] = BestMessage(a + 2, b)
           \/ e = a + 2 /\ t[a + 1] = BestMessage(a + 1, b) /\ t[a + 2] = ChangeMessage(a + 2, b, cs)
    BY <1>2, <1>3, <1>8, <1>11, <2>2, <2>3
  <2>5. QED
    BY <1>1, <2>1, <2>2, <2>3, <2>4, ChainGrows
<1>13. seq' = seq + d /\ seq' = Len(t) /\ Numbered' = Numbered
  BY <1>3, <1>6, <1>8 DEF seq, Numbered
<1>14. OnlyChanges'
  <2>1. SUFFICES ASSUME "best_bid_ask" \notin mode, NEW i \in 2..(seq + d)
                 PROVE  t[i].kind = "price_change"
    BY <1>3, <1>6, <1>13 DEF OnlyChanges
  <2>2. CASE i <= seq
    BY <1>5, <1>8, <2>1, <2>2 DEF OnlyChanges, BInv
  <2>3. CASE ~(i <= seq)
    <3>1. i = seq + 1 /\ t[seq + 1] = ChangeMessage(seq + 1, b, cs)
      BY <1>5, <1>7, <1>8, <1>11, <2>1, <2>3
    <3>2. QED
      BY <3>1 DEF ChangeMessage
  <2>4. QED
    BY <2>2, <2>3
<1>15. NetIs'
  <2>1. CASE conn = "up"
    <3>1. PICK j \in 1..seq : \/ Under(sent, net, j) /\ Caught(sent, heard, j, Numbered)
                              \/ UnderBook(sent, net, j, Numbered)
      BY <2>1 DEF BInv, NetIs, NetFollows, seq
    <3>2. j \in 1..Len(t) /\ j \in 1..Len(sent) /\ t[j] = sent[j]
      BY <1>5, <1>7, <1>8, <3>1 DEF seq
    <3>3. Caught(sent, heard, j, Numbered) => Caught(t, heard, j, Numbered)
      BY <3>2 DEF Caught
    <3>4. net' = net \o ms /\ t = sent \o ms
      BY <1>4, <1>6, <2>1
    <3>5. (Under(t, net', j) /\ Caught(t, heard, j, Numbered)) \/ UnderBook(t, net', j, Numbered)
      BY <1>5, <3>1, <3>2, <3>3, <3>4, UnderLonger
    <3>6. NetFollows(t, net', heard, Numbered)
      BY <3>2, <3>5 DEF NetFollows
    <3>7. QED
      BY <1>3, <1>6, <1>13, <2>1, <3>6 DEF NetIs
  <2>2. CASE conn # "up"
    BY <1>3, <1>4, <2>2 DEF NetIs, BInv
  <2>3. QED
    BY <2>1, <2>2
<1>16. heard \in 0..Len(sent) /\ heard \in Nat /\ seq = Len(sent)
  BY <1>5 DEF BInv, Held, seq
<1>17. Held'
  <2>1. HeldAt(book, t, heard, Numbered)
    BY <1>4, <1>5, <1>6, <1>16, HeldLonger DEF BInv, Held
  <2>2. QED
    BY <1>3, <1>5, <1>6, <1>7, <1>13, <1>16, <2>1 DEF Held
<1>18. MirrorsExchange'
  <2>1. heard # 0 => sent[heard] = t[heard]
                     /\ UntoldIn(t, heard, Numbered) = UntoldIn(sent, heard, Numbered)
    BY <1>4, <1>5, <1>6, <1>16, HeldLonger
  <2>2. mode \subseteq {"unnumbered"} => Mirrors
    BY MirrorsIs DEF BInv
  <2>3. (mode \subseteq {"unnumbered"} => Mirrors)'
    BY <1>3, <1>6, <1>13, <1>16, <2>1, <2>2 DEF Mirrors, MirrorAt
  <2>4. QED
    BY <2>3, MirrorsIs, PTL
<1>19. Counted'
  BY <1>3, <1>13 DEF Counted, BInv
<1>20. QED
  BY <1>6, <1>12, <1>13, <1>14, <1>15, <1>17, <1>18, <1>19 DEF BInv

\* A connection starts with a whole book.
LEMMA ConnectKeeps == ASSUME SInv, BInv, Connect PROVE BInv'
<1>1. UNCHANGED <<mode, sent, book, last, heard>> /\ conn' = "up"
  BY DEF Connect, bookVars
<1>2. PICK n \in 1..seq : net' = <<BookMessage(n, AsOf(n))>> \o SubSeq(sent, n + 1, seq)
  BY ConnectIs DEF SInv
<1>3. PICK r : r = SubSeq(sent, n + 1, Len(sent))
  OBVIOUS
<1>4. IsSeq(r) /\ seq \in Nat /\ Len(r) = seq - n
  BY <1>3, PartIs DEF SInv, Typed, seq
<1>5. \A i \in 1..(seq - n) : r[i] = sent[n + i]
  BY <1>3, PartIs DEF SInv, Typed, seq
<1>6. PICK m : m = BookMessage(n, AsOf(n))
  OBVIOUS
<1>7. PICK q : q = <<m>> /\ IsSeq(q) /\ Len(q) = 1 /\ q[1] = m
  BY Short
<1>8. net' = q \o r
  BY <1>2, <1>3, <1>6, <1>7 DEF seq
<1>9. Len(net') = 1 + (seq - n) /\ \A i \in 1..1 : net'[i] = q[i]
  BY <1>4, <1>7, <1>8, Joined
<1>10. \A i \in (1 + 1)..(1 + (seq - n)) : net'[i] = r[i - 1]
  BY <1>4, <1>7, <1>8, Joined
<1>11. m.kind = "book" /\ Placed(m, n, Numbered) /\ m.after = sent[n].after
  <2>1. sent[n].after \in Book
    BY <1>4, ChainSays DEF BInv, seq
  <2>2. QED
    BY <1>6, <2>1 DEF BookMessage, Placed, AsOf, Number, Numbered
<1>12. UnderBook(sent, net', n, Numbered)
  <2>1. Len(net') = Len(sent) - n + 1 /\ net'[1] = m
    BY <1>4, <1>6, <1>7, <1>9 DEF AsOf, seq
  <2>2. ASSUME NEW i \in 2..(Len(sent) - n + 1) PROVE net'[i] = sent[n + i - 1]
    <3>1. i - 1 \in 1..(seq - n) /\ i \in (1 + 1)..(1 + (seq - n)) /\ n + (i - 1) = n + i - 1
      BY <1>4 DEF seq
    <3>2. QED
      BY <1>5, <1>10, <3>1
  <2>3. QED
    BY <1>11, <2>1, <2>2 DEF UnderBook
<1>13. NetFollows(sent, net', heard, Numbered)
  BY <1>12 DEF NetFollows, seq
<1>14. NetIs'
  BY <1>1, <1>13 DEF NetIs, Numbered
<1>15. QED
  BY <1>1, <1>14 DEF BInv, OnlyChanges, Held, Counted, MirrorsExchange, AsOf, seq, Numbered, Untold

\* A message is taken.
LEMMA DeliverKeeps == ASSUME SInv, BInv, Deliver PROVE BInv'
<1>1. /\ UNCHANGED <<mode, sent, conn>> /\ conn = "up" /\ net # <<>> /\ net' = Tail(net)
      /\ IF Taken(Head(net))
           THEN /\ book' = Applied(Head(net)).book /\ last' = Applied(Head(net)).last
                /\ heard' = Head(net).pos
           ELSE UNCHANGED <<book, last, heard>>
  BY DEF Deliver, bookVars
<1>2. IsSeq(sent) /\ IsSeq(net) /\ Numbered' = Numbered /\ seq' = seq
  BY <1>1 DEF SInv, Typed, Numbered, seq
<1>3. Chain(sent, Numbered) /\ Held /\ Counted
  BY DEF BInv
<1>4. PICK j \in 1..seq : \/ Under(sent, net, j) /\ Caught(sent, heard, j, Numbered)
                          \/ UnderBook(sent, net, j, Numbered)
  BY <1>1 DEF BInv, NetIs, NetFollows, seq
<1>5. mode \subseteq {"unnumbered"} => Mirrors /\ \A i \in 2..seq : sent[i].kind = "price_change"
  BY MirrorsIs DEF BInv, OnlyChanges
<1>6. \E i \in 1..seq :
        /\ Under(sent, net', i)
        /\ Taken(Head(net)) =>
             /\ Head(net).pos = i
             /\ Applied(Head(net)).last = IF Numbered THEN i ELSE 0
             /\ HeldAt(Applied(Head(net)).book, sent, i, Numbered)
             /\ mode \subseteq {"unnumbered"} => MirrorAt(Applied(Head(net)).book, sent, i, Numbered)
        /\ ~Taken(Head(net)) => Caught(sent, heard, i, Numbered)
  <2>1. CASE Under(sent, net, j) /\ Caught(sent, heard, j, Numbered)
    <3>1. /\ j + 1 \in 2..seq /\ Head(net) = sent[j + 1] /\ Under(sent, net', j + 1)
          /\ (j + 1) - 1 = j /\ j + 1 \in 1..seq
      BY <1>1, <1>2, <1>4, <2>1, UnderShorter DEF seq
    <3>2. Caught(sent, heard, (j + 1) - 1, Numbered)
      BY <2>1, <3>1
    <3>3. sent[j + 1].pos = j + 1
      BY <1>3, <3>1, ChainSays DEF seq
    <3>4. ~Taken(sent[j + 1]) => Caught(sent, heard, j + 1, Numbered)
      BY <1>3, <3>1, <3>2, Ignores
    <3>5. Taken(sent[j + 1]) =>
             /\ Applied(sent[j + 1]).last = IF Numbered THEN j + 1 ELSE 0
             /\ HeldAt(Applied(sent[j + 1]).book, sent, j + 1, Numbered)
             /\ mode \subseteq {"unnumbered"} => MirrorAt(Applied(sent[j + 1]).book, sent, j + 1, Numbered)
      BY <1>3, <1>5, <3>1, <3>2, Takes
    <3>6. QED
      BY <3>1, <3>3, <3>4, <3>5
  <2>2. CASE UnderBook(sent, net, j, Numbered)
    <3>1. /\ Head(net).kind = "book" /\ Placed(Head(net), j, Numbered)
          /\ Head(net).after = AsOf(j) /\ Under(sent, net', j)
      BY <1>1, <1>2, <1>4, <2>2, UnderShorter DEF seq, AsOf
    <3>2. Head(net).pos = j
      BY <3>1 DEF Placed
    <3>3. QED
      BY <1>3, <3>1, <3>2, TakesBook
  <2>3. QED
    BY <1>4, <2>1, <2>2
<1>7. PICK i \in 1..seq :
        /\ Under(sent, net', i)
        /\ Taken(Head(net)) =>
             /\ Head(net).pos = i
             /\ Applied(Head(net)).last = IF Numbered THEN i ELSE 0
             /\ HeldAt(Applied(Head(net)).book, sent, i, Numbered)
             /\ mode \subseteq {"unnumbered"} => MirrorAt(Applied(Head(net)).book, sent, i, Numbered)
        /\ ~Taken(Head(net)) => Caught(sent, heard, i, Numbered)
  BY <1>6
<1>8. seq \in Nat /\ i \in 0..seq
  BY <1>3, ChainSays DEF seq
<1>9. Held' /\ Counted' /\ Caught(sent, heard', i, Numbered)
      /\ (mode \subseteq {"unnumbered"} => Mirrors)'
  <2>1. CASE Taken(Head(net))
    <3>1. /\ heard' = i /\ last' = (IF Numbered THEN i ELSE 0) /\ HeldAt(book', sent, i, Numbered)
          /\ mode \subseteq {"unnumbered"} => MirrorAt(book', sent, i, Numbered)
      BY <1>1, <1>7, <2>1
    <3>2. QED
      BY <1>1, <1>2, <1>8, <3>1 DEF Held, Counted, Caught, Mirrors
  <2>2. CASE ~Taken(Head(net))
    <3>1. UNCHANGED <<book, last, heard>> /\ Caught(sent, heard, i, Numbered)
      BY <1>1, <1>7, <2>2
    <3>2. QED
      BY <1>1, <1>2, <1>3, <1>5, <3>1 DEF Held, Counted, Mirrors
  <2>3. QED
    BY <2>1, <2>2
<1>10. MirrorsExchange'
  BY <1>9, MirrorsIs, PTL
<1>11. NetIs'
  BY <1>1, <1>2, <1>7, <1>9 DEF NetIs, NetFollows, seq
<1>12. QED
  BY <1>1, <1>2, <1>3, <1>9, <1>10, <1>11 DEF BInv, OnlyChanges

\* Every step keeps it.
LEMMA BNextInv == ASSUME SInv, BInv, [Next]_vars PROVE BInv'
<1> USE DEF BInv, OnlyChanges, NetIs, Held, Counted, MirrorsExchange, AsOf, seq, Numbered, Untold
<1>1. CASE \E n \in 1..MaxChanges : \E cs \in [1..n -> Change] : ExchangeChanges(cs)
  <2>1. PICK n \in 1..MaxChanges : \E cs \in [1..n -> Change] : ExchangeChanges(cs)
    BY <1>1
  <2>2. PICK cs \in [1..n -> Change] : ExchangeChanges(cs)
    BY <2>1
  <2>3. QED
    BY <2>2, ExchangeKeeps
<1>2. CASE Disconnect
  BY <1>2 DEF Disconnect, bookVars
<1>3. CASE Connect
  BY <1>3, ConnectKeeps
<1>4. CASE Deliver
  BY <1>4, DeliverKeeps
<1>5. CASE UNCHANGED <<netVars, bookVars>>
  BY <1>5 DEF netVars, bookVars
<1>6. CASE Sync
  BY <1>5, <1>6 DEF Sync
<1>7. CASE SyncStores
  BY <1>5, <1>7 DEF SyncStores
<1>8. CASE FetchBook
  BY <1>5, <1>8 DEF FetchBook
<1>9. CASE FetchApplies
  <2>1. "http" \in mode /\ UNCHANGED <<netVars, last, heard>> /\ book' = Empty
    BY <1>9 DEF FetchApplies, SInv, NoFetch
  <2>2. ~(mode \subseteq {"unnumbered"})
    BY <2>1
  <2>3. HeldAt(Empty, sent, heard, Numbered)
    <3>1. Empty \in Book /\ \A level \in Levels : ~Shows(Empty, level)
      BY LevelIs DEF Empty, Book, Sides, Shows
    <3>2. QED
      BY <3>1 DEF HeldAt
  <2>4. UNCHANGED <<mode, sent, net, conn, last, heard>>
    BY <2>1 DEF netVars
  <2>5. QED
    BY <2>1, <2>2, <2>3, <2>4
<1>10. CASE FetchFails
  BY <1>5, <1>10 DEF FetchFails
<1>11. CASE TimePasses
  BY <1>11 DEF TimePasses, netVars
<1>12. CASE UNCHANGED vars
  BY <1>5, <1>12 DEF vars
<1>13. QED
  BY <1>1, <1>2, <1>3, <1>4, <1>6, <1>7, <1>8, <1>9, <1>10, <1>11, <1>12 DEF Next

\* It holds at first.
LEMMA BInitInv == Init => BInv
<1> SUFFICES ASSUME Init PROVE BInv
  OBVIOUS
<1>1. Max(Prices) \in Prices
  <2>1. Prices \in SUBSET (0..Ceiling) /\ Ceiling \in Nat /\ Prices # {}
    BY MarketBookAssumption
  <2>2. QED
    BY <2>1, MaxIs
<1>2. PICK b : b = [bids |-> Prices \ {Max(Prices)}, asks |-> {Max(Prices)}]
  OBVIOUS
<1>3. b \in Book
  BY <1>1, <1>2 DEF Book
<1>4. PICK m : m = BookMessage(1, b)
  OBVIOUS
<1>5. sent = <<m>> /\ net = <<>> /\ conn = "down" /\ book = Empty /\ last = 0 /\ heard = 0
  BY <1>2, <1>4 DEF Init
<1>6. m.kind = "book" /\ Placed(m, 1, Numbered)
  BY <1>3, <1>4 DEF BookMessage, Placed, Number, Numbered
<1>7. Len(sent) = 1 /\ DOMAIN sent = {1} /\ sent[1] = m
  BY <1>5, Short
<1>8. Chain(sent, Numbered)
  BY <1>6, <1>7 DEF Chain
<1>9. HeldAt(Empty, sent, 0, Numbered)
  <2>1. Empty \in Book /\ \A level \in Levels : ~Shows(Empty, level)
    BY LevelIs DEF Empty, Book, Sides, Shows
  <2>2. QED
    BY <2>1 DEF HeldAt
<1>10. QED
  BY <1>5, <1>7, <1>8, <1>9 DEF BInv, OnlyChanges, NetIs, Held, Counted, MirrorsExchange, seq

\* ... and always, with what snapshots need.
LEMMA BInvHolds == Spec => [](SInv /\ BInv)
<1>1. SInv /\ BInv /\ [Next]_vars => (SInv /\ BInv)'
  BY SNextInv, BNextInv
<1>2. QED
  BY <1>1, SInitInv, BInitInv, PTL DEF Spec

\* The levels held are exactly the exchange's as of the last message applied
\* (_apply_price_change, _apply_book), but for those that only a later change of a
\* numbered message tells, through lost connections, gaps, and books repeated; with
\* any number of changes in a message, and with messages that have no number.
THEOREM BookMirrors == Spec => []MirrorsExchange
<1>1. SInv /\ BInv => MirrorsExchange
  BY DEF BInv
<1>2. QED
  BY <1>1, BInvHolds, PTL

\* ... and with best_bid_ask messages and fetches, no level but those is held that
\* the exchange has not, except for one removed by the last message applied.
THEOREM BookInventsNothing == Spec => []LevelsExist
<1>1. ASSUME BInv PROVE LevelsExist
  <2>1. SUFFICES ASSUME heard > 0, NEW level \in Levels \ Untold(heard), Shows(book, level)
        PROVE  Shows(AsOf(heard), level) \/ Shows(AsOf(Max({1, heard - 1})), level)
    BY DEF LevelsExist, Shows
  <2>2. heard \in Nat /\ heard # 0
    BY <1>1, <2>1, ChainSays DEF BInv, Held, seq
  <2>3. May(sent, heard, level)
    BY <1>1, <2>1, UntoldIs DEF BInv, Held, HeldAt
  <2>4. Early(sent, heard) => Max({1, heard - 1}) = heard - 1
    <3>1. Early(sent, heard) => heard > 1
      BY DEF Early
    <3>2. Max({1, heard - 1}) = IF heard - 1 > 1 THEN heard - 1 ELSE 1
      BY <2>2, MaxOfTwo
    <3>3. QED
      BY <2>2, <3>1, <3>2
  <2>5. QED
    BY <2>2, <2>3, <2>4 DEF May, AsOf
<1>2. QED
  BY <1>1, BInvHolds, PTL
================================================================================
