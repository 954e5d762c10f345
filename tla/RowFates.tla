-------------------------------- MODULE RowFates --------------------------------
(***************************************************************************)
(* What a trade journal promises for every row it is given: the row waits, *)
(* then meets exactly one final fate.  It is in the file, or it was        *)
(* dropped from a full queue, or its write failed; what has happened to a  *)
(* row never changes.  TradeJournal implements this.                       *)
(***************************************************************************)
EXTENDS Naturals, Sequences, FiniteSets

CONSTANTS MaxRows  \* bound: rows given

VARIABLES fates  \* fates[r]: what has happened to the r-th row

Init == fates = <<>>

Waits(r) == r \in DOMAIN fates /\ fates[r] = "waiting"

\* A row is given; when too many wait, the oldest is dropped for it, or the
\* next one if that is being written.
Give ==
  /\ Len(fates) < MaxRows
  /\ \/ fates' = Append(fates, "waiting")
     \/ \E r \in DOMAIN fates :
          /\ Waits(r) /\ Cardinality({q \in 1..r : Waits(q)}) <= 2
          /\ fates' = Append([fates EXCEPT ![r] = "dropped"], "waiting")

Settle ==
  \E r \in DOMAIN fates, f \in {"written", "failed"} :
    Waits(r) /\ fates' = [fates EXCEPT ![r] = f]

Next == Give \/ Settle

Spec == Init /\ [][Next]_fates
=============================================================================
