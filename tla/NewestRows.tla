------------------------------ MODULE NewestRows ------------------------------
(* What the warehouse owes a reader: of every record put into a partition,  *)
(* the newest version put so far, and no more.  Files, their replacement by *)
(* larger ones and the catalog's columns are no part of it.                 *)

EXTENDS Naturals

CONSTANTS Partitions, Uids, Versions

VARIABLE newest   \* the newest rows of each partition

Rows == [uid : Uids, version : Versions]

NewestOf(rows) ==
  {r \in rows : \A q \in rows : q.uid = r.uid => q.version <= r.version}

Init == newest = [p \in Partitions |-> {}]

Put(p, rows) == newest' = [newest EXCEPT ![p] = NewestOf(@ \cup rows)]

Next == \E p \in Partitions, rows \in SUBSET Rows : Put(p, rows)

Spec == Init /\ [][Next]_newest

=============================================================================
