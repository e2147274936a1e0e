---------------------------- MODULE RecentQueue ----------------------------
(* A queue that keeps the last Capacity items put into it.                 *)
EXTENDS Naturals, Sequences

CONSTANTS Capacity, Item

VARIABLE q

Put(x) ==
  q' = IF Len(q) < Capacity THEN Append(q, x) ELSE Append(Tail(q), x)

Take  == q # <<>> /\ q' = Tail(q)
Clear == q' = <<>>

Spec == q = <<>> /\ [][Take \/ Clear \/ \E x \in Item : Put(x)]_q
=============================================================================
