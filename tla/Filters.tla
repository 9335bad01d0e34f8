------------------------------- MODULE Filters -------------------------------
(***************************************************************************)
(* Array.prototype.filter, on positions: SelectSeq has no definition that  *)
(* the proof system can expand, so the lists that theorems speak of are    *)
(* filtered with Kept.                                                     *)
(***************************************************************************)
EXTENDS Naturals, Sequences, FiniteSets

\* The positions of set up to i.
UpTo(set, i) == {j \in set : j <= i}

\* The position of set that is the k-th.
Nth(set, k) == CHOOSE i \in set : Cardinality(UpTo(set, i)) = k

\* The elements of list at the positions of set, in the order of list.
Kept(list, set) == [k \in 1..Cardinality(set) |-> list[Nth(set, k)]]

=============================================================================
