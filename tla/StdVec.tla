------------------------------- MODULE StdVec --------------------------------
(***************************************************************************)
(* The operations of Rust's Vec and slice the indexes are built on.  They  *)
(* are the standard library's, so this module is modelled from how         *)
(* engine/src/{index,vector,text}.rs call them.  Positions are 1-based:    *)
(* position p here is index p - 1 there.                                   *)
(***************************************************************************)
EXTENDS Integers, Sequences, FiniteSets

(* swap_remove: the last element takes the place of the removed one.       *)
SwapRemove(s, p) ==
  [k \in 1..(Len(s) - 1) |-> IF k = p THEN s[Len(s)] ELSE s[k]]

(* drain: `count` elements after the first `from` are removed, and the     *)
(* rest of the tail is shifted down.                                       *)
Drain(s, from, count) ==
  [k \in 1..(Len(s) - count) |-> IF k <= from THEN s[k] ELSE s[k + count]]

(* position(|y| y == x): the first position that holds x, or 0.           *)
PositionOf(s, x) ==
  IF \E p \in DOMAIN s : s[p] = x
  THEN CHOOSE p \in DOMAIN s : s[p] = x /\ \A q \in 1..(p - 1) : s[q] # x
  ELSE 0

(* partition_point on a slice partitioned by the test (those that satisfy  *)
(* it first): how many do.                                                 *)
PartitionPoint(s, Test(_)) == Cardinality({p \in DOMAIN s : Test(s[p])})

(* binary_search_by_key: the position of `key` among keys[1..n], or 0 for  *)
(* Err.  On a sorted slice any search does; on another one the result is   *)
(* that of the library's loop, which halves the window keeping its lower   *)
(* end unless the probe is greater than the key.                           *)
BinarySearch(keys, key) ==
  LET window[size \in 1..Len(keys)] ==
        [base \in Nat |->
           IF size = 1 THEN base
           ELSE LET half == size \div 2
                    mid  == base + half
                IN  window[size - half][IF keys[mid] > key THEN base ELSE mid]]
  IN  IF keys = <<>> THEN 0
      ELSE LET p == window[Len(keys)][1] IN IF keys[p] = key THEN p ELSE 0

(* A sort of the set S by a total order on it: the element with k - 1      *)
(* others before it comes k-th.                                            *)
Ranked(S, Lt(_, _)) ==
  [k \in 1..Cardinality(S) |->
     CHOOSE x \in S : Cardinality({y \in S : Lt(y, x)}) = k - 1]

(* filter: the elements of s that are in S, in their order.                *)
Filtered(s, S) ==
  LET kept[n \in 0..Len(s)] ==
        IF n = 0 THEN <<>>
        ELSE IF s[n] \in S THEN Append(kept[n - 1], s[n]) ELSE kept[n - 1]
  IN  kept[Len(s)]

(* sort_by, on a vector of scored numbers <<number, score>>: descending by *)
(* score, and ascending by number among equal scores.                      *)
Ahead(scored, x) == {y \in scored : y[2] > x[2] \/ (y[2] = x[2] /\ y[1] < x[1])}

BestFirst(scored) ==
  [p \in 1..Cardinality(scored) |->
     CHOOSE x \in scored : Cardinality(Ahead(scored, x)) = p - 1]
=============================================================================
