-------------------------- MODULE AggregationProofs --------------------------
(***************************************************************************)
(* Proofs about Aggregation, for every stream: the groups are the classes  *)
(* of the stream by key, sums are exact unless the float accumulator is    *)
(* seeded twice, and the order of the groups is total.                     *)
(*                                                                         *)
(* Sorting by key gives a permutation `order` of the stream's positions,   *)
(* ascending by key and, within a key, by position.  A run of equal keys   *)
(* is then an ascending list of positions with the set of all places of    *)
(* its key, and there is only one such list.                               *)
(***************************************************************************)
EXTENDS Aggregation, StdVecProofs

-----------------------------------------------------------------------------
(* Types and the order of values.                                          *)

Pair == Value \X (Value \cup {Missing})

StreamOK == pairs \in Seq(Pair)

(* The stream is always a sequence of pairs.                               *)
LEMMA AlwaysStream == Spec => []StreamOK
<1>1. Init => StreamOK
  BY DEF Init, StreamOK
<1>2. StreamOK /\ [Next]_pairs => StreamOK'
  <2> SUFFICES ASSUME StreamOK, [Next]_pairs PROVE StreamOK'
    OBVIOUS
  <2>1. CASE UNCHANGED pairs
    BY <2>1 DEF StreamOK
  <2>2. ASSUME NEW key \in GroupKeys \cup {Missing}, NEW value \in FieldValues \cup {Missing},
               Push(key, value)
        PROVE  StreamOK'
    <3>1. OrNull(key) \in Value
      <4>1. NullValue \in Value
        BY DEF Value, Lanes, NullValue
      <4>2. key = Missing \/ key \in Value
        BY AggAssumption
      <4> QED
        BY <4>1, <4>2 DEF OrNull
    <3>2. value \in Value \cup {Missing}
      BY AggAssumption
    <3> QED
      BY <2>2, <3>1, <3>2 DEF Push, StreamOK, Pair
  <2> QED
    BY <2>1, <2>2 DEF Next
<1> QED
  BY <1>1, <1>2, PTL DEF Spec

(* Values are in one of three relations, Less is transitive, and it cannot *)
(* tell values that are Same.                                              *)
LEMMA ValueOrder ==
  /\ \A v \in Value : ~Less(v, v) /\ Same(v, v)
  /\ \A v, w \in Value : Less(v, w) \/ Same(v, w) \/ Less(w, v)
  /\ \A v, w \in Value : Same(v, w) => Same(w, v) /\ ~Less(v, w) /\ ~Less(w, v)
  /\ \A v, w, x \in Value :
       /\ Less(v, w) /\ Less(w, x) => Less(v, x)
       /\ Same(v, w) /\ Same(w, x) => Same(v, x)
       /\ Same(v, w) /\ Less(w, x) => Less(v, x)
       /\ Less(v, w) /\ Same(w, x) => Less(v, x)
<1>1. \A v \in Value : v.rank \in Int /\ v.n \in Int
  BY DEF Value
<1> QED
  BY <1>1 DEF Less, Same

-----------------------------------------------------------------------------
(* Sorting.                                                                *)

(* Numbers in their order.                                                 *)
Upward == {p \in Int \X Int : p[1] < p[2]}

LEMMA UpwardOrders ==
  /\ \A x, y \in Int : <<x, y>> \in Upward <=> x < y
  /\ \A S \in SUBSET Int : StrictOn(Upward, S) /\ TotalOn(Upward, S)
<1>1. \A x, y \in Int : <<x, y>> \in Upward <=> x < y
  BY DEF Upward
<1>2. ASSUME NEW S \in SUBSET Int PROVE StrictOn(Upward, S) /\ TotalOn(Upward, S)
  <2>1. \A x \in S : x \in Int
    OBVIOUS
  <2>2. StrictOn(Upward, S)
    BY <1>1, <2>1 DEF StrictOn
  <2>3. TotalOn(Upward, S)
    BY <1>1, <2>1 DEF TotalOn
  <2> QED
    BY <2>2, <2>3
<1> QED
  BY <1>1, <1>2

(* A finite set of numbers is listed in their order.                       *)
LEMMA NumbersRanked ==
  ASSUME NEW S \in SUBSET Int, IsFiniteSet(S)
  PROVE  LET r == Ranked(S, <)
         IN  /\ r \in Seq(S) /\ Len(r) = Cardinality(S) /\ ToSet(r) = S
             /\ Ordered(r, Upward)
             /\ \A i, j \in 1..Len(r) : i < j => r[i] < r[j]
<1> DEFINE r == Ranked(S, <)
<1>1. r = [k \in 1..Cardinality(S) |->
             CHOOSE x \in S : Cardinality({y \in S : y < x}) = k - 1]
  BY DEF Ranked
<1>2. \A x \in S : {y \in S : y < x} = Lesser(S, Upward, x)
  BY UpwardOrders DEF Lesser
<1>3. StrictOn(Upward, S) /\ TotalOn(Upward, S)
  BY UpwardOrders
<1> HIDE DEF r
<1>4. ASSUME NEW k \in 1..Cardinality(S)
      PROVE  r[k] \in S /\ Cardinality(Lesser(S, Upward, r[k])) = k - 1
  <2>1. \A m \in 1..Cardinality(S) :
          \E x \in S : Cardinality(Lesser(S, Upward, x)) = m - 1
    BY <1>3, RankExists
  <2>2. PICK w \in S : Cardinality(Lesser(S, Upward, w)) = k - 1
    BY <2>1
  <2>3. \E x \in S : Cardinality({y \in S : y < x}) = k - 1
    BY <1>2, <2>2
  <2>4. r[k] = CHOOSE x \in S : Cardinality({y \in S : y < x}) = k - 1
    BY <1>1
  <2>5. r[k] \in S /\ Cardinality({y \in S : y < r[k]}) = k - 1
    BY <2>3, <2>4
  <2> QED
    BY <1>2, <2>5
<1>5. r \in [1..Cardinality(S) -> S]
  BY <1>1, <1>4
<1>6. r \in Seq(S) /\ Len(r) = Cardinality(S) /\ ToSet(r) = S /\ Ordered(r, Upward)
  BY <1>3, <1>4, <1>5, RankedOrders
<1>7. \A i, j \in 1..Len(r) : i < j => r[i] < r[j]
  <2>1. \A i \in 1..Len(r) : r[i] \in Int
    BY <1>5, <1>6
  <2> QED
    BY <1>6, <2>1, UpwardOrders DEF Ordered
<1> QED
  BY <1>6, <1>7 DEF r

(* The order of the sort by key: stable, so that positions break ties.     *)
KeyOrder ==
  {p \in (DOMAIN pairs) \X (DOMAIN pairs) :
     \/ Less(pairs[p[1]][1], pairs[p[2]][1])
     \/ Same(pairs[p[1]][1], pairs[p[2]][1]) /\ p[1] < p[2]}

(* `order` lists the stream's positions in that order.                     *)
SortsByKey(order) ==
  /\ order \in Seq(DOMAIN pairs) /\ Len(order) = Len(pairs)
  /\ ToSet(order) = DOMAIN pairs
  /\ Ordered(order, KeyOrder)
  /\ ByKey = [k \in 1..Len(pairs) |-> pairs[order[k]]]

LEMMA SortedByKey ==
  ASSUME StreamOK
  PROVE  \E order : SortsByKey(order)
<1> DEFINE D == DOMAIN pairs
           before(i, j) == \/ Less(pairs[i][1], pairs[j][1])
                           \/ Same(pairs[i][1], pairs[j][1]) /\ i < j
           order == Ranked(D, before)
<1>1. Len(pairs) \in Nat /\ D = 1..Len(pairs) /\ \A i \in D : i \in Nat /\ pairs[i][1] \in Value
  BY DEF StreamOK, Pair
<1>2. IsFiniteSet(D) /\ Cardinality(D) = Len(pairs)
  BY <1>1, FS_Interval
<1>3. ByKey = [k \in DOMAIN order |-> pairs[order[k]]]
  BY DEF ByKey
<1>4. order = [k \in 1..Cardinality(D) |->
                 CHOOSE x \in D : Cardinality({y \in D : before(y, x)}) = k - 1]
  BY DEF Ranked
<1>5. \A i, j \in D : <<i, j>> \in KeyOrder <=> before(i, j)
  BY DEF KeyOrder
<1>6. StrictOn(KeyOrder, D) /\ TotalOn(KeyOrder, D)
  <2>1. \A i, j \in D : before(i, j) \/ before(j, i) \/ i = j
    BY <1>1, ValueOrder
  <2>2. \A i \in D : ~before(i, i)
    BY <1>1, ValueOrder
  <2>3. \A i, j, k \in D : before(i, j) /\ before(j, k) => before(i, k)
    <3> SUFFICES ASSUME NEW i \in D, NEW j \in D, NEW k \in D, before(i, j), before(j, k)
                 PROVE  before(i, k)
      OBVIOUS
    <3>1. pairs[i][1] \in Value /\ pairs[j][1] \in Value /\ pairs[k][1] \in Value
          /\ i \in Nat /\ j \in Nat /\ k \in Nat
      BY <1>1
    <3>2. \A v, w, x \in Value :
            (Less(v, w) \/ Same(v, w)) /\ (Less(w, x) \/ Same(w, x)) =>
              Less(v, x) \/ (Same(v, x) /\ Same(v, w) /\ Same(w, x))
      BY ValueOrder
    <3>3. \A v, w \in Value : Same(v, w) => ~Less(v, w)
      BY ValueOrder
    <3> QED
      BY <3>1, <3>2, <3>3
  <2> HIDE DEF before, D
  <2>4. StrictOn(KeyOrder, D)
    BY <1>5, <2>2, <2>3 DEF StrictOn
  <2>5. TotalOn(KeyOrder, D)
    BY <1>5, <2>1 DEF TotalOn
  <2> QED
    BY <2>4, <2>5
<1>7. \A x \in D : {y \in D : before(y, x)} = Lesser(D, KeyOrder, x)
  <2> HIDE DEF before, D
  <2> QED
    BY <1>5 DEF Lesser
<1> HIDE DEF order, before, D
<1>8. ASSUME NEW k \in 1..Cardinality(D)
      PROVE  order[k] \in D /\ Cardinality(Lesser(D, KeyOrder, order[k])) = k - 1
  <2>1. \A m \in 1..Cardinality(D) :
          \E x \in D : Cardinality(Lesser(D, KeyOrder, x)) = m - 1
    BY <1>2, <1>6, RankExists
  <2>2. PICK w \in D : Cardinality(Lesser(D, KeyOrder, w)) = k - 1
    BY <2>1
  <2>3. \E x \in D : Cardinality({y \in D : before(y, x)}) = k - 1
    BY <1>7, <2>2
  <2>4. order[k] = CHOOSE x \in D : Cardinality({y \in D : before(y, x)}) = k - 1
    BY <1>4
  <2>5. order[k] \in D /\ Cardinality({y \in D : before(y, order[k])}) = k - 1
    BY <2>3, <2>4
  <2> QED
    BY <1>7, <2>5
<1>9. order \in [1..Cardinality(D) -> D]
  BY <1>4, <1>8
<1>10. order \in Seq(D) /\ Len(order) = Cardinality(D) /\ ToSet(order) = D
       /\ Ordered(order, KeyOrder)
  BY <1>2, <1>6, <1>8, <1>9, RankedOrders
<1>11. ByKey = [k \in 1..Len(pairs) |-> pairs[order[k]]]
  BY <1>2, <1>3, <1>9
<1>12. SortsByKey(order)
  BY <1>2, <1>10, <1>11 DEF SortsByKey, D
<1> QED
  BY <1>12

-----------------------------------------------------------------------------
(* Runs.                                                                   *)

(* The positions run k of `sorted` goes from and to.                       *)
From(sorted) == Ranked(Starts(sorted), <)
To(sorted, k) ==
  IF k = Len(From(sorted)) THEN Len(sorted) ELSE From(sorted)[k + 1] - 1

(* The starts S among 1..n in ascending order, each run going up to the    *)
(* next.                                                                   *)
Cuts(n, S, m, from, to) ==
  /\ n \in Nat /\ S \in SUBSET (1..n) /\ (n # 0 => 1 \in S)
  /\ m \in Nat /\ from \in [1..m -> S]
  /\ \A i \in S : \E k \in 1..m : from[k] = i
  /\ \A i, j \in 1..m : i < j => from[i] < from[j]
  /\ \A k \in 1..m : to[k] = IF k = m THEN n ELSE from[k + 1] - 1

(* Such runs leave no gaps, and there is no start within a run.            *)
LEMMA StartsCut ==
  ASSUME NEW n, NEW S, NEW m, NEW from, NEW to, Cuts(n, S, m, from, to)
  PROVE  /\ \A k \in 1..m : from[k] \in 1..n /\ to[k] \in 1..n /\ from[k] <= to[k]
         /\ \A k \in 1..m : \A i \in from[k]..to[k] :
              i # from[k] => i \in 2..n /\ i \notin S
         /\ \A i \in 1..n : \E k \in 1..m : i \in from[k]..to[k]
<1> USE DEF Cuts
<1>1. \A k \in 1..m : from[k] \in S /\ from[k] \in 1..n
  OBVIOUS
<1>2. ASSUME NEW k \in 1..m
      PROVE  /\ to[k] \in 1..n /\ from[k] <= to[k]
             /\ to[k] # n => k + 1 \in 1..m /\ to[k] = from[k + 1] - 1
  <2>1. CASE k = m
    <3>1. to[k] = n
      BY <2>1
    <3> QED
      BY <1>1, <3>1
  <2>2. CASE k # m
    <3>1. k + 1 \in 1..m /\ k < k + 1
      BY <2>2
    <3>2. from[k] < from[k + 1] /\ from[k] \in 1..n /\ from[k + 1] \in 1..n
      BY <1>1, <3>1
    <3>3. to[k] = from[k + 1] - 1
      BY <2>2
    <3> QED
      BY <3>1, <3>2, <3>3
  <2> QED
    BY <2>1, <2>2
<1>3. ASSUME NEW k \in 1..m, NEW i \in from[k]..to[k], i # from[k]
      PROVE  i \in 2..n /\ i \notin S
  <2>1. i \in 2..n /\ from[k] < i
    BY <1>1, <1>2, <1>3
  <2>2. ASSUME i \in S PROVE FALSE
    <3>1. PICK h \in 1..m : from[h] = i
      BY <2>2
    <3>2. k < h
      <4>1. ~(k < h) => h = k \/ h < k
        OBVIOUS
      <4>2. h < k => from[h] < from[k]
        OBVIOUS
      <4>3. from[h] \in 1..n /\ from[k] \in 1..n
        BY <1>1
      <4> QED
        BY <2>1, <3>1, <4>1, <4>2, <4>3
    <3>3. k # m /\ k + 1 \in 1..m /\ k + 1 <= h
      BY <3>2
    <3>4. from[k + 1] <= from[h]
      <4>1. k + 1 = h \/ k + 1 < h
        BY <3>3
      <4>2. k + 1 < h => from[k + 1] < from[h]
        BY <3>3
      <4>3. from[h] \in 1..n /\ from[k + 1] \in 1..n
        BY <1>1, <3>3
      <4> QED
        BY <4>1, <4>2, <4>3
    <3>5. to[k] = from[k + 1] - 1
      BY <3>3
    <3>6. from[k + 1] \in 1..n /\ from[k] \in 1..n
      BY <1>1, <3>3
    <3> QED
      BY <3>1, <3>4, <3>5, <3>6
  <2> QED
    BY <2>1, <2>2
<1>4. \A i \in 1..n : \E k \in 1..m : i \in from[k]..to[k]
  <2> DEFINE In(i) == \E k \in 1..m : i \in from[k]..to[k]
             T == {i \in Nat : i \in 1..n => In(i)}
  <2>1. \A i \in S : In(i)
    <3> TAKE i \in S
    <3>1. PICK k \in 1..m : from[k] = i
      OBVIOUS
    <3>2. i \in from[k]..to[k]
      BY <1>1, <1>2, <3>1
    <3> QED
      BY <3>2
  <2>2. 0 \in T
    OBVIOUS
  <2>3. ASSUME NEW i \in Nat, i \in T PROVE i + 1 \in T
    <3> SUFFICES ASSUME i + 1 \in 1..n, i + 1 \notin S PROVE In(i + 1)
      BY <2>1
    <3>1. i \in 1..n
      <4>1. i # 0
        OBVIOUS
      <4> QED
        BY <4>1
    <3>2. PICK k \in 1..m : i \in from[k]..to[k]
      BY <2>3, <3>1
    <3>3. from[k] \in 1..n /\ to[k] \in 1..n
      BY <1>1, <1>2
    <3>4. CASE to[k] = i
      <4>1. to[k] # n
        BY <3>4
      <4>2. k + 1 \in 1..m /\ to[k] = from[k + 1] - 1
        BY <1>2, <4>1
      <4>3. from[k + 1] = i + 1 /\ from[k + 1] \in S
        BY <1>1, <3>4, <4>2
      <4> QED
        BY <4>3
    <3>5. CASE to[k] # i
      <4>1. i + 1 \in from[k]..to[k]
        BY <3>2, <3>3, <3>5
      <4> QED
        BY <4>1
    <3> QED
      BY <3>4, <3>5
  <2> HIDE DEF T
  <2>4. Nat \subseteq T
    BY <2>2, <2>3, Induction
  <2>5. \A i \in 1..n : i \in T
    BY <2>4
  <2> QED
    BY <2>5 DEF T
<1> QED
  BY <1>1, <1>2, <1>3, <1>4

(* In a sequence ascending by key, the runs start at different keys in     *)
(* ascending order, each has one key, and together they have all.          *)
LEMMA RunBounds ==
  ASSUME NEW sorted \in Seq(Pair),
         \A i, j \in 1..Len(sorted) : i < j => ~Less(sorted[j][1], sorted[i][1])
  PROVE  LET m == Len(From(sorted)) IN
         /\ m \in Nat /\ Len(RunsOf(sorted)) = m /\ DOMAIN RunsOf(sorted) = 1..m
         /\ RunsOf(sorted) = [k \in 1..m |-> RunsOf(sorted)[k]]
         /\ \A k \in 1..m :
              /\ RunsOf(sorted)[k] = SubSeq(sorted, From(sorted)[k], To(sorted, k))
              /\ From(sorted)[k] \in 1..Len(sorted) /\ To(sorted, k) \in 1..Len(sorted)
              /\ From(sorted)[k] <= To(sorted, k)
              /\ \A i \in From(sorted)[k]..To(sorted, k) :
                   Same(sorted[i][1], sorted[From(sorted)[k]][1])
         /\ \A k, h \in 1..m :
              k < h => Less(sorted[From(sorted)[k]][1], sorted[From(sorted)[h]][1])
         /\ \A i \in 1..Len(sorted) :
              \E k \in 1..m : i \in From(sorted)[k]..To(sorted, k)
<1> DEFINE n == Len(sorted)
           S == Starts(sorted)
           from == From(sorted)
           to(k) == To(sorted, k)
           m == Len(from)
           Key(i) == sorted[i][1]
<1>1. n \in Nat /\ DOMAIN sorted = 1..n /\ \A i \in 1..n : Key(i) \in Value
  BY DEF Pair
<1>2. /\ S \subseteq 1..n
      /\ n # 0 => 1 \in S
      /\ \A i \in 2..n : i \notin S => Same(Key(i), Key(i - 1))
      /\ \A i \in 2..n : i \in S => ~Same(Key(i), Key(i - 1))
  BY <1>1 DEF Starts
<1>3. IsFiniteSet(S) /\ S \in SUBSET Int
  <2>1. IsFiniteSet(1..n)
    BY <1>1, FS_Interval
  <2> QED
    BY <1>1, <1>2, <2>1, FS_Subset
<1>4. /\ from \in Seq(S) /\ ToSet(from) = S
      /\ \A i, j \in 1..m : i < j => from[i] < from[j]
  BY <1>3, NumbersRanked DEF From
<1>5. /\ m \in Nat /\ DOMAIN from = 1..m
      /\ \A k \in 1..m : from[k] \in S /\ from[k] \in 1..n
      /\ \A i \in S : \E k \in 1..m : from[k] = i
  BY <1>2, <1>4, SeqElements
<1>6. \A k \in 1..m : to(k) = IF k = m THEN n ELSE from[k + 1] - 1
  BY DEF To
<1>7. Len(RunsOf(sorted)) = m /\ DOMAIN RunsOf(sorted) = 1..m
      /\ RunsOf(sorted) = [k \in 1..m |-> RunsOf(sorted)[k]]
      /\ \A k \in 1..m : RunsOf(sorted)[k] = SubSeq(sorted, from[k], to(k))
  <2>1. RunsOf(sorted) = [k \in DOMAIN from |-> SubSeq(sorted, from[k], to(k))]
    BY DEF RunsOf, From, To
  <2> HIDE DEF from, to, m
  <2>2. DOMAIN RunsOf(sorted) = 1..m /\ m \in Nat
    BY <1>5, <2>1
  <2>3. Len(RunsOf(sorted)) = m
    BY <2>1, <2>2
  <2>4. \A k \in 1..m : RunsOf(sorted)[k] = SubSeq(sorted, from[k], to(k))
    BY <1>5, <2>1
  <2>5. RunsOf(sorted) = [k \in 1..m |-> RunsOf(sorted)[k]]
    BY <2>1, <2>2
  <2> QED
    BY <2>2, <2>3, <2>4, <2>5
<1> HIDE DEF from, to, S
<1> DEFINE end == [k \in 1..m |-> to(k)]
<1>8. /\ \A k \in 1..m : to(k) \in 1..n /\ from[k] <= to(k)
      /\ \A k \in 1..m : \A i \in from[k]..to(k) :
           i # from[k] => i \in 2..n /\ i \notin S
      /\ \A i \in 1..n : \E k \in 1..m : i \in from[k]..to(k)
  <2>1. \A k \in 1..m : end[k] = to(k)
    OBVIOUS
  <2>2. from \in [1..m -> S] /\ S \in SUBSET (1..n)
    BY <1>2, <1>5, <1>4
  <2> HIDE DEF end, m, n
  <2>3. \A k \in 1..m : end[k] = IF k = m THEN n ELSE from[k + 1] - 1
    BY <1>6, <2>1
  <2>4. Cuts(n, S, m, from, end)
    BY <1>1, <1>2, <1>4, <1>5, <2>2, <2>3 DEF Cuts
  <2>5. /\ \A k \in 1..m : from[k] \in 1..n /\ end[k] \in 1..n /\ from[k] <= end[k]
        /\ \A k \in 1..m : \A i \in from[k]..end[k] :
             i # from[k] => i \in 2..n /\ i \notin S
        /\ \A i \in 1..n : \E k \in 1..m : i \in from[k]..end[k]
    <3> HIDE DEF from, S, to
    <3> QED
      BY ONLY <2>4, StartsCut
  <2> QED
    BY <2>1, <2>5
<1>10. ASSUME NEW k \in 1..m
       PROVE  \A i \in from[k]..to(k) : Same(Key(i), Key(from[k]))
  <2> DEFINE Bad == {i \in from[k]..to(k) : ~Same(Key(i), Key(from[k]))}
  <2> SUFFICES ASSUME Bad # {} PROVE FALSE
    OBVIOUS
  <2>1. from[k] \in 1..n /\ to(k) \in 1..n
    BY <1>5, <1>8
  <2>2. Bad \subseteq Nat
    <3>1. \A i \in from[k]..to(k) : i \in Nat
      BY <2>1
    <3> QED
      BY <3>1
  <2>3. PICK i \in Bad : \A j \in Bad : i <= j
    BY <2>2, Least
  <2>4. i # from[k]
    BY <1>1, <2>1, ValueOrder
  <2>5. i \in 2..n /\ Same(Key(i), Key(i - 1))
    BY <1>2, <1>8, <2>4
  <2>6. i - 1 \in from[k]..to(k) /\ i - 1 \in 1..n /\ ~(i <= i - 1)
    BY <2>1, <2>4, <2>5
  <2>7. Same(Key(i - 1), Key(from[k]))
    BY <2>3, <2>6
  <2>8. Key(i) \in Value /\ Key(i - 1) \in Value /\ Key(from[k]) \in Value
    BY <1>1, <2>1, <2>5, <2>6
  <2>9. Same(Key(i), Key(from[k]))
    BY <2>5, <2>7, <2>8, ValueOrder
  <2> QED
    BY <2>9
<1>11. ASSUME NEW k \in 1..m, NEW h \in 1..m, k < h
       PROVE  Less(Key(from[k]), Key(from[h]))
  <2>1. from[k] \in 1..n /\ from[h] \in 1..n /\ from[k] < from[h] /\ from[h] \in S
    BY <1>4, <1>5, <1>11
  <2> DEFINE p == from[h] - 1
  <2>2. p \in 1..n /\ from[h] \in 2..n /\ from[k] <= p /\ p < from[h]
    BY <1>1, <2>1
  <2>3. ~Same(Key(from[h]), Key(p))
    BY <1>2, <2>1, <2>2
  <2>4. ~Less(Key(from[h]), Key(p))
    BY <2>1, <2>2
  <2>5. from[k] = p \/ ~Less(Key(p), Key(from[k]))
    BY <1>1, <2>1, <2>2
  <2>6. Key(from[k]) \in Value /\ Key(from[h]) \in Value /\ Key(p) \in Value
    BY <1>1, <2>1, <2>2
  <2>7. Less(Key(p), Key(from[h]))
    BY <2>3, <2>4, <2>6, ValueOrder
  <2>8. CASE from[k] = p
    BY <2>7, <2>8
  <2>9. CASE from[k] # p
    <3>1. Less(Key(from[k]), Key(p)) \/ Same(Key(from[k]), Key(p))
      BY <2>5, <2>6, <2>9, ValueOrder
    <3> QED
      BY <2>6, <2>7, <3>1, ValueOrder
  <2> QED
    BY <2>8, <2>9
<1> QED
  BY <1>5, <1>7, <1>8, <1>10, <1>11 DEF from, to

(* The stream sorted by key is a sequence of its pairs, ascending by key.  *)
LEMMA SortedAscends ==
  ASSUME StreamOK, NEW order, SortsByKey(order)
  PROVE  /\ ByKey \in Seq(Pair) /\ Len(ByKey) = Len(pairs)
         /\ Len(pairs) \in Nat /\ DOMAIN pairs = 1..Len(pairs)
         /\ \A i \in 1..Len(pairs) :
              order[i] \in 1..Len(pairs) /\ ByKey[i] = pairs[order[i]] /\ ByKey[i][1] \in Value
         /\ \A i, j \in 1..Len(pairs) : i < j =>
              /\ ~Less(ByKey[j][1], ByKey[i][1])
              /\ Same(ByKey[i][1], ByKey[j][1]) => order[i] < order[j]
<1> DEFINE n == Len(pairs)
<1>1. n \in Nat /\ DOMAIN pairs = 1..n /\ \A i \in 1..n : pairs[i] \in Pair /\ pairs[i][1] \in Value
  BY DEF StreamOK, Pair
<1>2. \A i \in 1..n : order[i] \in 1..n
  BY <1>1 DEF SortsByKey
<1>3. ByKey = [k \in 1..n |-> pairs[order[k]]]
  BY DEF SortsByKey
<1>4. ByKey \in [1..n -> Pair]
  BY <1>1, <1>2, <1>3
<1>5. ByKey \in Seq(Pair) /\ Len(ByKey) = n
  BY <1>1, <1>4
<1>6. \A i \in 1..n : ByKey[i] = pairs[order[i]] /\ ByKey[i][1] \in Value
  BY <1>1, <1>2, <1>3
<1>7. ASSUME NEW i \in 1..n, NEW j \in 1..n, i < j
      PROVE  /\ ~Less(ByKey[j][1], ByKey[i][1])
             /\ Same(ByKey[i][1], ByKey[j][1]) => order[i] < order[j]
  <2>1. <<order[i], order[j]>> \in KeyOrder
    BY <1>7 DEF SortsByKey, Ordered
  <2>2. \/ Less(pairs[order[i]][1], pairs[order[j]][1])
        \/ Same(pairs[order[i]][1], pairs[order[j]][1]) /\ order[i] < order[j]
    BY <2>1 DEF KeyOrder
  <2>3. \/ Less(ByKey[i][1], ByKey[j][1])
        \/ Same(ByKey[i][1], ByKey[j][1]) /\ order[i] < order[j]
    BY <1>6, <2>2
  <2>4. ByKey[i][1] \in Value /\ ByKey[j][1] \in Value
    BY <1>6
  <2>5. \A v, w \in Value : /\ Same(v, w) => ~Less(v, w) /\ ~Less(w, v)
                            /\ Less(v, w) => ~Less(w, v)
    BY ValueOrder
  <2> QED
    BY <2>3, <2>4, <2>5
<1> HIDE DEF n
<1>8. \A i, j \in 1..n : i < j =>
              /\ ~Less(ByKey[j][1], ByKey[i][1])
              /\ Same(ByKey[i][1], ByKey[j][1]) => order[i] < order[j]
  BY <1>7
<1> QED
  BY <1>1, <1>2, <1>5, <1>6, <1>8 DEF n

(* What a run is to the stream: `at` lists all places of its key upwards,  *)
(* and the run holds what is there.                                        *)
IsClass(run, at) ==
  /\ at \in Seq(Int) /\ Len(at) \in Nat \ {0} /\ Ordered(at, Upward)
  /\ ToSet(at) = Places(Head(run)[1])
  /\ run \in Seq(Pair) /\ Len(run) = Len(at)
  /\ \A k \in 1..Len(at) : at[k] \in DOMAIN pairs /\ run[k] = pairs[at[k]]

(* Every run is the class of its key, the keys ascend, and every document  *)
(* is in a run.                                                            *)
LEMMA RunsAreClasses ==
  ASSUME StreamOK
  PROVE  /\ Runs \in Seq(Seq(Pair))
         /\ \A k \in DOMAIN Runs : \E at : IsClass(Runs[k], at)
         /\ \A k, h \in DOMAIN Runs :
              k < h => Less(Head(Runs[k])[1], Head(Runs[h])[1])
         /\ \A p \in ToSet(pairs) : \E k \in DOMAIN Runs : Same(Head(Runs[k])[1], p[1])
<1> DEFINE sorted == ByKey
           n == Len(pairs)
           from == From(sorted)
           to(k) == To(sorted, k)
           m == Len(from)
           Key(i) == sorted[i][1]
<1>1. PICK order : SortsByKey(order)
  BY SortedByKey
<1>2. /\ sorted \in Seq(Pair) /\ Len(sorted) = n /\ n \in Nat /\ DOMAIN pairs = 1..n
      /\ \A i \in 1..n : order[i] \in 1..n /\ sorted[i] = pairs[order[i]] /\ Key(i) \in Value
      /\ \A i, j \in 1..n : i < j => /\ ~Less(Key(j), Key(i))
                                     /\ Same(Key(i), Key(j)) => order[i] < order[j]
  BY <1>1, SortedAscends
<1>3. \A i \in 1..n : \E j \in 1..n : order[j] = i
  <2>1. DOMAIN order = 1..n
    BY <1>1, <1>2 DEF SortsByKey
  <2>2. \A i \in 1..n : i \in ToSet(order)
    BY <1>1, <1>2 DEF SortsByKey
  <2> QED
    BY <2>1, <2>2, Zenon DEF ToSet
<1> HIDE DEF sorted, n
<1>4. /\ m \in Nat /\ DOMAIN Runs = 1..m /\ Len(Runs) = m
      /\ Runs = [k \in 1..m |-> Runs[k]]
      /\ \A k \in 1..m :
           /\ Runs[k] = SubSeq(sorted, from[k], to(k))
           /\ from[k] \in 1..n /\ to(k) \in 1..n /\ from[k] <= to(k)
           /\ \A i \in from[k]..to(k) : Same(Key(i), Key(from[k]))
      /\ \A k, h \in 1..m : k < h => Less(Key(from[k]), Key(from[h]))
      /\ \A i \in 1..n : \E k \in 1..m : i \in from[k]..to(k)
  <2>1. \A i, j \in 1..Len(sorted) : i < j => ~Less(sorted[j][1], sorted[i][1])
    BY <1>2
  <2>2. Runs = RunsOf(sorted)
    BY DEF Runs, sorted
  <2> QED
    BY <1>2, <2>1, <2>2, RunBounds
<1> HIDE DEF from, to, m
<1> DEFINE len(k) == to(k) - from[k] + 1
<1>5. \A k \in 1..m : /\ Runs[k] \in Seq(Pair) /\ Len(Runs[k]) = len(k)
                      /\ len(k) \in Nat \ {0}
                      /\ \A i \in 1..len(k) :
                           /\ from[k] + i - 1 \in from[k]..to(k)
                           /\ from[k] + i - 1 \in 1..n
                           /\ Runs[k][i] = sorted[from[k] + i - 1]
                      /\ Head(Runs[k]) = sorted[from[k]]
  <2> TAKE k \in 1..m
  <2>1. /\ Runs[k] = SubSeq(sorted, from[k], to(k))
        /\ from[k] \in 1..n /\ to(k) \in 1..n /\ from[k] <= to(k)
    BY <1>4
  <2>2. len(k) \in Nat \ {0} /\ len(k) <= n
    BY <1>2, <2>1
  <2>3. ASSUME NEW i \in 1..len(k)
        PROVE  from[k] + i - 1 \in from[k]..to(k) /\ from[k] + i - 1 \in 1..n
    BY <1>2, <2>1, <2>2
  <2>4. Runs[k] = [i \in 1..len(k) |-> sorted[from[k] + i - 1]]
    <3>1. \A i \in 1..len(k) : i + from[k] - 1 = from[k] + i - 1
      BY <1>2, <2>1, <2>2
    <3> QED
      BY <2>1, <3>1
  <2>5. \A i \in 1..n : sorted[i] \in Pair
    BY <1>2
  <2> HIDE DEF len
  <2>6. Runs[k] \in [1..len(k) -> Pair]
    BY <2>3, <2>4, <2>5
  <2>7. Runs[k] \in Seq(Pair) /\ Len(Runs[k]) = len(k)
    BY <2>2, <2>6
  <2>8. 1 \in 1..len(k) /\ from[k] + 1 - 1 = from[k]
    BY <2>1, <2>2
  <2>9. Head(Runs[k]) = sorted[from[k]]
    BY <2>4, <2>7, <2>8
  <2> QED
    BY <2>2, <2>3, <2>4, <2>7, <2>9
<1>6. \A k, h \in 1..m : k < h => Less(Head(Runs[k])[1], Head(Runs[h])[1])
  BY <1>4, <1>5
<1>7. ASSUME NEW p \in ToSet(pairs)
      PROVE  \E k \in 1..m : Same(Head(Runs[k])[1], p[1])
  <2>1. PICK i \in 1..n : p = pairs[i]
    BY <1>2 DEF ToSet
  <2>2. PICK j \in 1..n : order[j] = i
    BY <1>3
  <2>3. PICK k \in 1..m : j \in from[k]..to(k)
    BY <1>4
  <2>4. Same(Key(j), Key(from[k])) /\ Key(j) = p[1] /\ Head(Runs[k])[1] = Key(from[k])
    BY <1>2, <1>4, <1>5, <2>1, <2>2, <2>3
  <2>5. Key(j) \in Value /\ Key(from[k]) \in Value
    BY <1>2, <1>4
  <2> QED
    BY <2>4, <2>5, ValueOrder
<1>8. ASSUME NEW k \in 1..m
      PROVE  \E at : IsClass(Runs[k], at)
  <2> DEFINE at == [i \in 1..len(k) |-> order[from[k] + i - 1]]
             key == Head(Runs[k])[1]
  <2>1. /\ Runs[k] \in Seq(Pair) /\ Len(Runs[k]) = len(k) /\ len(k) \in Nat \ {0}
        /\ \A i \in 1..len(k) : /\ from[k] + i - 1 \in from[k]..to(k)
                                /\ from[k] + i - 1 \in 1..n
                                /\ Runs[k][i] = sorted[from[k] + i - 1]
        /\ key = Key(from[k])
    BY <1>5
  <2>2. from[k] \in 1..n /\ to(k) \in 1..n /\ from[k] <= to(k)
        /\ \A i \in from[k]..to(k) : Same(Key(i), key)
    BY <1>4, <2>1
  <2>3. \A i \in 1..n : Key(i) \in Value /\ key \in Value
    BY <1>2, <2>1, <2>2
  <2>4. \A i \in from[k]..to(k) : i \in 1..n /\ i - from[k] + 1 \in 1..len(k)
                                  /\ from[k] + (i - from[k] + 1) - 1 = i
    <3> DEFINE first == from[k]
               last == to(k)
    <3>1. n \in Nat /\ first \in 1..n /\ last \in 1..n /\ len(k) = last - first + 1
      BY <1>2, <2>2
    <3> HIDE DEF first, last, len, n
    <3>2. \A i \in first..last : i \in 1..n /\ i - first + 1 \in 1..len(k)
                                 /\ first + (i - first + 1) - 1 = i
      BY <3>1
    <3> QED
      BY <3>2 DEF first, last
  <2> HIDE DEF len, key
  <2>5. \A i \in 1..len(k) : at[i] = order[from[k] + i - 1] /\ at[i] \in 1..n
    BY <1>2, <2>1
  <2>6. at \in Seq(Int) /\ Len(at) = len(k)
    <3>1. at \in [1..len(k) -> Int]
      BY <2>5
    <3> HIDE DEF at
    <3> QED
      BY <2>1, <3>1
  <2> HIDE DEF at
  <2>7. Ordered(at, Upward)
    <3> SUFFICES ASSUME NEW i \in 1..len(k), NEW j \in 1..len(k), i < j
                 PROVE  <<at[i], at[j]>> \in Upward
      BY <2>6 DEF Ordered
    <3> DEFINE p == from[k] + i - 1
               q == from[k] + j - 1
    <3>1. p \in from[k]..to(k) /\ q \in from[k]..to(k) /\ p \in 1..n /\ q \in 1..n /\ p < q
      BY <1>2, <2>1, <2>2
    <3> HIDE DEF p, q
    <3>2. Same(Key(p), key) /\ Same(Key(q), key)
      BY <2>2, <3>1
    <3>3. Same(Key(p), Key(q))
      BY <2>3, <3>1, <3>2, ValueOrder
    <3>4. order[p] < order[q]
      BY <1>2, <3>1, <3>3
    <3>5. at[i] = order[p] /\ at[j] = order[q] /\ at[i] \in Int /\ at[j] \in Int
      BY <2>5 DEF p, q
    <3> QED
      BY <3>4, <3>5, UpwardOrders
  <2>8. ToSet(at) = Places(key)
    <3>1. \A x : x \in ToSet(at) <=> \E i \in 1..len(k) : at[i] = x
      BY <2>6 DEF ToSet
    <3>2. \A x : x \in Places(key) <=> x \in 1..n /\ Same(pairs[x][1], key)
      BY <1>2 DEF Places
    <3>3. ASSUME NEW i \in 1..len(k) PROVE at[i] \in Places(key)
      <4>1. from[k] + i - 1 \in from[k]..to(k) /\ from[k] + i - 1 \in 1..n
        BY <2>1
      <4>2. Same(Key(from[k] + i - 1), key)
        BY <2>2, <4>1
      <4>3. at[i] = order[from[k] + i - 1] /\ at[i] \in 1..n
        BY <2>5
      <4>4. sorted[from[k] + i - 1] = pairs[at[i]]
        BY <1>2, <4>1, <4>3
      <4> QED
        BY <3>2, <4>2, <4>3, <4>4
    <3>4. ASSUME NEW x \in Places(key) PROVE \E i \in 1..len(k) : at[i] = x
      <4>1. x \in 1..n /\ Same(pairs[x][1], key)
        BY <3>2
      <4>2. PICK j \in 1..n : order[j] = x
        BY <1>3, <4>1
      <4>3. Same(Key(j), key)
        BY <1>2, <4>1, <4>2
      <4>4. PICK h \in 1..m : j \in from[h]..to(h)
        BY <1>4
      <4>5. Same(Key(j), Key(from[h])) /\ from[h] \in 1..n
        BY <1>4, <4>4
      <4>6. Same(Key(from[h]), key)
        BY <2>3, <4>3, <4>5, ValueOrder
      <4>7. ~(h < k) /\ ~(k < h)
        <5>1. \A v, w \in Value : Same(v, w) => ~Less(v, w) /\ ~Less(w, v)
          BY ValueOrder
        <5>2. ~Less(Key(from[h]), key) /\ ~Less(key, Key(from[h]))
          BY <2>3, <4>5, <4>6, <5>1
        <5>3. \A g, l \in 1..m : g < l => Less(Key(from[g]), Key(from[l]))
          BY <1>4
        <5> QED
          BY <2>1, <5>2, <5>3
      <4>8. h = k
        BY <1>4, <4>7
      <4>9. j - from[k] + 1 \in 1..len(k) /\ at[j - from[k] + 1] = x
        BY <2>4, <2>5, <4>2, <4>4, <4>8
      <4> QED
        BY <4>9
    <3> QED
      BY <3>1, <3>3, <3>4
  <2>9. \A i \in 1..Len(at) : at[i] \in DOMAIN pairs /\ Runs[k][i] = pairs[at[i]]
    BY <1>2, <2>1, <2>5, <2>6
  <2>10. IsClass(Runs[k], at)
    BY <2>1, <2>6, <2>7, <2>8, <2>9 DEF IsClass, key
  <2> QED
    BY <2>10
<1>9. Runs \in Seq(Seq(Pair))
  <2>1. Runs = [k \in 1..m |-> Runs[k]]
    BY <1>4
  <2>2. Runs \in [1..m -> Seq(Pair)]
    BY <1>5, <2>1
  <2>3. m \in Nat
    BY <1>4
  <2> QED
    BY <2>2, <2>3
<1> QED
  BY <1>4, <1>6, <1>7, <1>8, <1>9

(* So a run has the documents of its key in stream order, and begins and   *)
(* ends with the first and the last of them.                               *)
LEMMA ClassFacts ==
  ASSUME StreamOK, NEW run, NEW at, IsClass(run, at)
  PROVE  LET places == Places(Head(run)[1]) IN
         /\ run = Members(Head(run)[1])
         /\ Len(run) = Cardinality(places) /\ Len(run) \in Nat \ {0}
         /\ DOMAIN run = 1..Len(run)
         /\ Head(run) = pairs[Min(places)]
         /\ run[Len(run)] = pairs[Max(places)]
<1> DEFINE places == Places(Head(run)[1])
           r == Ranked(places, <)
           m == Len(at)
<1>1. /\ at \in Seq(Int) /\ m \in Nat \ {0} /\ Ordered(at, Upward)
      /\ ToSet(at) = places
      /\ run \in Seq(Pair) /\ Len(run) = m
      /\ \A k \in 1..m : at[k] \in DOMAIN pairs /\ run[k] = pairs[at[k]]
  BY DEF IsClass
<1>2. places \in SUBSET Int /\ IsFiniteSet(places)
  <2>1. Len(pairs) \in Nat /\ DOMAIN pairs = 1..Len(pairs)
    BY DEF StreamOK
  <2>2. places \subseteq 1..Len(pairs)
    BY <2>1 DEF Places
  <2>3. IsFiniteSet(1..Len(pairs))
    BY <2>1, FS_Interval
  <2> QED
    BY <2>1, <2>2, <2>3, FS_Subset
<1> HIDE DEF places
<1>3. /\ r \in Seq(places) /\ Len(r) = Cardinality(places) /\ ToSet(r) = places
      /\ Ordered(r, Upward)
  BY <1>2, NumbersRanked
<1>4. at = r
  <2>1. StrictOn(Upward, Int)
    BY UpwardOrders
  <2>2. r \in Seq(Int)
    <3> HIDE DEF r
    <3>1. Len(r) \in Nat /\ DOMAIN r = 1..Len(r) /\ r = [i \in 1..Len(r) |-> r[i]]
      BY <1>3
    <3>2. \A i \in 1..Len(r) : r[i] \in Int
      BY <1>2, <1>3, SeqElements
    <3>3. r \in [1..Len(r) -> Int]
      BY <3>1, <3>2
    <3> QED
      BY <3>1, <3>3
  <2> HIDE DEF r
  <2> QED
    BY <1>1, <1>3, <2>1, <2>2, OrderedUnique
<1> HIDE DEF r
<1>5. DOMAIN at = 1..m /\ DOMAIN run = 1..m /\ run = [k \in 1..m |-> run[k]]
  BY <1>1
<1>6. run = Members(Head(run)[1])
  <2>1. Members(Head(run)[1]) = [k \in DOMAIN at |-> pairs[at[k]]]
    BY <1>4 DEF Members, r, places
  <2> QED
    BY <1>1, <1>5, <2>1
<1>7. \A i \in 1..m : at[i] \in places /\ at[i] \in Int
  BY <1>1, <1>5 DEF ToSet
<1>8. \A x \in places : \E i \in 1..m : at[i] = x
  BY <1>1, <1>5, Zenon DEF ToSet
<1>9. \A i, j \in 1..m : i < j => at[i] < at[j]
  BY <1>1, <1>7, UpwardOrders DEF Ordered
<1>10. 1 \in 1..m /\ m \in 1..m /\ \A i \in 1..m : (i = 1 \/ 1 < i) /\ (i = m \/ i < m)
  BY <1>1
<1>11. \A x \in places : at[1] <= x /\ x <= at[m]
  <2> TAKE x \in places
  <2>1. PICK i \in 1..m : at[i] = x
    BY <1>8
  <2>2. (i = 1 \/ at[1] < at[i]) /\ (i = m \/ at[i] < at[m])
    BY <1>9, <1>10
  <2> QED
    BY <1>7, <1>10, <2>1, <2>2
<1>12. Min(places) = at[1]
  <2>1. \A x \in places : (\A y \in places : x <= y) => x = at[1]
    BY <1>2, <1>7, <1>10, <1>11
  <2>2. at[1] \in places /\ \A y \in places : at[1] <= y
    BY <1>7, <1>10, <1>11
  <2> QED
    BY <2>1, <2>2 DEF Min
<1>13. Max(places) = at[m]
  <2>1. \A x \in places : (\A y \in places : x >= y) => x = at[m]
    BY <1>2, <1>7, <1>10, <1>11
  <2>2. at[m] \in places /\ \A y \in places : at[m] >= y
    BY <1>2, <1>7, <1>10, <1>11
  <2> QED
    BY <2>1, <2>2 DEF Max
<1>14. Head(run) = pairs[at[1]] /\ run[m] = pairs[at[m]]
  BY <1>1, <1>10
<1>15. Len(run) = Cardinality(places) /\ Len(run) \in Nat \ {0} /\ DOMAIN run = 1..Len(run)
  BY <1>1, <1>3, <1>4, <1>5
<1> QED
  BY <1>1, <1>6, <1>12, <1>13, <1>14, <1>15 DEF places

(* GroupsExact: however often keys come and go in the stream, the groups   *)
(* agg() makes are the classes of its documents by key, in key order, each *)
(* in stream order.                                                        *)
THEOREM AggregationGroups == Spec => []GroupsExact
<1>1. StreamOK => GroupsExact
  <2> SUFFICES ASSUME StreamOK PROVE GroupsExact
    OBVIOUS
  <2>1. /\ \A k \in DOMAIN Runs : \E at : IsClass(Runs[k], at)
        /\ \A k, h \in DOMAIN Runs :
             k < h => Less(Head(Runs[k])[1], Head(Runs[h])[1])
        /\ \A p \in ToSet(pairs) : \E k \in DOMAIN Runs : Same(Head(Runs[k])[1], p[1])
    BY RunsAreClasses
  <2>2. ASSUME NEW run, NEW at, IsClass(run, at)
        PROVE  LET places == Places(Head(run)[1])
               IN  /\ run = Members(Head(run)[1])
                   /\ First(run) = OrNull(pairs[Min(places)][2])
                   /\ Final(run) = OrNull(pairs[Max(places)][2])
                   /\ Len(Collect(run)) = Cardinality(places)
    <3> DEFINE places == Places(Head(run)[1])
    <3>1. /\ run = Members(Head(run)[1])
          /\ Len(run) = Cardinality(places) /\ Len(run) \in Nat \ {0}
          /\ DOMAIN run = 1..Len(run)
          /\ Head(run) = pairs[Min(places)]
          /\ run[Len(run)] = pairs[Max(places)]
      BY <2>2, ClassFacts
    <3>2. First(run) = OrNull(pairs[Min(places)][2])
      BY <3>1 DEF First
    <3>3. Final(run) = OrNull(pairs[Max(places)][2])
      BY <3>1 DEF Final
    <3>4. Len(Collect(run)) = Len(run)
      BY <3>1 DEF Collect
    <3> QED
      BY <3>1, <3>2, <3>3, <3>4
  <2>3. \A k \in DOMAIN Runs :
          LET places == Places(Head(Runs[k])[1])
          IN  /\ Runs[k] = Members(Head(Runs[k])[1])
              /\ First(Runs[k]) = OrNull(pairs[Min(places)][2])
              /\ Final(Runs[k]) = OrNull(pairs[Max(places)][2])
              /\ Len(Collect(Runs[k])) = Cardinality(places)
    <3> TAKE k \in DOMAIN Runs
    <3>1. PICK at : IsClass(Runs[k], at)
      BY <2>1
    <3> DEFINE run == Runs[k]
    <3>2. IsClass(run, at)
      BY <3>1
    <3> HIDE DEF run
    <3>3. LET places == Places(Head(run)[1])
          IN  /\ run = Members(Head(run)[1])
              /\ First(run) = OrNull(pairs[Min(places)][2])
              /\ Final(run) = OrNull(pairs[Max(places)][2])
              /\ Len(Collect(run)) = Cardinality(places)
      BY <2>2, <3>2
    <3> QED
      BY <3>3 DEF run
  <2> QED
    BY <2>1, <2>3, Zenon DEF GroupsExact
<1> QED
  BY <1>1, AlwaysStream, PTL

-----------------------------------------------------------------------------
(* Sums.                                                                   *)

Acc == [int : Int, flt : Int, seen : BOOLEAN]

(* What add_numeric leaves in each accumulator.                            *)
LEMMA AddNumericFields ==
  ASSUME NEW acc \in Acc, NEW v \in Value \cup {Missing}
  PROVE  /\ AddNumeric(acc, v) \in Acc
         /\ ~IsNumber(v) => AddNumeric(acc, v) = acc
         /\ IsNumber(v) => v.n \in Int /\ AddNumeric(acc, v).int =
                             acc.int + (IF v.lane = "I64" THEN v.n ELSE 0)
         /\ IsNumber(v) /\ v.lane = "I64" =>
              /\ AddNumeric(acc, v).flt = IF acc.seen THEN acc.flt + v.n ELSE acc.flt
              /\ AddNumeric(acc, v).seen <=> acc.seen
         /\ IsNumber(v) /\ v.lane # "I64" =>
              /\ AddNumeric(acc, v).flt =
                   (IF acc.flt = 0 /\ acc.int # 0 THEN acc.int ELSE acc.flt) + v.n
              /\ AddNumeric(acc, v).seen
<1>1. acc.int \in Int /\ acc.flt \in Int /\ acc.seen \in BOOLEAN
      /\ acc = [int |-> acc.int, flt |-> acc.flt, seen |-> acc.seen]
  BY DEF Acc
<1>2. CASE IsNumber(v)
  <2>1. v.n \in Int
    BY <1>2, AggAssumption DEF IsNumber, Value
  <2>2. CASE v.lane = "I64"
    <3> DEFINE i == acc.int + v.n
               f == IF acc.seen THEN acc.flt + v.n ELSE acc.flt
    <3>1. AddNumeric(acc, v) =
            [acc EXCEPT !.int = acc.int + v.n,
                        !.flt = IF acc.seen THEN acc.flt + v.n ELSE acc.flt]
      BY <1>2, <2>2 DEF AddNumeric
    <3>2. i \in Int /\ f \in Int
      BY <1>1, <2>1
    <3>3. AddNumeric(acc, v) = [acc EXCEPT !.int = i, !.flt = f]
      BY <3>1
    <3> HIDE DEF i, f
    <3>4. AddNumeric(acc, v) = [int |-> i, flt |-> f, seen |-> acc.seen]
      BY <1>1, <3>3
    <3>5. AddNumeric(acc, v) \in Acc
      BY <1>1, <3>2, <3>4 DEF Acc
    <3>6. AddNumeric(acc, v).int = i /\ AddNumeric(acc, v).flt = f
      BY <3>4
    <3>7. AddNumeric(acc, v).seen <=> acc.seen
      BY <3>4
    <3> QED
      BY <1>2, <2>1, <2>2, <3>5, <3>6, <3>7 DEF i, f
  <2>3. CASE v.lane # "I64"
    <3> DEFINE f == (IF acc.flt = 0 /\ acc.int # 0 THEN acc.int ELSE acc.flt) + v.n
    <3>1. AddNumeric(acc, v) =
            [acc EXCEPT !.seen = TRUE,
                        !.flt = (IF acc.flt = 0 /\ acc.int # 0 THEN acc.int ELSE acc.flt) + v.n]
      BY <1>2, <2>3 DEF AddNumeric
    <3>2. f \in Int
      BY <1>1, <2>1
    <3>3. AddNumeric(acc, v) = [acc EXCEPT !.seen = TRUE, !.flt = f]
      BY <3>1
    <3> HIDE DEF f
    <3>4. AddNumeric(acc, v) = [int |-> acc.int, flt |-> f, seen |-> TRUE]
      BY <1>1, <3>3
    <3>5. AddNumeric(acc, v) \in Acc
      BY <1>1, <3>2, <3>4 DEF Acc
    <3>6. AddNumeric(acc, v).int = acc.int /\ AddNumeric(acc, v).flt = f
      BY <3>4
    <3>7. AddNumeric(acc, v).seen
      BY <3>4
    <3>8. acc.int = acc.int + 0
      BY <1>1
    <3> QED
      BY <1>2, <2>1, <2>3, <3>5, <3>6, <3>7, <3>8 DEF f
  <2> QED
    BY <2>2, <2>3
<1>3. CASE ~IsNumber(v)
  BY <1>3 DEF AddNumeric
<1> QED
  BY <1>2, <1>3

(* The accumulators start at zero and take up one document after another.  *)
LEMMA AccumulatedSteps ==
  ASSUME NEW run \in Seq(Pair)
  PROVE  /\ Accumulated(run)[0] = Zero
         /\ \A k \in 0..Len(run) : Accumulated(run)[k] \in Acc
         /\ \A k \in 1..Len(run) :
              Accumulated(run)[k] = AddNumeric(Accumulated(run)[k - 1], run[k][2])
<1> DEFINE n == Len(run)
           Then(v, k) == AddNumeric(v, run[k][2])
           step == [p \in Acc \X (1..n) |-> Then(p[1], p[2])]
           Body(g, k) == IF k = 0 THEN Zero ELSE AddNumeric(g[k - 1], run[k][2])
           acc == Accumulated(run)
<1>1. n \in Nat /\ \A k \in 1..n : run[k][2] \in Value \cup {Missing}
  BY DEF Pair
<1>2. \A v \in Acc, k \in 1..n : step[<<v, k>>] = Then(v, k)
  OBVIOUS
<1>3. Zero \in Acc /\ \A v \in Acc, k \in 1..n : Then(v, k) \in Acc
  <2>1. Zero \in Acc
    BY DEF Zero, Acc
  <2> QED
    BY <1>1, <2>1, AddNumericFields
<1> HIDE DEF step
<1>4. Steps(step, n, Acc)
  <2> HIDE DEF Then, n
  <2> QED
    BY <1>2, <1>3 DEF Steps
<1>5. PICK f : Recursion(f, n, Acc, Zero, step)
  <2> HIDE DEF n
  <2> QED
    BY <1>1, <1>3, <1>4, RecursionExists
<1>6. f = [k \in 0..n |-> Body(f, k)]
  <2>1. \A k \in 0..n : k = 0 \/ (k # 0 /\ k \in 1..n /\ k - 1 \in 0..n)
    BY <1>1
  <2> HIDE DEF n
  <2>2. \A k \in 1..n : f[k] = Then(f[k - 1], k)
    <3> HIDE DEF Then
    <3>1. \A k \in 1..n : k - 1 \in 0..n
      BY <1>1
    <3> QED
      BY <1>2, <1>5, <3>1 DEF Recursion
  <2>3. f[0] = Zero /\ f = [k \in 0..n |-> f[k]]
    BY <1>5 DEF Recursion
  <2>4. \A k \in 0..n : f[k] = Body(f, k)
    BY <2>1, <2>2, <2>3
  <2> HIDE DEF Body
  <2> QED
    BY <2>3, <2>4
<1>7. acc = [k \in 0..n |-> Body(acc, k)]
  <2>1. acc = CHOOSE g : g = [k \in 0..n |-> Body(g, k)]
    BY DEF Accumulated
  <2> HIDE DEF Body, acc
  <2> QED
    BY <1>6, <2>1
<1> HIDE DEF acc
<1>8. acc[0] = Zero /\ acc = [k \in 0..n |-> acc[k]]
      /\ \A k \in 1..n : acc[k] = Then(acc[k - 1], k)
  <2>1. \A k \in 0..n : acc[k] = Body(acc, k)
    <3> HIDE DEF Body
    <3> QED
      BY <1>7
  <2>2. 0 \in 0..n /\ \A k \in 1..n : k \in 0..n /\ k # 0
    BY <1>1
  <2>3. acc = [k \in 0..n |-> acc[k]]
    <3> HIDE DEF Body
    <3> QED
      BY <1>7
  <2> QED
    BY <2>1, <2>2, <2>3
<1>9. \A k \in 0..n : acc[k] \in Acc
  <2> DEFINE T == {k \in Nat : k <= n => acc[k] \in Acc}
  <2>1. 0 \in T
    BY <1>3, <1>8
  <2>2. ASSUME NEW k \in Nat, k \in T PROVE k + 1 \in T
    <3> SUFFICES ASSUME k + 1 <= n PROVE acc[k + 1] \in Acc
      OBVIOUS
    <3> DEFINE h == k + 1
    <3>1. h \in 1..n /\ h - 1 = k /\ acc[k] \in Acc
      BY <1>1, <2>2
    <3> HIDE DEF n, Then, h
    <3>2. acc[h] = Then(acc[h - 1], h)
      BY <1>8, <3>1, Zenon
    <3>3. acc[h] \in Acc
      BY <1>3, <3>1, <3>2
    <3> QED
      BY <3>3 DEF h
  <2> HIDE DEF T
  <2>3. Nat \subseteq T
    BY <2>1, <2>2, Induction
  <2> QED
    BY <1>1, <2>3 DEF T
<1> QED
  BY <1>8, <1>9 DEF acc

(* What document k of a run adds to the total, and whether it is a float.  *)
Amount(run, k) == IF IsNumber(run[k][2]) THEN run[k][2].n ELSE 0
IsFloat(run, k) == IsNumber(run[k][2]) /\ run[k][2].lane = "F64"

LEMMA AmountType ==
  ASSUME NEW run \in Seq(Pair), NEW k \in 1..Len(run)
  PROVE  run[k][2] \in Value \cup {Missing} /\ Amount(run, k) \in Int
<1>1. run[k][2] \in Value \cup {Missing}
  BY DEF Pair
<1>2. IsNumber(run[k][2]) => run[k][2].n \in Int
  BY <1>1, AggAssumption DEF IsNumber, Value
<1> QED
  BY <1>1, <1>2 DEF Amount

(* The running total of a run.                                             *)
Totals(t, run) ==
  /\ t \in [0..Len(run) -> Int]
  /\ t[0] = 0
  /\ \A k \in 1..Len(run) : t[k] = t[k - 1] + Amount(run, k)

LEMMA TotalSteps ==
  ASSUME NEW run \in Seq(Pair)
  PROVE  \E t : Totals(t, run) /\ Total(run) = t[Len(run)]
<1> DEFINE n == Len(run)
           Then(v, k) == v + Amount(run, k)
           step == [p \in Int \X (1..n) |-> Then(p[1], p[2])]
           Body(g, k) == IF k = 0 THEN 0
                         ELSE g[k - 1] + IF IsNumber(run[k][2]) THEN run[k][2].n ELSE 0
           t == CHOOSE g : g = [k \in 0..n |-> Body(g, k)]
<1>1. n \in Nat /\ \A k \in 1..n : Amount(run, k) \in Int
  BY AmountType
<1>2. \A v \in Int, k \in 1..n : step[<<v, k>>] = Then(v, k)
  OBVIOUS
<1>3. \A v \in Int, k \in 1..n : Then(v, k) \in Int
  BY <1>1
<1> HIDE DEF step
<1>4. Steps(step, n, Int)
  <2> HIDE DEF Then, n
  <2> QED
    BY <1>2, <1>3 DEF Steps
<1>5. PICK f : Recursion(f, n, Int, 0, step)
  <2> HIDE DEF n
  <2>1. 0 \in Int
    OBVIOUS
  <2> QED
    BY <1>1, <1>4, <2>1, RecursionExists
<1>6. f = [k \in 0..n |-> Body(f, k)]
  <2>1. \A k \in 0..n : k = 0 \/ (k # 0 /\ k \in 1..n /\ k - 1 \in 0..n)
    BY <1>1
  <2> HIDE DEF n
  <2>2. \A k \in 1..n : f[k] = Then(f[k - 1], k)
    <3> HIDE DEF Then
    <3>1. \A k \in 1..n : k - 1 \in 0..n
      BY <1>1
    <3> QED
      BY <1>2, <1>5, <3>1 DEF Recursion
  <2>3. f[0] = 0 /\ f = [k \in 0..n |-> f[k]]
    BY <1>5 DEF Recursion
  <2>4. \A k \in 0..n : f[k] = Body(f, k)
    BY <2>1, <2>2, <2>3 DEF Amount
  <2> HIDE DEF Body
  <2> QED
    BY <2>3, <2>4
<1>7. t = [k \in 0..n |-> Body(t, k)]
  <2> HIDE DEF Body
  <2> QED
    BY <1>6
<1>8. Total(run) = t[n]
  BY DEF Total
<1> HIDE DEF t
<1>9. t[0] = 0 /\ t = [k \in 0..n |-> t[k]]
      /\ \A k \in 1..n : t[k] = Then(t[k - 1], k)
  <2>1. \A k \in 0..n : t[k] = Body(t, k)
    <3> HIDE DEF Body
    <3> QED
      BY <1>7
  <2>2. 0 \in 0..n /\ \A k \in 1..n : k \in 0..n /\ k # 0
    BY <1>1
  <2>3. t = [k \in 0..n |-> t[k]]
    <3> HIDE DEF Body
    <3> QED
      BY <1>7
  <2> QED
    BY <2>1, <2>2, <2>3 DEF Amount
<1>10. \A k \in 0..n : t[k] \in Int
  <2> DEFINE T == {k \in Nat : k <= n => t[k] \in Int}
  <2>1. 0 \in T
    BY <1>9
  <2>2. ASSUME NEW k \in Nat, k \in T PROVE k + 1 \in T
    <3> SUFFICES ASSUME k + 1 <= n PROVE t[k + 1] \in Int
      OBVIOUS
    <3> DEFINE h == k + 1
    <3>1. h \in 1..n /\ h - 1 = k /\ t[k] \in Int
      BY <1>1, <2>2
    <3> HIDE DEF n, Then, h
    <3>2. t[h] = Then(t[h - 1], h)
      BY <1>9, <3>1, Zenon
    <3>3. t[h] \in Int
      BY <1>3, <3>1, <3>2
    <3> QED
      BY <3>3 DEF h
  <2> HIDE DEF T
  <2>3. Nat \subseteq T
    BY <2>1, <2>2, Induction
  <2> QED
    BY <1>1, <2>3 DEF T
<1>11. Totals(t, run)
  <2>1. t \in [0..n -> Int]
    <3> HIDE DEF n
    <3> QED
      BY <1>9, <1>10
  <2> QED
    BY <1>9, <2>1 DEF Totals
<1> QED
  BY <1>8, <1>11

(* What holds of the accumulators acc when the running total is t: until   *)
(* the first float the integer one is the total and the float one zero,    *)
(* then the float one is the total.                                        *)
Agree(acc, t, floats) ==
  /\ acc.seen <=> floats
  /\ acc.seen => acc.flt = t
  /\ ~acc.seen => acc.int = t /\ acc.flt = 0

(* One document keeps it, unless it is a float that finds the float        *)
(* accumulator in use and at zero.                                         *)
LEMMA AgreeStep ==
  ASSUME NEW acc \in Acc, NEW v \in Value \cup {Missing}, NEW t \in Int,
         NEW floats \in BOOLEAN, Agree(acc, t, floats),
         ~(IsNumber(v) /\ v.lane = "F64" /\ acc.seen /\ acc.flt = 0 /\ acc.int # 0)
  PROVE  Agree(AddNumeric(acc, v), t + (IF IsNumber(v) THEN v.n ELSE 0),
               floats \/ (IsNumber(v) /\ v.lane = "F64"))
<1> DEFINE new == AddNumeric(acc, v)
<1>1. acc.int \in Int /\ acc.flt \in Int /\ acc.seen \in BOOLEAN
  BY DEF Acc
<1>2. CASE ~IsNumber(v)
  <2>1. new = acc
    BY <1>2, AddNumericFields
  <2>2. t + 0 = t
    OBVIOUS
  <2> QED
    BY <1>2, <2>1, <2>2 DEF Agree
<1>3. CASE IsNumber(v) /\ v.lane = "I64"
  <2>1. /\ v.n \in Int /\ new.int = acc.int + v.n
        /\ new.flt = IF acc.seen THEN acc.flt + v.n ELSE acc.flt
        /\ new.seen <=> acc.seen
    BY <1>3, AddNumericFields
  <2>2. v.lane # "F64"
    BY <1>3
  <2> HIDE DEF new
  <2>3. Agree(new, t + v.n, floats)
    BY <1>1, <2>1 DEF Agree
  <2> QED
    BY <1>3, <2>2, <2>3 DEF new
<1>4. CASE IsNumber(v) /\ v.lane # "I64"
  <2>1. /\ v.n \in Int
        /\ new.flt = (IF acc.flt = 0 /\ acc.int # 0 THEN acc.int ELSE acc.flt) + v.n
        /\ new.seen
    BY <1>4, AddNumericFields
  <2>2. v.lane = "F64"
    BY <1>4 DEF IsNumber
  <2>3. (IF acc.flt = 0 /\ acc.int # 0 THEN acc.int ELSE acc.flt) = t
    <3>1. CASE acc.seen
      BY <1>1, <1>4, <2>2, <3>1 DEF Agree
    <3>2. CASE ~acc.seen
      BY <1>1, <3>2 DEF Agree
    <3> QED
      BY <3>1, <3>2
  <2> HIDE DEF new
  <2>4. Agree(new, t + v.n, TRUE)
    BY <2>1, <2>3 DEF Agree
  <2> QED
    BY <1>4, <2>2, <2>4 DEF new
<1> QED
  BY <1>2, <1>3, <1>4

(* So it holds after a whole run that no float reseeds.                    *)
LEMMA RunAgrees ==
  ASSUME NEW run \in Seq(Pair), ~Reseeded(run)
  PROVE  Agree(Accumulated(run)[Len(run)], Total(run),
               \E k \in 1..Len(run) : IsFloat(run, k))
<1> DEFINE n == Len(run)
           acc == Accumulated(run)
           Floats(k) == \E h \in 1..k : IsFloat(run, h)
<1>1. PICK t : Totals(t, run) /\ Total(run) = t[n]
  BY TotalSteps
<1>2. /\ n \in Nat /\ DOMAIN run = 1..n
      /\ t \in [0..n -> Int] /\ t[0] = 0
      /\ \A k \in 1..n : t[k] = t[k - 1] + Amount(run, k)
  BY <1>1 DEF Totals
<1>3. /\ acc[0] = Zero
      /\ \A k \in 0..n : acc[k] \in Acc
      /\ \A k \in 1..n : acc[k] = AddNumeric(acc[k - 1], run[k][2])
  BY AccumulatedSteps
<1>4. ASSUME NEW k \in 1..n
      PROVE  ~(IsFloat(run, k) /\ acc[k - 1].seen /\ acc[k - 1].flt = 0 /\ acc[k - 1].int # 0)
  <2> SUFFICES ASSUME IsFloat(run, k), acc[k - 1].seen, acc[k - 1].flt = 0, acc[k - 1].int # 0
               PROVE  FALSE
    OBVIOUS
  <2>1. k \in Numbers(run)
    BY <1>2 DEF Numbers, IsFloat
  <2> QED
    BY <2>1 DEF Reseeded, IsFloat
<1> DEFINE Holds(k) == Agree(acc[k], t[k], Floats(k))
           T == {k \in Nat : k <= n => Holds(k)}
<1>5. 0 \in T
  <2>1. ~Floats(0)
    OBVIOUS
  <2> HIDE DEF acc, Floats
  <2>2. Agree(acc[0], t[0], Floats(0))
    BY <1>2, <1>3, <2>1 DEF Agree, Zero
  <2> QED
    BY <2>2
<1>6. ASSUME NEW k \in Nat, k \in T PROVE k + 1 \in T
  <2> SUFFICES ASSUME k + 1 <= n PROVE Holds(k + 1)
    <3> HIDE DEF Holds, n
    <3> QED
      OBVIOUS
  <2> DEFINE h == k + 1
             v == run[h][2]
  <2>1. h \in 1..n /\ h - 1 = k /\ k \in 0..n
    BY <1>2
  <2>2. Agree(acc[k], t[k], Floats(k))
    <3>1. k <= n
      BY <1>2
    <3>2. Holds(k)
      <4> HIDE DEF Holds, n
      <4> QED
        BY <1>6, <3>1
    <3> QED
      BY <3>2
  <2>3. Floats(h) <=> Floats(k) \/ IsFloat(run, h)
    <3>1. \A i : i \in 1..h <=> i \in 1..k \/ i = h
      OBVIOUS
    <3> HIDE DEF h
    <3> QED
      BY <3>1
  <2>4. v \in Value \cup {Missing}
    <3> HIDE DEF h
    <3> QED
      BY <2>1, AmountType
  <2> HIDE DEF n, acc, h, Floats
  <2>5. acc[h] = AddNumeric(acc[k], v) /\ acc[k] \in Acc
    <3>1. acc[h] = AddNumeric(acc[h - 1], run[h][2])
      BY <1>3, <2>1, Zenon
    <3> QED
      BY <1>3, <2>1, <3>1
  <2>6. t[h] = t[k] + (IF IsNumber(v) THEN v.n ELSE 0) /\ t[k] \in Int
    <3>1. t[h] = t[h - 1] + Amount(run, h)
      BY <1>2, <2>1, Zenon
    <3> QED
      BY <1>2, <2>1, <3>1 DEF Amount
  <2>7. ~(IsFloat(run, h) /\ acc[k].seen /\ acc[k].flt = 0 /\ acc[k].int # 0)
    <3>1. ~(IsFloat(run, h) /\ acc[h - 1].seen /\ acc[h - 1].flt = 0 /\ acc[h - 1].int # 0)
      BY <1>4, <2>1
    <3> QED
      BY <2>1, <3>1
  <2>8. IsFloat(run, h) <=> IsNumber(v) /\ v.lane = "F64"
    BY DEF IsFloat
  <2>9. Floats(k) \in BOOLEAN
    BY DEF Floats
  <2> HIDE DEF v
  <2>10. Agree(AddNumeric(acc[k], v), t[k] + (IF IsNumber(v) THEN v.n ELSE 0),
               Floats(k) \/ (IsNumber(v) /\ v.lane = "F64"))
    BY <2>2, <2>4, <2>5, <2>6, <2>7, <2>8, <2>9, AgreeStep
  <2>11. Agree(acc[h], t[h], Floats(h))
    BY <2>3, <2>5, <2>6, <2>8, <2>10 DEF Agree
  <2> QED
    BY <2>11 DEF h
<1> HIDE DEF T
<1>7. Nat \subseteq T
  BY <1>5, <1>6, Induction
<1>8. Holds(n)
  <2> HIDE DEF Holds, n
  <2>1. n \in T /\ n <= n
    BY <1>2, <1>7
  <2> QED
    BY <2>1 DEF T
<1> QED
  <2> HIDE DEF acc, n
  <2> QED
    BY <1>1, <1>8 DEF acc, n

(* SumExactUnlessReseeded: in whatever order integers and floats come, a   *)
(* sum is the total of the numbers, an integer unless a float takes part   *)
(* or it overflows, and the mean that total over their number; but for     *)
(* runs where a float finds the float accumulator back at zero.            *)
THEOREM AggregationSums == Spec => []SumExactUnlessReseeded
<1>1. StreamOK => SumExactUnlessReseeded
  <2> SUFFICES ASSUME StreamOK, NEW run \in ToSet(Runs), ~Reseeded(run)
               PROVE  LET total  == Total(run)
                          floats == \E k \in Numbers(run) : run[k][2].lane = "F64"
                          fits   == total \in (-MaxI64 - 1)..MaxI64
                      IN  /\ Sum(run) = IF ~floats /\ fits THEN I64(total) ELSE F64(total)
                          /\ Numbers(run) # {} =>
                               Mean(run).n = <<total, Cardinality(Numbers(run))>>
    BY DEF SumExactUnlessReseeded
  <2> DEFINE n == Len(run)
             acc == Accumulated(run)[n]
             total == Total(run)
             floats == \E k \in Numbers(run) : run[k][2].lane = "F64"
             fits == total \in (-MaxI64 - 1)..MaxI64
  <2>1. run \in Seq(Pair)
    <3>1. Runs \in Seq(Seq(Pair))
      BY RunsAreClasses
    <3> QED
      BY <3>1, SeqElements DEF ToSet
  <2>2. n \in Nat /\ DOMAIN run = 1..n
    BY <2>1
  <2>3. floats <=> \E k \in 1..n : IsFloat(run, k)
    BY <2>2 DEF Numbers, IsFloat
  <2>4. Agree(acc, total, \E k \in 1..n : IsFloat(run, k))
    BY <2>1, RunAgrees
  <2>5. (acc.seen <=> floats) /\ (acc.seen => acc.flt = total) /\ (~acc.seen => acc.int = total)
    BY <2>3, <2>4 DEF Agree
  <2>6. Sum(run) = IF acc.seen THEN F64(acc.flt)
                   ELSE IF acc.int \in (-MaxI64 - 1)..MaxI64 THEN I64(acc.int) ELSE F64(acc.int)
    BY DEF Sum
  <2>7. Cardinality(Numbers(run)) # 0 <=> Numbers(run) # {}
    <3>1. IsFiniteSet(1..n) /\ Numbers(run) \subseteq 1..n
      BY <2>2, FS_Interval DEF Numbers
    <3> QED
      BY <3>1, FS_Subset, FS_EmptySet
  <2>8. ASSUME Numbers(run) # {}
        PROVE  Mean(run).n = <<IF acc.seen THEN acc.flt ELSE acc.int, Cardinality(Numbers(run))>>
    BY <2>7, <2>8 DEF Mean
  <2> HIDE DEF acc, total, floats, fits
  <2>9. Sum(run) = IF ~floats /\ fits THEN I64(total) ELSE F64(total)
    <3>1. CASE acc.seen
      BY <2>5, <2>6, <3>1
    <3>2. CASE ~acc.seen
      BY <2>5, <2>6, <3>2 DEF fits
    <3> QED
      BY <3>1, <3>2
  <2>10. Numbers(run) # {} => Mean(run).n = <<total, Cardinality(Numbers(run))>>
    BY <2>5, <2>8
  <2> QED
    BY <2>9, <2>10 DEF total, floats, fits
<1> QED
  BY <1>1, AlwaysStream, PTL

-----------------------------------------------------------------------------
(* The extremes.                                                           *)

(* The values a run's documents have of the field.                         *)
LEMMA PresentValues ==
  ASSUME NEW run \in Seq(Pair)
  PROVE  Present(run) \in Seq(Value)
<1> DEFINE fields == FieldsOf(run)
           kept == ToSet(fields) \ {Missing}
           vs == Filtered(fields, kept)
<1>1. Len(run) \in Nat /\ DOMAIN run = 1..Len(run)
      /\ \A k \in 1..Len(run) : run[k][2] \in Value \cup {Missing}
  BY DEF Pair
<1>2. fields \in Seq(Value \cup {Missing})
  <2>1. fields \in [1..Len(run) -> Value \cup {Missing}]
    BY <1>1 DEF FieldsOf
  <2> HIDE DEF fields
  <2> QED
    BY <1>1, <2>1
<1> HIDE DEF fields, kept
<1>3. vs \in Seq(Value \cup {Missing}) /\ ToSet(vs) = ToSet(fields) \cap kept
  BY <1>2, FilteredKeeps
<1> HIDE DEF vs
<1>4. \A i \in 1..Len(vs) : vs[i] \in Value
  <2>1. \A i \in 1..Len(vs) : vs[i] \in Value \cup {Missing} /\ vs[i] \in kept
    BY <1>3, SeqElements
  <2> QED
    BY <2>1 DEF kept
<1>5. vs \in Seq(Value)
  <2>1. Len(vs) \in Nat /\ vs = [i \in 1..Len(vs) |-> vs[i]]
    BY <1>3
  <2>2. vs \in [1..Len(vs) -> Value]
    BY <1>4, <2>1
  <2> QED
    BY <2>1, <2>2
<1> QED
  BY <1>5 DEF Present, vs, kept, fields

(* A pass over values that keeps, of the one it has and the next, one that *)
(* neither beats, ends with one that no value beats.                       *)
Passes(best, vs, beats) ==
  /\ best[0] = vs[1]
  /\ \A k \in 1..(Len(vs) - 1) :
       /\ best[k] \in {best[k - 1], vs[k + 1]}
       /\ <<best[k - 1], best[k]>> \notin beats
       /\ <<vs[k + 1], best[k]>> \notin beats

LEMMA PassKeepsBest ==
  ASSUME NEW beats, \A v \in Value : <<v, v>> \notin beats,
         \A v, w, x \in Value : <<v, w>> \notin beats /\ <<w, x>> \notin beats
                                 => <<v, x>> \notin beats,
         NEW vs \in Seq(Value), vs # <<>>, NEW best, Passes(best, vs, beats)
  PROVE  \A v \in ToSet(vs) : <<v, best[Len(vs) - 1]>> \notin beats
<1> DEFINE n == Len(vs) - 1
           Holds(k) == best[k] \in Value /\ \A j \in 1..(k + 1) : <<vs[j], best[k]>> \notin beats
           T == {k \in Nat : k <= n => Holds(k)}
<1>1. n \in Nat /\ Len(vs) = n + 1 /\ \A j \in 1..(n + 1) : vs[j] \in Value
  OBVIOUS
<1>2. /\ best[0] = vs[1]
      /\ \A k \in 1..n : /\ best[k] \in {best[k - 1], vs[k + 1]}
                         /\ <<best[k - 1], best[k]>> \notin beats
                         /\ <<vs[k + 1], best[k]>> \notin beats
  BY DEF Passes
<1>3. 0 \in T
  <2>1. \A j \in 1..(0 + 1) : j = 1
    OBVIOUS
  <2>2. vs[1] \in Value
    BY <1>1
  <2> HIDE DEF n
  <2>3. Holds(0)
    BY <1>2, <2>1, <2>2
  <2> HIDE DEF Holds
  <2> QED
    BY <2>3
<1>4. ASSUME NEW k \in Nat, k \in T PROVE k + 1 \in T
  <2> SUFFICES ASSUME k + 1 <= n PROVE Holds(k + 1)
    <3> HIDE DEF Holds, n
    <3> QED
      OBVIOUS
  <2> DEFINE h == k + 1
  <2>1. h \in 1..n /\ h - 1 = k /\ h + 1 \in 1..(n + 1)
        /\ \A j \in 1..(h + 1) : j \in 1..(n + 1) /\ (j \in 1..(k + 1) \/ j = h + 1)
    BY <1>1
  <2>2. Holds(k)
    <3>1. k <= n
      BY <1>1
    <3> HIDE DEF Holds, n
    <3> QED
      BY <1>4, <3>1
  <2> HIDE DEF n, h
  <2>3. /\ best[h] \in {best[k], vs[h + 1]} /\ <<best[k], best[h]>> \notin beats
        /\ <<vs[h + 1], best[h]>> \notin beats
    <3>1. /\ best[h] \in {best[h - 1], vs[h + 1]} /\ <<best[h - 1], best[h]>> \notin beats
          /\ <<vs[h + 1], best[h]>> \notin beats
      BY <1>2, <2>1, Zenon
    <3> QED
      BY <2>1, <3>1
  <2>4. vs[h + 1] \in Value /\ best[h] \in Value /\ best[k] \in Value
    BY <1>1, <2>1, <2>2, <2>3
  <2>5. ASSUME NEW j \in 1..(h + 1) PROVE <<vs[j], best[h]>> \notin beats
    <3>1. CASE j \in 1..(k + 1)
      <4>1. <<vs[j], best[k]>> \notin beats /\ vs[j] \in Value
        BY <1>1, <2>1, <2>2, <3>1
      <4> QED
        BY <2>3, <2>4, <4>1
    <3>2. CASE j = h + 1
      BY <2>3, <3>2
    <3> QED
      BY <2>1, <3>1, <3>2
  <2>6. Holds(h)
    BY <2>4, <2>5
  <2> QED
    BY <2>6 DEF h
<1> HIDE DEF T
<1>5. Nat \subseteq T
  BY <1>3, <1>4, Induction
<1>6. Holds(n)
  <2> HIDE DEF Holds, n
  <2>1. n \in T /\ n <= n
    BY <1>1, <1>5
  <2> QED
    BY <2>1 DEF T
<1>7. \A v \in ToSet(vs) : \E j \in 1..(n + 1) : vs[j] = v
  BY <1>1, SeqElements
<1> HIDE DEF n
<1>8. \A v \in ToSet(vs) : <<v, best[n]>> \notin beats
  BY <1>6, <1>7
<1> QED
  BY <1>8 DEF n

(* Beating by being less, or by being greater.                             *)
LessThan == {p \in Value \X Value : Less(p[1], p[2])}
GreaterThan == {p \in Value \X Value : Less(p[2], p[1])}

LEMMA BeatsOrders ==
  /\ \A v, w \in Value : <<v, w>> \in LessThan <=> Less(v, w)
  /\ \A v, w \in Value : <<v, w>> \in GreaterThan <=> Less(w, v)
  /\ \A v \in Value : <<v, v>> \notin LessThan /\ <<v, v>> \notin GreaterThan
  /\ \A v, w, x \in Value :
       /\ <<v, w>> \notin LessThan /\ <<w, x>> \notin LessThan => <<v, x>> \notin LessThan
       /\ <<v, w>> \notin GreaterThan /\ <<w, x>> \notin GreaterThan
            => <<v, x>> \notin GreaterThan
<1>1. \A v, w \in Value : <<v, w>> \in LessThan <=> Less(v, w)
  BY DEF LessThan
<1>2. \A v, w \in Value : <<v, w>> \in GreaterThan <=> Less(w, v)
  BY DEF GreaterThan
<1>3. \A v \in Value : ~Less(v, v)
  BY ValueOrder
<1>4. \A v, w, x \in Value : ~Less(v, w) /\ ~Less(w, x) => ~Less(v, x)
  <2> TAKE v, w, x \in Value
  <2>1. Less(w, v) \/ Same(w, v) \/ Less(v, w)
    BY ValueOrder
  <2>2. Less(x, w) \/ Same(x, w) \/ Less(w, x)
    BY ValueOrder
  <2>3. /\ Less(x, w) /\ Less(w, v) => Less(x, v)
        /\ Same(x, w) /\ Same(w, v) => Same(x, v)
        /\ Same(x, w) /\ Less(w, v) => Less(x, v)
        /\ Less(x, w) /\ Same(w, v) => Less(x, v)
    BY ValueOrder
  <2>4. Less(x, v) \/ Same(x, v) => ~Less(v, x)
    <3>1. Same(x, v) => ~Less(v, x)
      BY ValueOrder
    <3>2. Less(x, v) /\ Less(v, x) => Less(x, x)
      BY ValueOrder
    <3> QED
      BY <1>3, <3>1, <3>2
  <2> QED
    BY <2>1, <2>2, <2>3, <2>4
<1> QED
  BY <1>1, <1>2, <1>3, <1>4

(* No value of the group is less than its minimum.                         *)
LEMMA MinimumBounds ==
  ASSUME NEW run \in Seq(Pair), NEW v \in ToSet(Present(run))
  PROVE  ~Less(v, Minimum(run))
<1> DEFINE vs == Present(run)
           n == Len(vs) - 1
           Then(x, k) == IF Less(vs[k + 1], x) THEN vs[k + 1] ELSE x
           step == [p \in Value \X (1..n) |-> Then(p[1], p[2])]
           Body(g, k) == IF k = 0 THEN vs[1] ELSE IF Less(vs[k + 1], g[k - 1]) THEN vs[k + 1] ELSE g[k - 1]
           best == CHOOSE g : g = [k \in 0..n |-> Body(g, k)]
<1>1. vs \in Seq(Value) /\ vs # <<>>
  <2>1. vs \in Seq(Value)
    BY PresentValues
  <2>2. \E i \in 1..Len(vs) : vs[i] = v
    BY <2>1, SeqElements
  <2> QED
    BY <2>1, <2>2
<1>2. n \in Nat /\ Len(vs) = n + 1 /\ \A k \in 1..(n + 1) : vs[k] \in Value
  <2> HIDE DEF vs
  <2> QED
    BY <1>1
<1>3. Minimum(run) = best[n]
  BY <1>1 DEF Minimum
<1> HIDE DEF vs, best
<1>4. \A k \in 1..n : k + 1 \in 1..(n + 1) /\ vs[k + 1] \in Value
  BY <1>2
<1>5. \A x \in Value, k \in 1..n : step[<<x, k>>] = Then(x, k) /\ Then(x, k) \in Value
  BY <1>4
<1> HIDE DEF step
<1>6. Steps(step, n, Value)
  <2> HIDE DEF Then, n
  <2> QED
    BY <1>5 DEF Steps
<1>7. PICK f : Recursion(f, n, Value, vs[1], step)
  <2>1. vs[1] \in Value
    BY <1>2
  <2> HIDE DEF n
  <2> QED
    BY <1>2, <1>6, <2>1, RecursionExists
<1>8. f = [k \in 0..n |-> Body(f, k)]
  <2>1. \A k \in 0..n : k = 0 \/ (k # 0 /\ k \in 1..n /\ k - 1 \in 0..n)
    BY <1>2
  <2> HIDE DEF n
  <2>2. \A k \in 1..n : f[k] = Then(f[k - 1], k)
    <3> HIDE DEF Then
    <3>1. \A k \in 1..n : k - 1 \in 0..n
      BY <1>2
    <3> QED
      BY <1>5, <1>7, <3>1 DEF Recursion
  <2>3. f[0] = vs[1] /\ f = [k \in 0..n |-> f[k]]
    BY <1>7 DEF Recursion
  <2>4. \A k \in 0..n : f[k] = Body(f, k)
    BY <2>1, <2>2, <2>3
  <2> HIDE DEF Body
  <2> QED
    BY <2>3, <2>4
<1>9. best = [k \in 0..n |-> Body(best, k)]
  <2> HIDE DEF Body, n
  <2> QED
    BY <1>8 DEF best
<1>10. best[0] = vs[1] /\ best = [k \in 0..n |-> best[k]]
       /\ \A k \in 1..n : best[k] = Then(best[k - 1], k)
  <2>1. \A k \in 0..n : best[k] = Body(best, k)
    <3> HIDE DEF Body, n
    <3> QED
      BY <1>9
  <2>2. 0 \in 0..n /\ \A k \in 1..n : k \in 0..n /\ k # 0
    BY <1>2
  <2>3. best = [k \in 0..n |-> best[k]]
    <3> HIDE DEF Body, n
    <3> QED
      BY <1>9
  <2> HIDE DEF n
  <2> QED
    BY <2>1, <2>2, <2>3
<1>11. \A k \in 0..n : best[k] \in Value
  <2> DEFINE T == {k \in Nat : k <= n => best[k] \in Value}
  <2>1. 0 \in T
    BY <1>2, <1>10
  <2>2. ASSUME NEW k \in Nat, k \in T PROVE k + 1 \in T
    <3> SUFFICES ASSUME k + 1 <= n PROVE best[k + 1] \in Value
      OBVIOUS
    <3> DEFINE h == k + 1
    <3>1. h \in 1..n /\ h - 1 = k /\ best[k] \in Value
      BY <1>2, <2>2
    <3> HIDE DEF n, Then, h
    <3>2. best[h] = Then(best[h - 1], h)
      BY <1>10, <3>1, Zenon
    <3>3. best[h] \in Value
      BY <1>5, <3>1, <3>2
    <3> QED
      BY <3>3 DEF h
  <2> HIDE DEF T
  <2>3. Nat \subseteq T
    BY <2>1, <2>2, Induction
  <2> QED
    BY <1>2, <2>3 DEF T
<1>12. Passes(best, vs, LessThan)
  <2>1. ASSUME NEW k \in 1..n
        PROVE  /\ best[k] \in {best[k - 1], vs[k + 1]}
               /\ <<best[k - 1], best[k]>> \notin LessThan
               /\ <<vs[k + 1], best[k]>> \notin LessThan
    <3> DEFINE x == best[k - 1]
               y == vs[k + 1]
    <3>1. x \in Value /\ y \in Value
      BY <1>2, <1>4, <1>11
    <3>2. best[k] = IF Less(y, x) THEN y ELSE x
      BY <1>10
    <3> HIDE DEF x, y, n
    <3>3. ~(Less(x, y) /\ Less(y, x)) /\ ~Less(x, x) /\ ~Less(y, y)
      BY <3>1, ValueOrder
    <3>4. best[k] \in {x, y} /\ <<x, best[k]>> \notin LessThan /\ <<y, best[k]>> \notin LessThan
      BY <3>1, <3>2, <3>3, BeatsOrders
    <3> QED
      BY <3>4 DEF x, y
  <2> QED
    BY <1>10, <2>1 DEF Passes
<1>13. <<v, best[n]>> \notin LessThan
  <2>1. v \in ToSet(vs)
    BY DEF vs
  <2> QED
    BY <1>1, <1>12, <2>1, BeatsOrders, PassKeepsBest
<1>14. v \in Value /\ best[n] \in Value
  <2>1. \E i \in 1..Len(vs) : vs[i] = v
    BY <1>1, SeqElements DEF vs
  <2> QED
    BY <1>2, <1>11, <2>1
<1> QED
  BY <1>3, <1>13, <1>14, BeatsOrders

(* None is greater than its maximum.                                       *)
LEMMA MaximumBounds ==
  ASSUME NEW run \in Seq(Pair), NEW v \in ToSet(Present(run))
  PROVE  ~Less(Maximum(run), v)
<1> DEFINE vs == Present(run)
           n == Len(vs) - 1
           Then(x, k) == IF Less(vs[k + 1], x) THEN x ELSE vs[k + 1]
           step == [p \in Value \X (1..n) |-> Then(p[1], p[2])]
           Body(g, k) == IF k = 0 THEN vs[1] ELSE IF Less(vs[k + 1], g[k - 1]) THEN g[k - 1] ELSE vs[k + 1]
           best == CHOOSE g : g = [k \in 0..n |-> Body(g, k)]
<1>1. vs \in Seq(Value) /\ vs # <<>>
  <2>1. vs \in Seq(Value)
    BY PresentValues
  <2>2. \E i \in 1..Len(vs) : vs[i] = v
    BY <2>1, SeqElements
  <2> QED
    BY <2>1, <2>2
<1>2. n \in Nat /\ Len(vs) = n + 1 /\ \A k \in 1..(n + 1) : vs[k] \in Value
  <2> HIDE DEF vs
  <2> QED
    BY <1>1
<1>3. Maximum(run) = best[n]
  BY <1>1 DEF Maximum
<1> HIDE DEF vs, best
<1>4. \A k \in 1..n : k + 1 \in 1..(n + 1) /\ vs[k + 1] \in Value
  BY <1>2
<1>5. \A x \in Value, k \in 1..n : step[<<x, k>>] = Then(x, k) /\ Then(x, k) \in Value
  BY <1>4
<1> HIDE DEF step
<1>6. Steps(step, n, Value)
  <2> HIDE DEF Then, n
  <2> QED
    BY <1>5 DEF Steps
<1>7. PICK f : Recursion(f, n, Value, vs[1], step)
  <2>1. vs[1] \in Value
    BY <1>2
  <2> HIDE DEF n
  <2> QED
    BY <1>2, <1>6, <2>1, RecursionExists
<1>8. f = [k \in 0..n |-> Body(f, k)]
  <2>1. \A k \in 0..n : k = 0 \/ (k # 0 /\ k \in 1..n /\ k - 1 \in 0..n)
    BY <1>2
  <2> HIDE DEF n
  <2>2. \A k \in 1..n : f[k] = Then(f[k - 1], k)
    <3> HIDE DEF Then
    <3>1. \A k \in 1..n : k - 1 \in 0..n
      BY <1>2
    <3> QED
      BY <1>5, <1>7, <3>1 DEF Recursion
  <2>3. f[0] = vs[1] /\ f = [k \in 0..n |-> f[k]]
    BY <1>7 DEF Recursion
  <2>4. \A k \in 0..n : f[k] = Body(f, k)
    BY <2>1, <2>2, <2>3
  <2> HIDE DEF Body
  <2> QED
    BY <2>3, <2>4
<1>9. best = [k \in 0..n |-> Body(best, k)]
  <2> HIDE DEF Body, n
  <2> QED
    BY <1>8 DEF best
<1>10. best[0] = vs[1] /\ best = [k \in 0..n |-> best[k]]
       /\ \A k \in 1..n : best[k] = Then(best[k - 1], k)
  <2>1. \A k \in 0..n : best[k] = Body(best, k)
    <3> HIDE DEF Body, n
    <3> QED
      BY <1>9
  <2>2. 0 \in 0..n /\ \A k \in 1..n : k \in 0..n /\ k # 0
    BY <1>2
  <2>3. best = [k \in 0..n |-> best[k]]
    <3> HIDE DEF Body, n
    <3> QED
      BY <1>9
  <2> HIDE DEF n
  <2> QED
    BY <2>1, <2>2, <2>3
<1>11. \A k \in 0..n : best[k] \in Value
  <2> DEFINE T == {k \in Nat : k <= n => best[k] \in Value}
  <2>1. 0 \in T
    BY <1>2, <1>10
  <2>2. ASSUME NEW k \in Nat, k \in T PROVE k + 1 \in T
    <3> SUFFICES ASSUME k + 1 <= n PROVE best[k + 1] \in Value
      OBVIOUS
    <3> DEFINE h == k + 1
    <3>1. h \in 1..n /\ h - 1 = k /\ best[k] \in Value
      BY <1>2, <2>2
    <3> HIDE DEF n, Then, h
    <3>2. best[h] = Then(best[h - 1], h)
      BY <1>10, <3>1, Zenon
    <3>3. best[h] \in Value
      BY <1>5, <3>1, <3>2
    <3> QED
      BY <3>3 DEF h
  <2> HIDE DEF T
  <2>3. Nat \subseteq T
    BY <2>1, <2>2, Induction
  <2> QED
    BY <1>2, <2>3 DEF T
<1>12. Passes(best, vs, GreaterThan)
  <2>1. ASSUME NEW k \in 1..n
        PROVE  /\ best[k] \in {best[k - 1], vs[k + 1]}
               /\ <<best[k - 1], best[k]>> \notin GreaterThan
               /\ <<vs[k + 1], best[k]>> \notin GreaterThan
    <3> DEFINE x == best[k - 1]
               y == vs[k + 1]
    <3>1. x \in Value /\ y \in Value
      BY <1>2, <1>4, <1>11
    <3>2. best[k] = IF Less(y, x) THEN x ELSE y
      BY <1>10
    <3> HIDE DEF x, y, n
    <3>3. ~(Less(x, y) /\ Less(y, x)) /\ ~Less(x, x) /\ ~Less(y, y)
      BY <3>1, ValueOrder
    <3>4. best[k] \in {x, y} /\ <<x, best[k]>> \notin GreaterThan /\ <<y, best[k]>> \notin GreaterThan
      BY <3>1, <3>2, <3>3, BeatsOrders
    <3> QED
      BY <3>4 DEF x, y
  <2> QED
    BY <1>10, <2>1 DEF Passes
<1>13. <<v, best[n]>> \notin GreaterThan
  <2>1. v \in ToSet(vs)
    BY DEF vs
  <2> QED
    BY <1>1, <1>12, <2>1, BeatsOrders, PassKeepsBest
<1>14. v \in Value /\ best[n] \in Value
  <2>1. \E i \in 1..Len(vs) : vs[i] = v
    BY <1>1, SeqElements DEF vs
  <2> QED
    BY <1>2, <1>11, <2>1
<1> QED
  BY <1>3, <1>13, <1>14, BeatsOrders

-----------------------------------------------------------------------------
(* The order of the groups.                                                *)

Group == [key : Value, res : Value]

(* Groups whose keys tell them apart.                                      *)
Apart(docs) ==
  /\ docs \in Seq(Group)
  /\ \A i, j \in 1..Len(docs) : i # j => ~Same(docs[i].key, docs[j].key)

(* The groups as a sort places them.                                       *)
GroupOrdering(field, desc) == {p \in Group \X Group : GroupBefore(field, desc, p[1], p[2])}

LEMMA SortValueType ==
  ASSUME NEW g \in Group, NEW field
  PROVE  SortValue(g, field) \in Value /\ g.key \in Value
<1>1. g.key \in Value /\ g.res \in Value
  BY DEF Group
<1>2. NullValue \in Value
  BY DEF NullValue, Value, Lanes
<1> QED
  BY <1>1, <1>2 DEF SortValue

(* Less by one value, then by another, is a strict order, which only fails *)
(* to tell those apart that are Same in both.                              *)
Lexical(v, a, w, b) == Less(v, w) \/ (Same(v, w) /\ Less(a, b))

LEMMA LexicalOrder ==
  ASSUME NEW v \in Value, NEW a \in Value, NEW w \in Value, NEW b \in Value,
         NEW x \in Value, NEW c \in Value
  PROVE  /\ ~Lexical(v, a, v, a)
         /\ Lexical(v, a, w, b) /\ Lexical(w, b, x, c) => Lexical(v, a, x, c)
         /\ ~Same(a, b) => Lexical(v, a, w, b) \/ Lexical(w, b, v, a)
<1>1. ~Less(v, v) /\ ~Less(a, a)
  BY ValueOrder
<1>2. /\ Less(v, w) /\ Less(w, x) => Less(v, x)
      /\ Same(v, w) /\ Same(w, x) => Same(v, x)
      /\ Same(v, w) /\ Less(w, x) => Less(v, x)
      /\ Less(v, w) /\ Same(w, x) => Less(v, x)
      /\ Less(a, b) /\ Less(b, c) => Less(a, c)
  BY ValueOrder
<1>3. /\ Less(v, w) \/ Same(v, w) \/ Less(w, v)
      /\ Less(a, b) \/ Same(a, b) \/ Less(b, a)
      /\ Same(v, w) => Same(w, v)
  BY ValueOrder
<1> QED
  BY <1>1, <1>2, <1>3 DEF Lexical

(* The order of groups is strict, tells groups of different keys apart,    *)
(* and is turned round by descending.                                      *)
LEMMA GroupsOrdered ==
  ASSUME NEW field
  PROVE  /\ \A desc \in BOOLEAN : StrictOn(GroupOrdering(field, desc), Group)
         /\ \A desc \in BOOLEAN, g, h \in Group : ~Same(g.key, h.key) =>
              GroupBefore(field, desc, g, h) \/ GroupBefore(field, desc, h, g)
         /\ GroupOrdering(field, TRUE) = Converse(GroupOrdering(field, FALSE), Group)
<1> DEFINE before(g, h) == Lexical(SortValue(g, field), g.key, SortValue(h, field), h.key)
<1>1. \A g, h \in Group : /\ GroupBefore(field, FALSE, g, h) <=> before(g, h)
                          /\ GroupBefore(field, TRUE, g, h) <=> before(h, g)
  BY DEF GroupBefore, Lexical
<1>2. \A g, h, i \in Group :
        /\ ~before(g, g)
        /\ before(g, h) /\ before(h, i) => before(g, i)
        /\ ~Same(g.key, h.key) => before(g, h) \/ before(h, g)
  <2> TAKE g, h, i \in Group
  <2>1. /\ SortValue(g, field) \in Value /\ g.key \in Value
        /\ SortValue(h, field) \in Value /\ h.key \in Value
        /\ SortValue(i, field) \in Value /\ i.key \in Value
    BY SortValueType
  <2> QED
    BY <2>1, LexicalOrder
<1> HIDE DEF before
<1>3. \A desc \in BOOLEAN, g, h \in Group :
        <<g, h>> \in GroupOrdering(field, desc) <=> GroupBefore(field, desc, g, h)
  BY DEF GroupOrdering
<1>4. ASSUME NEW desc \in BOOLEAN PROVE StrictOn(GroupOrdering(field, desc), Group)
  <2>1. CASE desc = FALSE
    <3>1. \A g, h \in Group : <<g, h>> \in GroupOrdering(field, desc) <=> before(g, h)
      BY <1>1, <1>3, <2>1
    <3> QED
      BY <1>2, <3>1 DEF StrictOn
  <2>2. CASE desc = TRUE
    <3>1. \A g, h \in Group : <<g, h>> \in GroupOrdering(field, desc) <=> before(h, g)
      BY <1>1, <1>3, <2>2
    <3> QED
      BY <1>2, <3>1 DEF StrictOn
  <2> QED
    BY <2>1, <2>2
<1>5. ASSUME NEW desc \in BOOLEAN, NEW g \in Group, NEW h \in Group, ~Same(g.key, h.key)
      PROVE  GroupBefore(field, desc, g, h) \/ GroupBefore(field, desc, h, g)
  <2>1. before(g, h) \/ before(h, g)
    BY <1>2, <1>5
  <2>2. desc = TRUE \/ desc = FALSE
    OBVIOUS
  <2> QED
    BY <1>1, <2>1, <2>2
<1>6. GroupOrdering(field, TRUE) = Converse(GroupOrdering(field, FALSE), Group)
  <2>1. \A g, h \in Group : GroupBefore(field, TRUE, g, h) <=> GroupBefore(field, FALSE, h, g)
    BY <1>1
  <2>2. \A p \in Group \X Group :
          p = <<p[1], p[2]>> /\ p[1] \in Group /\ p[2] \in Group
    OBVIOUS
  <2>3. \A p \in Group \X Group :
          GroupBefore(field, TRUE, p[1], p[2]) <=> <<p[2], p[1]>> \in GroupOrdering(field, FALSE)
    BY <1>3, <2>1, <2>2
  <2> QED
    BY <2>3 DEF Converse, GroupOrdering
<1> QED
  BY <1>4, <1>5, <1>6

(* Sorting groups of different keys lists them once, in that order.        *)
SortsTo(s, docs, field, desc) ==
  /\ s \in Seq(Group)
  /\ ToSet(s) = ToSet(docs)
  /\ Ordered(s, GroupOrdering(field, desc))
  /\ \A limit : SortedGroups(docs, field, desc, limit) = Limited(s, limit)

LEMMA SortedGroupsOrdered ==
  ASSUME NEW docs, Apart(docs), NEW field, NEW desc \in BOOLEAN
  PROVE  \E s : SortsTo(s, docs, field, desc)
<1> DEFINE D == DOMAIN docs
           before(i, j) == GroupBefore(field, desc, docs[i], docs[j])
           R == {p \in D \X D : before(p[1], p[2])}
           order == Ranked(D, before)
           s == [k \in DOMAIN order |-> docs[order[k]]]
<1>1. Len(docs) \in Nat /\ D = 1..Len(docs) /\ \A i \in D : docs[i] \in Group
  BY DEF Apart
<1>2. IsFiniteSet(D) /\ Cardinality(D) \in Nat
  BY <1>1, FS_Interval, FS_CardinalityType
<1>3. \A i, j \in D : <<i, j>> \in R <=> before(i, j)
  OBVIOUS
<1>4. \A i, j \in D : before(i, j) <=> <<docs[i], docs[j]>> \in GroupOrdering(field, desc)
  BY <1>1 DEF GroupOrdering
<1>5. order = [k \in 1..Cardinality(D) |->
                 CHOOSE x \in D : Cardinality({y \in D : before(y, x)}) = k - 1]
  BY DEF Ranked
<1>6. \A limit : SortedGroups(docs, field, desc, limit) = Limited(s, limit)
  BY DEF SortedGroups
<1>7. \A i, j \in D : i # j => before(i, j) \/ before(j, i)
  <2> TAKE i, j \in D
  <2>1. i # j => ~Same(docs[i].key, docs[j].key)
    BY <1>1 DEF Apart
  <2> QED
    BY <1>1, <2>1, GroupsOrdered
<1> HIDE DEF before, D
<1>8. \A x \in D : {y \in D : before(y, x)} = Lesser(D, R, x)
  BY <1>3 DEF Lesser
<1> HIDE DEF R, order
<1>9. StrictOn(R, D) /\ TotalOn(R, D)
  <2>1. StrictOn(GroupOrdering(field, desc), Group)
    BY GroupsOrdered
  <2>2. StrictOn(R, D)
    BY <1>1, <1>3, <1>4, <2>1 DEF StrictOn
  <2>3. TotalOn(R, D)
    BY <1>3, <1>7 DEF TotalOn
  <2> QED
    BY <2>2, <2>3
<1>10. ASSUME NEW k \in 1..Cardinality(D)
       PROVE  order[k] \in D /\ Cardinality(Lesser(D, R, order[k])) = k - 1
  <2>1. \A m \in 1..Cardinality(D) :
          \E x \in D : Cardinality(Lesser(D, R, x)) = m - 1
    BY <1>2, <1>9, RankExists
  <2>2. PICK w \in D : Cardinality(Lesser(D, R, w)) = k - 1
    BY <2>1
  <2>3. \E x \in D : Cardinality({y \in D : before(y, x)}) = k - 1
    BY <1>8, <2>2
  <2>4. order[k] = CHOOSE x \in D : Cardinality({y \in D : before(y, x)}) = k - 1
    BY <1>5
  <2>5. order[k] \in D /\ Cardinality({y \in D : before(y, order[k])}) = k - 1
    BY <2>3, <2>4
  <2> QED
    BY <1>8, <2>5
<1>11. order \in [1..Cardinality(D) -> D]
  BY <1>5, <1>10
<1>12. order \in Seq(D) /\ Len(order) = Cardinality(D) /\ ToSet(order) = D /\ Ordered(order, R)
  BY <1>2, <1>9, <1>10, <1>11, RankedOrders
<1> DEFINE n == Cardinality(D)
<1>13. DOMAIN s = 1..n /\ \A k \in 1..n : s[k] = docs[order[k]] /\ order[k] \in D
  BY <1>11
<1>14. s \in Seq(Group) /\ Len(s) = n
  <2>1. s \in [1..n -> Group]
    BY <1>1, <1>11, <1>13
  <2> HIDE DEF s, n
  <2> QED
    BY <1>2, <2>1 DEF n
<1> HIDE DEF s, n
<1>15. ToSet(s) = ToSet(docs)
  <2>1. \A x : x \in ToSet(s) <=> \E k \in 1..n : s[k] = x
    BY <1>13, Zenon DEF ToSet
  <2>2. \A x : x \in ToSet(docs) <=> \E i \in D : docs[i] = x
    BY Zenon DEF ToSet, D
  <2>3. \A i \in D : \E k \in 1..n : order[k] = i
    BY <1>12, SeqElements DEF n
  <2>4. ASSUME NEW x PROVE x \in ToSet(s) <=> x \in ToSet(docs)
    <3>1. ASSUME x \in ToSet(s) PROVE x \in ToSet(docs)
      <4>1. PICK k \in 1..n : s[k] = x
        BY <2>1, <3>1
      <4>2. order[k] \in D /\ docs[order[k]] = x
        BY <1>13, <4>1
      <4> QED
        BY <2>2, <4>2, Zenon
    <3>2. ASSUME x \in ToSet(docs) PROVE x \in ToSet(s)
      <4>1. PICK i \in D : docs[i] = x
        BY <2>2, <3>2
      <4>2. PICK k \in 1..n : order[k] = i
        BY <2>3
      <4>3. s[k] = x
        BY <1>13, <4>1, <4>2
      <4> QED
        BY <2>1, <4>3, Zenon
    <3> QED
      BY <3>1, <3>2
  <2> QED
    BY <2>4
<1>16. Ordered(s, GroupOrdering(field, desc))
  <2> SUFFICES ASSUME NEW i \in 1..n, NEW j \in 1..n, i < j
               PROVE  <<s[i], s[j]>> \in GroupOrdering(field, desc)
    BY <1>14 DEF Ordered
  <2>1. <<order[i], order[j]>> \in R
    BY <1>12 DEF Ordered, n
  <2> QED
    BY <1>3, <1>4, <1>13, <2>1
<1>17. SortsTo(s, docs, field, desc)
  BY <1>6, <1>14, <1>15, <1>16 DEF SortsTo
<1> QED
  BY <1>17

(* The groups of the stream, with their sums, are such.                    *)
LEMMA SumsType ==
  ASSUME NEW run \in Seq(Pair)
  PROVE  Sum(run) \in Value
<1> DEFINE acc == Accumulated(run)[Len(run)]
<1>1. acc \in Acc
  <2>1. Len(run) \in 0..Len(run)
    OBVIOUS
  <2> QED
    BY <2>1, AccumulatedSteps
<1>2. acc.int \in Int /\ acc.flt \in Int
  BY <1>1 DEF Acc
<1>3. \A k \in Int : I64(k) \in Value /\ F64(k) \in Value
  BY DEF I64, F64, Value, Lanes
<1>4. Sum(run) = IF acc.seen THEN F64(acc.flt)
                 ELSE IF acc.int \in (-MaxI64 - 1)..MaxI64 THEN I64(acc.int) ELSE F64(acc.int)
  BY DEF Sum
<1> HIDE DEF acc
<1> QED
  BY <1>2, <1>3, <1>4

LEMMA GroupDocsApart ==
  ASSUME StreamOK
  PROVE  Apart(GroupDocs(Sum))
<1> DEFINE docs == GroupDocs(Sum)
           n == Len(Runs)
<1>1. /\ Runs \in Seq(Seq(Pair))
      /\ \A k \in DOMAIN Runs : \E at : IsClass(Runs[k], at)
      /\ \A k, h \in DOMAIN Runs :
           k < h => Less(Head(Runs[k])[1], Head(Runs[h])[1])
  BY RunsAreClasses
<1>2. n \in Nat /\ DOMAIN Runs = 1..n
  BY <1>1
<1>3. docs = [k \in 1..n |-> [key |-> Head(Runs[k])[1], res |-> Sum(Runs[k])]]
  BY <1>2 DEF GroupDocs
<1>4. ASSUME NEW k \in 1..n
      PROVE  Head(Runs[k])[1] \in Value /\ Sum(Runs[k]) \in Value
  <2>1. Runs[k] \in Seq(Pair) /\ Runs[k] # <<>>
    <3>1. PICK at : IsClass(Runs[k], at)
      BY <1>1, <1>2
    <3> DEFINE run == Runs[k]
    <3>2. run \in Seq(Pair) /\ Len(run) \in Nat \ {0}
      BY <3>1 DEF IsClass
    <3> HIDE DEF run
    <3>3. run # <<>>
      BY <3>2
    <3> QED
      BY <3>2, <3>3 DEF run
  <2>2. Head(Runs[k]) \in Pair
    <3> DEFINE run == Runs[k]
    <3>1. run \in Seq(Pair) /\ run # <<>>
      BY <2>1
    <3> HIDE DEF run
    <3>2. Head(run) \in Pair
      BY <3>1
    <3> QED
      BY <3>2 DEF run
  <2> QED
    BY <2>1, <2>2, SumsType DEF Pair
<1> HIDE DEF docs, n
<1>5. docs \in Seq(Group) /\ Len(docs) = n
  <2>1. docs \in [1..n -> Group]
    BY <1>3, <1>4 DEF Group
  <2> QED
    BY <1>2, <2>1
<1>6. \A i, j \in 1..n : i # j => ~Same(docs[i].key, docs[j].key)
  <2> TAKE i, j \in 1..n
  <2>1. docs[i].key = Head(Runs[i])[1] /\ docs[j].key = Head(Runs[j])[1]
    BY <1>3
  <2>2. docs[i].key \in Value /\ docs[j].key \in Value
    BY <1>4, <2>1
  <2>3. i # j => Less(docs[i].key, docs[j].key) \/ Less(docs[j].key, docs[i].key)
    BY <1>1, <1>2, <2>1
  <2> QED
    BY <2>2, <2>3, ValueOrder
<1> QED
  BY <1>5, <1>6 DEF Apart, docs

(* GroupOrder: a sort field that ties, that is missing from every group or *)
(* that is a sum cannot make the order of the groups depend on the order   *)
(* they were in, descending is the reverse of ascending ties and all, and  *)
(* no value of a group is beyond its minimum or its maximum.               *)
THEOREM AggregationOrder == Spec => []GroupOrder
<1>1. ASSUME StreamOK, NEW field
      PROVE  LET docs == GroupDocs(Sum)
                 up   == SortedGroups(docs, field, FALSE, 0)
             IN  \A limit \in 0..2 :
                   /\ SortedGroups(Reverse(docs), field, FALSE, limit) = Limited(up, limit)
                   /\ SortedGroups(docs, field, TRUE, limit) = Limited(Reverse(up), limit)
  <2> DEFINE docs == GroupDocs(Sum)
             up == SortedGroups(docs, field, FALSE, 0)
             Up == GroupOrdering(field, FALSE)
             Down == GroupOrdering(field, TRUE)
  <2>1. Apart(docs)
    BY <1>1, GroupDocsApart
  <2> HIDE DEF docs
  <2>2. docs \in Seq(Group)
    BY <2>1 DEF Apart
  <2>3. Apart(Reverse(docs)) /\ ToSet(Reverse(docs)) = ToSet(docs)
    <3>1. /\ Reverse(docs) \in Seq(Group) /\ Len(Reverse(docs)) = Len(docs)
          /\ ToSet(Reverse(docs)) = ToSet(docs)
          /\ \A i \in 1..Len(docs) : Reverse(docs)[i] = docs[Len(docs) + 1 - i]
      BY <2>2, ReversedOrdered
    <3> DEFINE r == Reverse(docs)
               n == Len(docs)
    <3>2. n \in Nat /\ \A i \in 1..n : n + 1 - i \in 1..n
      BY <2>2
    <3>3. \A i, j \in 1..n : i # j => n + 1 - i # n + 1 - j
      BY <3>2
    <3>4. \A i, j \in 1..n : i # j => ~Same(docs[i].key, docs[j].key)
      BY <2>1 DEF Apart
    <3> HIDE DEF r, n
    <3>5. \A i \in 1..n : r[i] = docs[n + 1 - i]
      BY <3>1 DEF r, n
    <3>6. ASSUME NEW i \in 1..n, NEW j \in 1..n, i # j PROVE ~Same(r[i].key, r[j].key)
      <4> DEFINE p == n + 1 - i
                 q == n + 1 - j
      <4>1. p \in 1..n /\ q \in 1..n /\ p # q /\ r[i] = docs[p] /\ r[j] = docs[q]
        BY <3>2, <3>3, <3>5, <3>6
      <4> HIDE DEF p, q
      <4> QED
        BY <3>4, <4>1
    <3>7. Apart(r)
      BY <3>1, <3>6 DEF Apart, r, n
    <3> QED
      BY <3>1, <3>7 DEF r
  <2>4. PICK s : SortsTo(s, docs, field, FALSE)
    BY <2>1, SortedGroupsOrdered, FALSE \in BOOLEAN, Zenon
  <2>5. PICK t : SortsTo(t, Reverse(docs), field, FALSE)
    BY <2>3, SortedGroupsOrdered, FALSE \in BOOLEAN, Zenon
  <2>6. PICK u : SortsTo(u, docs, field, TRUE)
    BY <2>1, SortedGroupsOrdered, TRUE \in BOOLEAN, Zenon
  <2>7. /\ s \in Seq(Group) /\ ToSet(s) = ToSet(docs) /\ Ordered(s, Up)
        /\ \A limit : SortedGroups(docs, field, FALSE, limit) = Limited(s, limit)
    BY <2>4, Zenon DEF SortsTo
  <2>8. /\ t \in Seq(Group) /\ ToSet(t) = ToSet(docs) /\ Ordered(t, Up)
        /\ \A limit : SortedGroups(Reverse(docs), field, FALSE, limit) = Limited(t, limit)
    BY <2>3, <2>5, Zenon DEF SortsTo
  <2>9. /\ u \in Seq(Group) /\ ToSet(u) = ToSet(docs) /\ Ordered(u, Down)
        /\ \A limit : SortedGroups(docs, field, TRUE, limit) = Limited(u, limit)
    BY <2>6, Zenon DEF SortsTo
  <2>10. StrictOn(Up, Group) /\ StrictOn(Down, Group) /\ Down = Converse(Up, Group)
    BY GroupsOrdered
  <2> HIDE DEF Up, Down
  <2>11. t = s
    BY <2>7, <2>8, <2>10, OrderedUnique
  <2>12. u = Reverse(s)
    <3>1. Reverse(s) \in Seq(Group) /\ ToSet(Reverse(s)) = ToSet(s) /\ Ordered(Reverse(s), Down)
      BY <2>7, <2>10, ReversedOrdered
    <3> QED
      BY <2>7, <2>9, <2>10, <3>1, OrderedUnique
  <2>13. up = s
    BY <2>7 DEF Limited
  <2> QED
    BY <2>7, <2>8, <2>9, <2>11, <2>12, <2>13 DEF docs
<1>2. ASSUME StreamOK, NEW run \in ToSet(Runs), NEW v \in ToSet(Present(run))
      PROVE  ~Less(v, Minimum(run)) /\ ~Less(Maximum(run), v)
  <2>1. run \in Seq(Pair)
    <3>1. Runs \in Seq(Seq(Pair))
      BY <1>2, RunsAreClasses
    <3> QED
      BY <3>1, SeqElements
  <2> QED
    BY <2>1, MinimumBounds, MaximumBounds
<1>3. StreamOK => GroupOrder
  BY <1>1, <1>2 DEF GroupOrder
<1> QED
  BY <1>3, AlwaysStream, PTL
==============================================================================
