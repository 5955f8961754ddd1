---------------------------- MODULE StdVecProofs -----------------------------
(***************************************************************************)
(* Facts about the vector operations of module StdVec, for the proofs      *)
(* about the indexes built on them.                                        *)
(*                                                                         *)
(* The induction they need is stated with a set of numbers in the place of *)
(* a predicate: the provers cannot instantiate one.                        *)
(***************************************************************************)
EXTENDS StdVec, SequencesExt, FiniteSetTheorems, SequenceTheorems,
        WellFoundedInduction, TLAPS

-----------------------------------------------------------------------------
(* A set of numbers that has 0 and the successor of each of its members    *)
(* has every number.                                                       *)
LEMMA Induction ==
  ASSUME NEW T, 0 \in T, \A n \in Nat : n \in T => n + 1 \in T
  PROVE  Nat \subseteq T
<1> DEFINE Missing == Nat \ T
<1> SUFFICES ASSUME Missing # {} PROVE FALSE
  OBVIOUS
<1>1. PICK n \in Missing : \A m \in Missing : ~(<<m, n>> \in OpToRel(<, Nat))
  <2>1. Missing \subseteq Nat
    OBVIOUS
  <2> HIDE DEF Missing
  <2> QED
    BY <2>1, WFMin, NatLessThanWellFounded
<1>2. n \in Nat /\ n # 0 /\ n - 1 \in Nat /\ n - 1 + 1 = n
  OBVIOUS
<1>3. n - 1 \notin T
  BY <1>2
<1>4. <<n - 1, n>> \in OpToRel(<, Nat)
  BY <1>2 DEF OpToRel
<1> QED
  BY <1>1, <1>2, <1>3, <1>4

(* A set of numbers that is not empty has a least one.                     *)
LEMMA Least ==
  ASSUME NEW T, T \subseteq Nat, T # {}
  PROVE  \E n \in T : \A m \in T : n <= m
<1>1. PICK n \in T : \A m \in T : ~(<<m, n>> \in OpToRel(<, Nat))
  BY WFMin, NatLessThanWellFounded
<1>2. \A m \in T : n <= m
  <2> TAKE m \in T
  <2>1. ~(m < n)
    BY <1>1 DEF OpToRel
  <2> QED
    BY <2>1
<1> QED
  BY <1>2

(* A set of positions that has all those before each of its members is an  *)
(* initial run, as long as its size: what partition_point returns.         *)
LEMMA InitialRun ==
  ASSUME NEW n \in Nat, NEW T, T \subseteq 1..n,
         \A p \in T : \A q \in 1..p : q \in T
  PROVE  Cardinality(T) \in 0..n /\ T = 1..Cardinality(T)
<1>1. ASSUME NEW k \in 0..n, T = 1..k
      PROVE  Cardinality(T) \in 0..n /\ T = 1..Cardinality(T)
  <2>1. Cardinality(1..k) = k
    BY FS_Interval
  <2> QED
    BY <1>1, <2>1
<1>2. CASE T = 1..n
  <2>1. n \in 0..n
    OBVIOUS
  <2> QED
    BY <1>1, <1>2, <2>1
<1>3. CASE T # 1..n
  <2> DEFINE Out == (1..n) \ T
  <2>1. PICK m \in Out : \A l \in Out : m <= l
    <3>1. Out \subseteq Nat /\ Out # {}
      <4>1. Out \subseteq Nat
        OBVIOUS
      <4>2. Out # {}
        BY <1>3, Zenon
      <4> QED
        BY <4>1, <4>2
    <3> HIDE DEF Out
    <3> QED
      BY <3>1, Least, Zenon
  <2>2. \A q \in 1..(m - 1) : q \in T
    <3> TAKE q \in 1..(m - 1)
    <3>1. q \in 1..n /\ ~(m <= q)
      OBVIOUS
    <3> QED
      BY <2>1, <3>1
  <2>3. \A p \in T : p \in 1..(m - 1)
    <3> TAKE p \in T
    <3>1. ~(m <= p)
      BY <2>1
    <3> QED
      BY <3>1
  <2>4. T = 1..(m - 1)
    BY <2>2, <2>3, Zenon
  <2>5. m - 1 \in 0..n
    OBVIOUS
  <2> QED
    BY <1>1, <2>4, <2>5
<1> QED
  BY <1>2, <1>3

-----------------------------------------------------------------------------
(* The elements of a sequence.                                             *)
LEMMA SeqElements ==
  ASSUME NEW S, NEW s \in Seq(S)
  PROVE  /\ \A i \in 1..Len(s) : s[i] \in ToSet(s) /\ s[i] \in S
         /\ \A x \in ToSet(s) : \E i \in 1..Len(s) : s[i] = x
         /\ ToSet(s) \subseteq S
<1>1. DOMAIN s = 1..Len(s) /\ \A i \in 1..Len(s) : s[i] \in S
  OBVIOUS
<1> QED
  BY <1>1, Zenon DEF ToSet

(* In a sequence without duplicates, position finds where the element is.  *)
LEMMA PositionFound ==
  ASSUME NEW S, NEW s \in Seq(S), IsInjective(s), NEW x
  PROVE  /\ PositionOf(s, x) = 0 <=> x \notin ToSet(s)
         /\ x \in ToSet(s) => PositionOf(s, x) \in 1..Len(s) /\ s[PositionOf(s, x)] = x
<1>1. CASE x \in ToSet(s)
  <2>1. PICK p \in DOMAIN s : s[p] = x
    BY <1>1 DEF ToSet
  <2>2. \A q \in 1..(p - 1) : s[q] # x
    BY <2>1 DEF IsInjective
  <2>3. PositionOf(s, x) \in DOMAIN s /\ s[PositionOf(s, x)] = x
    BY <2>1, <2>2 DEF PositionOf
  <2>4. DOMAIN s = 1..Len(s) /\ Len(s) \in Nat
    OBVIOUS
  <2> QED
    BY <1>1, <2>3, <2>4
<1>2. CASE x \notin ToSet(s)
  BY <1>2 DEF ToSet, PositionOf
<1> QED
  BY <1>1, <1>2

(* swap_remove, element by element.                                        *)
LEMMA SwapRemoved ==
  ASSUME NEW S, NEW s \in Seq(S), NEW p \in 1..Len(s)
  PROVE  /\ SwapRemove(s, p) \in Seq(S)
         /\ Len(SwapRemove(s, p)) = Len(s) - 1
         /\ \A k \in 1..(Len(s) - 1) : SwapRemove(s, p)[k] = s[IF k = p THEN Len(s) ELSE k]
<1>1. Len(s) - 1 \in Nat
  OBVIOUS
<1>2. \A k \in 1..(Len(s) - 1) : (IF k = p THEN s[Len(s)] ELSE s[k]) \in S
  OBVIOUS
<1> QED
  BY <1>1, <1>2 DEF SwapRemove

(* It takes one element out of a sequence without duplicates, and leaves   *)
(* it without.                                                             *)
LEMMA SwapRemovedSet ==
  ASSUME NEW S, NEW s \in Seq(S), NEW p \in 1..Len(s), IsInjective(s)
  PROVE  /\ ToSet(SwapRemove(s, p)) = ToSet(s) \ {s[p]}
         /\ IsInjective(SwapRemove(s, p))
<1> DEFINE r == SwapRemove(s, p)
           from(k) == IF k = p THEN Len(s) ELSE k
<1>1. /\ r \in Seq(S) /\ Len(r) = Len(s) - 1 /\ DOMAIN r = 1..(Len(s) - 1)
      /\ \A k \in 1..(Len(s) - 1) : r[k] = s[from(k)]
  <2>1. r \in Seq(S) /\ Len(r) = Len(s) - 1 /\ \A k \in 1..(Len(s) - 1) : r[k] = s[from(k)]
    BY SwapRemoved
  <2> QED
    BY <2>1
<1> HIDE DEF r
<1>2. \A k \in 1..(Len(s) - 1) : from(k) \in 1..Len(s) /\ from(k) # p
  OBVIOUS
<1>3. \A k, l \in 1..(Len(s) - 1) : from(k) = from(l) => k = l
  OBVIOUS
<1>4. \A q \in 1..Len(s) : q # p => \E k \in 1..(Len(s) - 1) : from(k) = q
  <2> TAKE q \in 1..Len(s)
  <2> HAVE q # p
  <2>1. CASE q = Len(s)
    <3>1. p \in 1..(Len(s) - 1) /\ from(p) = q
      BY <2>1
    <3> QED
      BY <3>1
  <2>2. CASE q # Len(s)
    <3>1. q \in 1..(Len(s) - 1) /\ from(q) = q
      BY <2>2
    <3> QED
      BY <3>1
  <2> QED
    BY <2>1, <2>2
<1> HIDE DEF from
<1>5. IsInjective(r)
  <2> SUFFICES ASSUME NEW a \in 1..(Len(s) - 1), NEW b \in 1..(Len(s) - 1), r[a] = r[b]
               PROVE  a = b
    BY <1>1 DEF IsInjective
  <2>1. s[from(a)] = s[from(b)]
    BY <1>1
  <2>2. from(a) = from(b)
    BY <1>2, <2>1 DEF IsInjective
  <2> QED
    BY <1>3, <2>2
<1>6. DOMAIN s = 1..Len(s)
  OBVIOUS
<1>7. ToSet(r) \subseteq ToSet(s) \ {s[p]}
  <2> SUFFICES ASSUME NEW k \in 1..(Len(s) - 1)
               PROVE  r[k] \in ToSet(s) \ {s[p]}
    BY <1>1 DEF ToSet
  <2>1. r[k] = s[from(k)] /\ from(k) \in 1..Len(s) /\ from(k) # p
    BY <1>1, <1>2
  <2>2. s[from(k)] # s[p]
    BY <1>6, <2>1 DEF IsInjective
  <2> QED
    BY <1>6, <2>1, <2>2 DEF ToSet
<1>8. ToSet(s) \ {s[p]} \subseteq ToSet(r)
  <2> SUFFICES ASSUME NEW q \in 1..Len(s), s[q] # s[p]
               PROVE  s[q] \in ToSet(r)
    BY <1>6 DEF ToSet
  <2>1. PICK k \in 1..(Len(s) - 1) : from(k) = q
    BY <1>4
  <2> QED
    BY <1>1, <2>1 DEF ToSet
<1> QED
  BY <1>5, <1>7, <1>8 DEF r

-----------------------------------------------------------------------------
(* Insertion at a position, element by element.                            *)
LEMMA InsertedAt ==
  ASSUME NEW S, NEW s \in Seq(S), NEW e \in S, NEW at \in 1..(Len(s) + 1)
  PROVE  LET r == InsertAt(s, at, e) IN
         /\ r \in Seq(S) /\ Len(r) = Len(s) + 1
         /\ \A i \in 1..(at - 1) : r[i] = s[i]
         /\ r[at] = e
         /\ \A i \in at..Len(s) : r[i + 1] = s[i]
<1> DEFINE front == SubSeq(s, 1, at - 1)
           back  == SubSeq(s, at, Len(s))
           mid   == front \o <<e>>
<1>1. InsertAt(s, at, e) = mid \o back
  BY DEF InsertAt
<1>2. /\ front \in Seq(S) /\ Len(front) = at - 1
      /\ \A i \in 1..(at - 1) : front[i] = s[i]
  OBVIOUS
<1>3. /\ back \in Seq(S) /\ Len(back) = Len(s) - at + 1
      /\ \A i \in 1..(Len(s) - at + 1) : back[i] = s[at - 1 + i]
  OBVIOUS
<1> HIDE DEF front, back
<1>4. /\ mid \in Seq(S) /\ Len(mid) = at
      /\ \A i \in 1..(at - 1) : mid[i] = s[i]
      /\ mid[at] = e
  BY <1>2
<1> HIDE DEF mid
<1>5. mid \o back \in Seq(S) /\ Len(mid \o back) = Len(s) + 1
  <2>1. mid \o back \in Seq(S) /\ Len(mid \o back) = Len(mid) + Len(back)
    <3>1. mid \in Seq(S) /\ back \in Seq(S)
      BY <1>3, <1>4
    <3> QED
      BY <3>1, ConcatProperties
  <2>2. Len(mid) + Len(back) = Len(s) + 1
    BY <1>3, <1>4
  <2> QED
    BY <2>1, <2>2
<1>6. \A i \in 1..at : (mid \o back)[i] = mid[i]
  BY <1>3, <1>4
<1>7. \A i \in at..Len(s) : (mid \o back)[i + 1] = s[i]
  <2> TAKE i \in at..Len(s)
  <2>1. i + 1 - at \in 1..(Len(s) - at + 1) /\ at - 1 + (i + 1 - at) = i
    OBVIOUS
  <2>2. (mid \o back)[i + 1] = back[i + 1 - at]
    BY <1>3, <1>4
  <2> QED
    BY <1>3, <2>1, <2>2
<1> QED
  BY <1>1, <1>4, <1>5, <1>6, <1>7

(* Removal at a position, element by element.                              *)
LEMMA RemovedAtPlace ==
  ASSUME NEW S, NEW s \in Seq(S), NEW j \in 1..Len(s)
  PROVE  LET r == RemoveAt(s, j) IN
         /\ r \in Seq(S) /\ Len(r) = Len(s) - 1
         /\ \A i \in 1..(Len(s) - 1) : r[i] = s[IF i < j THEN i ELSE i + 1]
<1> DEFINE front == SubSeq(s, 1, j - 1)
           back  == SubSeq(s, j + 1, Len(s))
<1>1. RemoveAt(s, j) = front \o back
  BY DEF RemoveAt
<1>2. front \in Seq(S) /\ Len(front) = j - 1 /\ \A i \in 1..(j - 1) : front[i] = s[i]
  OBVIOUS
<1>3. /\ back \in Seq(S) /\ Len(back) = Len(s) - j
      /\ \A i \in 1..(Len(s) - j) : back[i] = s[j + i]
  OBVIOUS
<1> HIDE DEF front, back
<1>4. front \o back \in Seq(S) /\ Len(front \o back) = Len(s) - 1
  BY <1>2, <1>3
<1>5. \A i \in 1..(j - 1) : (front \o back)[i] = s[i]
  BY <1>2, <1>3
<1>6. \A i \in j..(Len(s) - 1) : (front \o back)[i] = s[i + 1]
  <2> TAKE i \in j..(Len(s) - 1)
  <2>1. i - (j - 1) \in 1..(Len(s) - j) /\ j + (i - (j - 1)) = i + 1
    OBVIOUS
  <2>2. (front \o back)[i] = back[i - (j - 1)]
    BY <1>2, <1>3
  <2> QED
    BY <1>3, <2>1, <2>2
<1> QED
  BY <1>1, <1>4, <1>5, <1>6

-----------------------------------------------------------------------------
(* Binary search.                                                          *)

(* A round of a binary search: the answer for a window of this size from   *)
(* the one for the half of it that is kept.                                *)
Window(keys, key, w, size) ==
  [base \in Nat |->
     IF size = 1 THEN base
     ELSE LET half == size \div 2
              mid  == base + half
          IN  w[size - half][IF keys[mid] > key THEN base ELSE mid]]

(* The answers for all windows of a slice, as one function, exist.         *)
LEMMA WindowDefined ==
  ASSUME NEW keys, NEW key
  PROVE  \A n \in Nat : \E w : w = [size \in 1..n |-> Window(keys, key, w, size)]
<1> DEFINE Rest(w, size) == Window(keys, key, w, size)
           T == {n \in Nat : \E w : w = [size \in 1..n |-> Rest(w, size)]}
<1>1. 0 \in T
  <2> DEFINE e == [size \in {} |-> 0]
  <2>1. e = [size \in 1..0 |-> Rest(e, size)]
    <3> HIDE DEF Rest
    <3> QED
      OBVIOUS
  <2> HIDE DEF Rest
  <2> QED
    BY <2>1
<1>2. ASSUME NEW n \in Nat, n \in T
      PROVE  n + 1 \in T
  <2>1. PICK g : g = [size \in 1..n |-> Rest(g, size)]
    BY <1>2
  <2> DEFINE f == [size \in 1..(n + 1) |-> IF size <= n THEN g[size] ELSE Rest(g, size)]
  <2>2. \A size \in 1..(n + 1) : f[size] = Rest(g, size)
    <3>1. \A size \in 1..n : g[size] = Rest(g, size)
      <4> HIDE DEF Rest
      <4> QED
        BY <2>1
    <3> HIDE DEF Rest
    <3> QED
      BY <3>1
  <2>3. ASSUME NEW size \in 1..(n + 1)
        PROVE  Rest(g, size) = Rest(f, size)
    <3>1. CASE size = 1
      BY <3>1 DEF Window
    <3>2. CASE size # 1
      <4>1. size - (size \div 2) \in 1..n
        BY <3>2
      <4>2. g[size - (size \div 2)] = f[size - (size \div 2)]
        <5> DEFINE m == size - (size \div 2)
        <5> HIDE DEF m, Rest
        <5> QED
          BY <4>1 DEF m
      <4> HIDE DEF f
      <4> QED
        BY <4>2 DEF Window
    <3> QED
      BY <3>1, <3>2
  <2>4. f = [size \in 1..(n + 1) |-> f[size]]
    OBVIOUS
  <2> HIDE DEF f, Rest
  <2>5. f = [size \in 1..(n + 1) |-> Rest(f, size)]
    BY <2>2, <2>3, <2>4
  <2>6. n + 1 \in Nat
    OBVIOUS
  <2> QED
    BY <2>5, <2>6, Zenon
<1>3. Nat \subseteq T
  <2> HIDE DEF T
  <2> QED
    BY <1>1, <1>2, Induction
<1> QED
  BY <1>3

(* binary_search returns a position that holds the key, if any; on a       *)
(* sorted slice that has the key, it finds it.                             *)
LEMMA BinarySearchFinds ==
  ASSUME NEW keys \in Seq(Nat), NEW key \in Nat
  PROVE  LET p == BinarySearch(keys, key) IN
         /\ p \in 0..Len(keys)
         /\ p # 0 => keys[p] = key
         /\ (\A i, j \in 1..Len(keys) : i < j => keys[i] < keys[j])
              => (p = 0 <=> \A i \in 1..Len(keys) : keys[i] # key)
<1> DEFINE n == Len(keys)
           Increasing == \A i, j \in 1..n : i < j => keys[i] < keys[j]
           Half(size) == size \div 2
           Move(size, base) ==
             IF keys[base + Half(size)] > key THEN base ELSE base + Half(size)
<1>1. CASE keys = <<>>
  BY <1>1 DEF BinarySearch
<1>2. CASE keys # <<>>
  <2>0. n \in Nat /\ n # 0
    BY <1>2
  <2>1. PICK w : /\ w = [size \in 1..n |-> Window(keys, key, w, size)]
                 /\ BinarySearch(keys, key) = IF keys[w[n][1]] = key THEN w[n][1] ELSE 0
    <3>1. \E w : w = [size \in 1..n |-> Window(keys, key, w, size)]
      BY <2>0, WindowDefined
    <3>2. BinarySearch(keys, key) =
            LET w == CHOOSE w : w = [size \in 1..n |-> Window(keys, key, w, size)]
            IN  IF keys[w[n][1]] = key THEN w[n][1] ELSE 0
      BY <1>2, Zenon DEF BinarySearch, Window
    <3> QED
      BY <3>1, <3>2, Zenon
  <2>2. \A size \in 1..n, base \in Nat :
          w[size][base] = IF size = 1 THEN base ELSE w[size - Half(size)][Move(size, base)]
    <3>1. \A size \in 1..n : w[size] = Window(keys, key, w, size)
      BY <2>1
    <3> QED
      BY <3>1, ZenonT(60) DEF Window
  <2> DEFINE Good(size) ==
               \A base \in 1..n : base + size <= n + 1 =>
                 /\ w[size][base] \in base..(base + size - 1)
                 /\ Increasing /\ (\E i \in base..(base + size - 1) : keys[i] = key)
                      => keys[w[size][base]] = key
             T == {m \in Nat : \A size \in 1..m : size <= n => Good(size)}
  <2>3. 0 \in T
    OBVIOUS
  <2>4. ASSUME NEW m \in Nat, m \in T, m + 1 <= n
        PROVE  Good(m + 1)
    <3> DEFINE size == m + 1
    <3> SUFFICES ASSUME NEW base \in 1..n, base + size <= n + 1
                 PROVE  /\ w[size][base] \in base..(base + size - 1)
                        /\ Increasing /\ (\E i \in base..(base + size - 1) : keys[i] = key)
                             => keys[w[size][base]] = key
      OBVIOUS
    <3>0. \A i \in 1..n : keys[i] \in Nat
      OBVIOUS
    <3>9. size \in 1..n /\ base \in Nat
      BY <2>0
    <3>10. w[size][base] =
             IF size = 1 THEN base ELSE w[size - Half(size)][Move(size, base)]
      <4> HIDE DEF size, n, Half, Move
      <4> QED
        BY <2>2, <3>9
    <3>1. CASE size = 1
      <4>1. w[size][base] = base /\ base + size - 1 = base
        BY <3>1, <3>10
      <4>2. \A i \in base..base : i = base
        OBVIOUS
      <4> QED
        BY <4>1, <4>2
    <3>2. CASE size # 1
      <4> DEFINE h == size \div 2
                 rest == size - h
                 next == Move(size, base)
      <4>1. h \in Nat /\ h >= 1 /\ 2 * h <= size
        BY <3>2
      <4>2. w[size][base] = w[rest][next]
        BY <3>2, <3>10
      <4>3. next = base \/ next = base + h
        OBVIOUS
      <4>4. IF keys[base + h] > key THEN next = base ELSE next = base + h
        OBVIOUS
      <4> HIDE DEF h, next
      <4>5. rest \in 1..m /\ next \in 1..n /\ next + rest <= n + 1 /\ rest <= n
            /\ next..(next + rest - 1) \subseteq base..(base + size - 1)
        BY <2>4, <4>1, <4>3
      <4> HIDE DEF rest, Increasing
      <4>6. /\ w[rest][next] \in next..(next + rest - 1)
            /\ Increasing /\ (\E i \in next..(next + rest - 1) : keys[i] = key)
                 => keys[w[rest][next]] = key
        BY <2>4, <4>5
      <4>7. ASSUME Increasing, NEW i \in base..(base + size - 1), keys[i] = key
            PROVE  i \in next..(next + rest - 1)
        <5>1. base + h \in 1..n /\ i \in 1..n
          BY <4>1, <4>7
        <5>2. CASE keys[base + h] > key
          <6>1. ~(base + h < i) /\ base + h # i
            BY <3>0, <4>7, <5>1, <5>2 DEF Increasing
          <6> QED
            BY <4>1, <4>4, <5>2, <6>1 DEF rest
        <5>3. CASE ~(keys[base + h] > key)
          <6>1. ~(i < base + h)
            BY <3>0, <4>7, <5>1, <5>3 DEF Increasing
          <6> QED
            BY <4>1, <4>4, <5>3, <6>1 DEF rest
        <5> QED
          BY <5>2, <5>3
      <4> HIDE DEF size
      <4> QED
        BY <4>2, <4>5, <4>6, <4>7
    <3> QED
      BY <3>1, <3>2
  <2>5. \A m \in Nat : m \in T => m + 1 \in T
    <3> TAKE m \in Nat
    <3> HAVE m \in T
    <3>1. m + 1 <= n => Good(m + 1)
      BY <2>4
    <3> HIDE DEF Good
    <3> QED
      BY <3>1
  <2>6. Nat \subseteq T
    <3> HIDE DEF T
    <3> QED
      BY <2>3, <2>5, Induction
  <2>7. Good(n)
    <3>1. n \in T
      <4> HIDE DEF T
      <4> QED
        BY <2>0, <2>6
    <3>2. n \in 1..n
      BY <2>0
    <3> HIDE DEF Good
    <3> QED
      BY <3>1, <3>2
  <2> DEFINE p == w[n][1]
  <2>8. p \in 1..n /\ (Increasing /\ (\E i \in 1..n : keys[i] = key) => keys[p] = key)
    <3>1. 1 \in 1..n /\ 1 + n - 1 = n
      BY <2>0
    <3> HIDE DEF n, Increasing
    <3> QED
      BY <2>0, <2>7, <3>1
  <2> HIDE DEF p
  <2>9. BinarySearch(keys, key) = IF keys[p] = key THEN p ELSE 0
    BY <2>1 DEF p
  <2> QED
    BY <2>0, <2>8, <2>9
<1> QED
  BY <1>1, <1>2

-----------------------------------------------------------------------------
(* Sums.                                                                   *)

(* The element a fold takes next.                                          *)
Pick(S) == CHOOSE x \in S : TRUE

(* A round of SumFunctionOnSet: the sum over a set from the one over the   *)
(* rest of it.                                                             *)
Round(fun, g, S) == IF S = {} THEN 0 ELSE fun[Pick(S)] + g[S \ {Pick(S)}]

(* The sums over all subsets of a finite set, as one function, exist.      *)
LEMMA SumDefined ==
  ASSUME NEW fun, NEW S, IsFiniteSet(S)
  PROVE  \E g : g = [R \in SUBSET S |-> Round(fun, g, R)]
<1> DEFINE Small(n) == {R \in SUBSET S : Cardinality(R) <= n}
           T == {n \in Nat : \E g : g = [R \in Small(n) |-> Round(fun, g, R)]}
<1>0. \A R \in SUBSET S : IsFiniteSet(R) /\ Cardinality(R) \in Nat
  BY FS_Subset, FS_CardinalityType
<1>1. 0 \in T
  <2> DEFINE e == [R \in Small(0) |-> 0]
  <2>1. \A R \in Small(0) : R = {}
    BY <1>0, FS_EmptySet
  <2>2. \A R \in Small(0) : Round(fun, e, R) = 0
    BY <2>1 DEF Round
  <2>3. e = [R \in Small(0) |-> Round(fun, e, R)]
    BY <2>2
  <2> HIDE DEF Small
  <2> QED
    BY <2>3
<1>2. ASSUME NEW n \in Nat, n \in T
      PROVE  n + 1 \in T
  <2>1. PICK g : g = [R \in Small(n) |-> Round(fun, g, R)]
    BY <1>2
  <2> DEFINE f == [R \in Small(n + 1) |-> IF R \in Small(n) THEN g[R] ELSE Round(fun, g, R)]
  <2>2. \A R \in Small(n + 1) : f[R] = Round(fun, g, R)
    <3>1. \A R \in Small(n) : g[R] = Round(fun, g, R)
      <4> HIDE DEF Small
      <4> QED
        BY <2>1
    <3> HIDE DEF Small
    <3> QED
      BY <3>1
  <2>3. ASSUME NEW R \in Small(n + 1)
        PROVE  Round(fun, g, R) = Round(fun, f, R)
    <3>1. CASE R = {}
      BY <3>1 DEF Round
    <3>2. CASE R # {}
      <4> DEFINE Q == R \ {Pick(R)}
      <4>1. Pick(R) \in R
        BY <3>2 DEF Pick
      <4>2. Cardinality(Q) = Cardinality(R) - 1
        BY <1>0, <4>1, FS_RemoveElement
      <4>3. Q \in Small(n) /\ Q \in Small(n + 1)
        BY <1>0, <4>2
      <4> HIDE DEF Q, Small
      <4>4. f[Q] = g[Q]
        BY <4>3
      <4> HIDE DEF f
      <4> QED
        BY <3>2, <4>4 DEF Round, Q
    <3> QED
      BY <3>1, <3>2
  <2>4. f = [R \in Small(n + 1) |-> f[R]]
    OBVIOUS
  <2> HIDE DEF f, Small
  <2>5. f = [R \in Small(n + 1) |-> Round(fun, f, R)]
    BY <2>2, <2>3, <2>4
  <2>6. n + 1 \in Nat
    OBVIOUS
  <2> QED
    BY <2>5, <2>6, Zenon
<1>3. Nat \subseteq T
  <2> HIDE DEF T
  <2> QED
    BY <1>1, <1>2, Induction
<1>4. Cardinality(S) \in Nat
  BY FS_CardinalityType
<1>5. Small(Cardinality(S)) = SUBSET S
  BY <1>0, FS_Subset
<1>6. Cardinality(S) \in T
  BY <1>3, <1>4
<1> QED
  BY <1>5, <1>6

(* A sum is that of one element and the rest.                              *)
LEMMA SumStep ==
  ASSUME NEW fun, NEW S, IsFiniteSet(S)
  PROVE  SumFunctionOnSet(fun, S) =
           IF S = {} THEN 0 ELSE fun[Pick(S)] + SumFunctionOnSet(fun, S \ {Pick(S)})
<1> DEFINE Table(g, R) == g = [Q \in SUBSET R |-> Round(fun, g, Q)]
<1>1. ASSUME NEW R, IsFiniteSet(R)
      PROVE  \E g : Table(g, R) /\ SumFunctionOnSet(fun, R) = g[R]
  <2>1. SumFunctionOnSet(fun, R) = (CHOOSE g : Table(g, R))[R]
    BY Zenon DEF SumFunctionOnSet, FoldFunctionOnSet, MapThenFoldSet, Round, Pick
  <2>2. \E g : Table(g, R)
    BY <1>1, SumDefined
  <2> HIDE DEF Table
  <2> QED
    BY <2>1, <2>2, Zenon
<1>2. ASSUME NEW g, NEW R, Table(g, R), NEW Q \in SUBSET R
      PROVE  g[Q] = Round(fun, g, Q)
  BY <1>2
<1> HIDE DEF Table
<1>3. ASSUME NEW g, NEW h, NEW R, Table(g, S), Table(h, R), R \subseteq S
      PROVE  g[R] = h[R]
  <2> DEFINE T == {n \in Nat : \A Q \in SUBSET R : Cardinality(Q) = n => g[Q] = h[Q]}
  <2>0. \A Q \in SUBSET R : IsFiniteSet(Q) /\ Cardinality(Q) \in Nat
    <3>1. \A Q \in SUBSET R : Q \in SUBSET S
      BY <1>3
    <3> QED
      BY <3>1, FS_Subset, FS_CardinalityType
  <2>1. \A Q \in SUBSET R : g[Q] = Round(fun, g, Q) /\ h[Q] = Round(fun, h, Q)
    BY <1>2, <1>3
  <2>2. 0 \in T
    <3>1. \A Q \in SUBSET R : Cardinality(Q) = 0 => Q = {}
      BY <2>0, FS_EmptySet
    <3> QED
      BY <2>1, <3>1 DEF Round
  <2>3. \A n \in Nat : n \in T => n + 1 \in T
    <3> SUFFICES ASSUME NEW n \in Nat, n \in T, NEW Q \in SUBSET R, Cardinality(Q) = n + 1
                 PROVE  g[Q] = h[Q]
      OBVIOUS
    <3>1. Q # {}
      BY FS_EmptySet
    <3>2. Pick(Q) \in Q
      BY <3>1 DEF Pick
    <3>3. Cardinality(Q \ {Pick(Q)}) = n /\ Q \ {Pick(Q)} \in SUBSET R
      <4>1. IsFiniteSet(Q)
        BY <2>0
      <4>2. Cardinality(Q \ {Pick(Q)}) = Cardinality(Q) - 1
        BY <3>2, <4>1, FS_RemoveElement
      <4> QED
        BY <4>2
    <3>4. g[Q \ {Pick(Q)}] = h[Q \ {Pick(Q)}]
      BY <3>3
    <3> QED
      BY <2>1, <3>4 DEF Round
  <2>4. Nat \subseteq T
    <3> HIDE DEF T
    <3> QED
      BY <2>2, <2>3, Induction
  <2>5. Cardinality(R) \in T
    <3> HIDE DEF T
    <3> QED
      BY <2>0, <2>4
  <2> QED
    BY <2>5
<1>4. PICK g : Table(g, S) /\ SumFunctionOnSet(fun, S) = g[S]
  BY <1>1
<1>5. g[S] = Round(fun, g, S)
  BY <1>2, <1>4
<1>6. CASE S = {}
  BY <1>4, <1>5, <1>6 DEF Round
<1>7. CASE S # {}
  <2> DEFINE R == S \ {Pick(S)}
  <2>1. IsFiniteSet(R) /\ R \subseteq S
    BY FS_RemoveElement
  <2>2. PICK h : Table(h, R) /\ SumFunctionOnSet(fun, R) = h[R]
    BY <1>1, <2>1
  <2>3. g[R] = h[R]
    BY <1>3, <1>4, <2>1, <2>2
  <2> QED
    BY <1>4, <1>5, <1>7, <2>2, <2>3 DEF Round
<1> QED
  BY <1>6, <1>7

(* Sums of numbers are numbers.                                            *)
LEMMA SumType ==
  ASSUME NEW S, IsFiniteSet(S), NEW fun, \A x \in S : fun[x] \in Nat
  PROVE  SumFunctionOnSet(fun, S) \in Nat
<1> DEFINE Sum(R) == SumFunctionOnSet(fun, R)
           T == {n \in Nat : \A R \in SUBSET S : Cardinality(R) = n => Sum(R) \in Nat}
<1>0. \A R \in SUBSET S : IsFiniteSet(R) /\ Cardinality(R) \in Nat
  BY FS_Subset, FS_CardinalityType
<1>1. 0 \in T
  <2>1. \A R \in SUBSET S : Cardinality(R) = 0 => R = {}
    BY <1>0, FS_EmptySet
  <2>2. Sum({}) = 0
    BY FS_EmptySet, SumStep
  <2> HIDE DEF Sum
  <2> QED
    BY <2>1, <2>2
<1>2. ASSUME NEW n \in Nat, n \in T, NEW R \in SUBSET S, Cardinality(R) = n + 1
      PROVE  Sum(R) \in Nat
  <2>1. IsFiniteSet(R) /\ R # {}
    BY <1>0, <1>2, FS_EmptySet
  <2>2. Pick(R) \in R
    BY <2>1 DEF Pick
  <2>3. Cardinality(R \ {Pick(R)}) = n
    <3>1. Cardinality(R \ {Pick(R)}) = Cardinality(R) - 1
      BY <2>1, <2>2, FS_RemoveElement
    <3> QED
      BY <1>2, <3>1
  <2>4. Sum(R \ {Pick(R)}) \in Nat /\ fun[Pick(R)] \in Nat
    BY <1>2, <2>2, <2>3
  <2> QED
    BY <2>1, <2>4, SumStep
<1>3. \A n \in Nat : n \in T => n + 1 \in T
  BY <1>2
<1>4. Nat \subseteq T
  <2> HIDE DEF T
  <2> QED
    BY <1>1, <1>3, Induction
<1>5. Cardinality(S) \in T
  <2> HIDE DEF T
  <2> QED
    BY <1>0, <1>4
<1> QED
  BY <1>5

(* Any element may be taken out first.                                     *)
LEMMA SumSplit ==
  ASSUME NEW S, IsFiniteSet(S), NEW fun, \A x \in S : fun[x] \in Nat
  PROVE  \A x \in S : SumFunctionOnSet(fun, S) = fun[x] + SumFunctionOnSet(fun, S \ {x})
<1> DEFINE Sum(R) == SumFunctionOnSet(fun, R)
           Good(R) == \A x \in R : Sum(R) = fun[x] + Sum(R \ {x})
           T == {n \in Nat : \A R \in SUBSET S : Cardinality(R) = n => Good(R)}
<1>0. \A R \in SUBSET S : IsFiniteSet(R) /\ Cardinality(R) \in Nat
  BY FS_Subset, FS_CardinalityType
<1>1. 0 \in T
  <2>1. \A R \in SUBSET S : Cardinality(R) = 0 => R = {}
    BY <1>0, FS_EmptySet
  <2>2. Good({})
    BY FS_EmptySet, SumStep
  <2> HIDE DEF Good
  <2> QED
    BY <2>1, <2>2
<1>2. ASSUME NEW n \in Nat, n \in T, NEW R \in SUBSET S, Cardinality(R) = n + 1
      PROVE  Good(R)
  <2> DEFINE p == Pick(R)
  <2>1. IsFiniteSet(R) /\ R # {} /\ p \in R
    <3>1. IsFiniteSet(R) /\ R # {}
      BY <1>0, <1>2, FS_EmptySet
    <3> QED
      BY <3>1 DEF Pick
  <2>2. \A x \in R : /\ R \ {x} \in SUBSET S /\ Cardinality(R \ {x}) = n
                     /\ IsFiniteSet(R \ {x})
    <3> TAKE x \in R
    <3>1. IsFiniteSet(R \ {x}) /\ Cardinality(R \ {x}) = Cardinality(R) - 1
      BY <2>1, FS_RemoveElement
    <3> QED
      BY <1>2, <3>1
  <2>3. \A x \in R : Good(R \ {x})
    <3> HIDE DEF Good
    <3> QED
      BY <1>2, <2>2
  <2>4. Sum(R) = fun[p] + Sum(R \ {p})
    BY <2>1, SumStep
  <2> HIDE DEF p
  <2>5. ASSUME NEW x \in R PROVE Sum(R) = fun[x] + Sum(R \ {x})
    <3>1. CASE x = p
      BY <2>4, <3>1
    <3>2. CASE x # p
      <4>1. x \in R \ {p} /\ p \in R \ {x} /\ (R \ {p}) \ {x} = (R \ {x}) \ {p}
        BY <2>1, <3>2
      <4>2. Sum(R \ {p}) = fun[x] + Sum((R \ {p}) \ {x})
        BY <2>1, <2>3, <4>1
      <4>3. Sum(R \ {x}) = fun[p] + Sum((R \ {x}) \ {p})
        BY <2>3, <4>1
      <4>4. Sum((R \ {p}) \ {x}) = Sum((R \ {x}) \ {p})
        BY <4>1
      <4>5. fun[x] \in Nat /\ fun[p] \in Nat /\ Sum((R \ {p}) \ {x}) \in Nat
        <5>1. (R \ {p}) \ {x} \in SUBSET S
          OBVIOUS
        <5> QED
          BY <1>0, <2>1, <5>1, SumType
      <4> HIDE DEF Sum
      <4> QED
        BY <2>4, <4>2, <4>3, <4>4, <4>5
    <3> QED
      BY <3>1, <3>2
  <2> QED
    BY <2>5
<1>3. \A n \in Nat : n \in T => n + 1 \in T
  <2> HIDE DEF Good
  <2> QED
    BY <1>2
<1>4. Nat \subseteq T
  <2> HIDE DEF T
  <2> QED
    BY <1>1, <1>3, Induction
<1>5. Cardinality(S) \in T
  <2> HIDE DEF T
  <2> QED
    BY <1>0, <1>4
<1> QED
  BY <1>5

(* Through b, the terms of one sum are those of the other.                 *)
Relabels(b, S, R, fun, gun) ==
  /\ IsFiniteSet(S) /\ \A x, y \in S : b[x] = b[y] => x = y
  /\ \A x \in S : b[x] \in R /\ gun[x] = fun[b[x]] /\ gun[x] \in Nat
  /\ \A y \in R : \E x \in S : b[x] = y

(* The sum does not depend on what its terms are indexed by.               *)
LEMMA SumRelabel ==
  ASSUME NEW S, NEW b, NEW R, NEW fun, NEW gun, Relabels(b, S, R, fun, gun)
  PROVE  SumFunctionOnSet(gun, S) = SumFunctionOnSet(fun, R)
<1> USE DEF Relabels
<1> DEFINE Image(Q) == {b[x] : x \in Q}
           Same(Q) == SumFunctionOnSet(gun, Q) = SumFunctionOnSet(fun, Image(Q))
           T == {n \in Nat : \A Q \in SUBSET S : Cardinality(Q) = n => Same(Q)}
<1>0. \A Q \in SUBSET S : IsFiniteSet(Q) /\ Cardinality(Q) \in Nat
  BY FS_Subset, FS_CardinalityType
<1>1. 0 \in T
  <2>1. \A Q \in SUBSET S : Cardinality(Q) = 0 => Q = {}
    BY <1>0, FS_EmptySet
  <2>2. Same({})
    <3>1. Image({}) = {}
      OBVIOUS
    <3>2. SumFunctionOnSet(gun, {}) = 0 /\ SumFunctionOnSet(fun, {}) = 0
      BY FS_EmptySet, SumStep
    <3> HIDE DEF Image
    <3> QED
      BY <3>1, <3>2
  <2> HIDE DEF Same
  <2> QED
    BY <2>1, <2>2
<1>2. ASSUME NEW n \in Nat, n \in T, NEW Q \in SUBSET S, Cardinality(Q) = n + 1
      PROVE  Same(Q)
  <2>1. IsFiniteSet(Q) /\ Q # {}
    BY <1>0, <1>2, FS_EmptySet
  <2>2. PICK x \in Q : TRUE
    BY <2>1
  <2>3. Cardinality(Q \ {x}) = n
    <3>1. Cardinality(Q \ {x}) = Cardinality(Q) - 1
      BY <2>1, <2>2, FS_RemoveElement
    <3> QED
      BY <1>2, <3>1
  <2>4. Same(Q \ {x})
    <3>1. Q \ {x} \in SUBSET S
      OBVIOUS
    <3> HIDE DEF Same
    <3> QED
      BY <1>2, <2>3, <3>1
  <2>5. SumFunctionOnSet(gun, Q) = gun[x] + SumFunctionOnSet(gun, Q \ {x})
    <3>1. \A y \in Q : gun[y] \in Nat
      OBVIOUS
    <3> QED
      BY <2>1, <3>1, SumSplit
  <2>6. Image(Q \ {x}) = Image(Q) \ {b[x]} /\ b[x] \in Image(Q)
    BY <2>2
  <2>7. IsFiniteSet(Image(Q))
    <3> DEFINE m == [y \in Q |-> b[y]]
    <3>1. m \in Surjection(Q, Image(Q))
      BY DEF Surjection
    <3> QED
      BY <2>1, <3>1, FS_Surjection
  <2>8. SumFunctionOnSet(fun, Image(Q)) = fun[b[x]] + SumFunctionOnSet(fun, Image(Q) \ {b[x]})
    <3>1. \A y \in Image(Q) : fun[y] \in Nat
      OBVIOUS
    <3> HIDE DEF Image
    <3> QED
      BY <2>6, <2>7, <3>1, SumSplit
  <2>9. gun[x] = fun[b[x]]
    BY <2>2
  <2> HIDE DEF Image
  <2> QED
    BY <2>4, <2>5, <2>6, <2>8, <2>9
<1>3. \A n \in Nat : n \in T => n + 1 \in T
  <2> HIDE DEF Same
  <2> QED
    BY <1>2
<1>4. Nat \subseteq T
  <2> HIDE DEF T
  <2> QED
    BY <1>1, <1>3, Induction
<1>5. Cardinality(S) \in T
  <2> HIDE DEF T
  <2> QED
    BY <1>0, <1>4
<1>6. Image(S) = R
  OBVIOUS
<1> QED
  BY <1>5, <1>6

(* The sum of a vector that grows by one element.                          *)
LEMMA SumAppended ==
  ASSUME NEW s \in Seq(Nat), NEW x \in Nat
  PROVE  /\ SumFunction(s) \in Nat
         /\ SumFunction(Append(s, x)) = SumFunction(s) + x
<1> DEFINE n == Len(s)
           t == Append(s, x)
           b == [k \in 1..n |-> k]
<1>1. /\ n \in Nat /\ DOMAIN s = 1..n /\ DOMAIN t = 1..(n + 1)
      /\ t[n + 1] = x /\ \A k \in 1..n : s[k] \in Nat /\ t[k] = s[k]
  OBVIOUS
<1>2. IsFiniteSet(1..n) /\ IsFiniteSet(1..(n + 1)) /\ (1..(n + 1)) \ {n + 1} = 1..n
  <2>1. n \in Int /\ n + 1 \in Int /\ (1..(n + 1)) \ {n + 1} = 1..n
    BY <1>1
  <2> HIDE DEF n
  <2> QED
    BY <2>1, FS_Interval
<1>3. SumFunction(s) = SumFunctionOnSet(s, 1..n)
      /\ SumFunction(t) = SumFunctionOnSet(t, 1..(n + 1))
  BY <1>1, Zenon DEF SumFunction
<1> HIDE DEF n, t
<1>4. SumFunctionOnSet(s, 1..n) \in Nat
  BY <1>1, <1>2, SumType
<1>5. SumFunctionOnSet(t, 1..(n + 1)) = t[n + 1] + SumFunctionOnSet(t, 1..n)
  <2>0. n + 1 \in 1..(n + 1)
    BY <1>1
  <2>1. \A k \in 1..(n + 1) : t[k] \in Nat
    <3> TAKE k \in 1..(n + 1)
    <3>1. k \in 1..n \/ k = n + 1
      BY <1>1
    <3> QED
      BY <1>1, <3>1
  <2>2. SumFunctionOnSet(t, 1..(n + 1)) = t[n + 1] + SumFunctionOnSet(t, (1..(n + 1)) \ {n + 1})
    BY <1>2, <2>0, <2>1, SumSplit
  <2> QED
    BY <1>2, <2>2
<1>6. SumFunctionOnSet(s, 1..n) = SumFunctionOnSet(t, 1..n)
  <2> DEFINE D == 1..n
  <2>1. \A k \in D : b[k] = k
    OBVIOUS
  <2>2. \A k \in D : s[k] = t[k] /\ s[k] \in Nat
    BY <1>1
  <2>3. IsFiniteSet(D)
    BY <1>2
  <2> HIDE DEF b, D
  <2>4. /\ \A k, l \in D : b[k] = b[l] => k = l
        /\ \A k \in D : s[k] = t[b[k]] /\ s[k] \in Nat /\ b[k] \in D
        /\ \A l \in D : \E k \in D : b[k] = l
    BY <2>1, <2>2
  <2>5. SumFunctionOnSet(s, D) = SumFunctionOnSet(t, D)
    <3>1. Relabels(b, D, D, t, s)
      BY <2>3, <2>4 DEF Relabels
    <3> QED
      BY <3>1, SumRelabel
  <2> QED
    BY <2>5 DEF D
<1> QED
  BY <1>1, <1>3, <1>4, <1>5, <1>6 DEF t

(* The sum of a vector that loses an element to a swap_remove.             *)
LEMMA SumSwapRemoved ==
  ASSUME NEW s \in Seq(Nat), NEW p \in 1..Len(s)
  PROVE  /\ SumFunction(SwapRemove(s, p)) \in Nat
         /\ SumFunction(SwapRemove(s, p)) = SumFunction(s) - s[p]
<1> DEFINE n == Len(s)
           r == SwapRemove(s, p)
           b == [k \in 1..(n - 1) |-> IF k = p THEN n ELSE k]
<1>1. n \in Nat /\ DOMAIN s = 1..n /\ \A k \in 1..n : s[k] \in Nat
  OBVIOUS
<1>2. DOMAIN r = 1..(n - 1) /\ \A k \in 1..(n - 1) : r[k] = s[b[k]] /\ b[k] \in 1..n
  <2>1. /\ r \in Seq(Nat) /\ Len(r) = n - 1
        /\ \A k \in 1..(n - 1) : r[k] = s[IF k = p THEN n ELSE k]
    BY SwapRemoved
  <2> HIDE DEF r
  <2> QED
    BY <2>1
<1>3. \A k, l \in 1..(n - 1) : b[k] = b[l] => k = l
  OBVIOUS
<1>4. {b[k] : k \in 1..(n - 1)} = (1..n) \ {p}
  <2>1. \A k \in 1..(n - 1) : b[k] \in (1..n) \ {p}
    OBVIOUS
  <2>2. \A q \in (1..n) \ {p} : \E k \in 1..(n - 1) : b[k] = q
    <3> TAKE q \in (1..n) \ {p}
    <3>1. CASE q = n
      <4>1. p \in 1..(n - 1) /\ b[p] = q
        BY <3>1
      <4> QED
        BY <4>1
    <3>2. CASE q # n
      <4>1. q \in 1..(n - 1) /\ b[q] = q
        BY <3>2
      <4> QED
        BY <4>1
    <3> QED
      BY <3>1, <3>2
  <2> HIDE DEF b
  <2> QED
    BY <2>1, <2>2
<1> HIDE DEF r, b
<1>5. IsFiniteSet(1..n) /\ IsFiniteSet(1..(n - 1))
  BY <1>1, FS_Interval
<1>6. SumFunction(s) = SumFunctionOnSet(s, 1..n)
      /\ SumFunction(r) = SumFunctionOnSet(r, 1..(n - 1))
  BY <1>1, <1>2, Zenon DEF SumFunction
<1>7. SumFunctionOnSet(s, 1..n) = s[p] + SumFunctionOnSet(s, (1..n) \ {p})
  BY <1>1, <1>5, SumSplit
<1>8. \A k \in 1..(n - 1) : r[k] = s[b[k]] /\ r[k] \in Nat
  BY <1>1, <1>2
<1> HIDE DEF n
<1>9. SumFunctionOnSet(r, 1..(n - 1)) = SumFunctionOnSet(s, (1..n) \ {p})
  <2> DEFINE D == 1..(n - 1)
             R == (1..n) \ {p}
  <2>1. /\ IsFiniteSet(D) /\ \A k \in D : b[k] \in R
        /\ \A l \in R : \E k \in D : b[k] = l
    BY <1>4, <1>5
  <2>2. /\ \A k, l \in D : b[k] = b[l] => k = l
        /\ \A k \in D : r[k] = s[b[k]] /\ r[k] \in Nat
    BY <1>3, <1>8
  <2> HIDE DEF D, R
  <2>3. SumFunctionOnSet(r, D) = SumFunctionOnSet(s, R)
    <3>1. Relabels(b, D, R, s, r)
      BY <2>1, <2>2 DEF Relabels
    <3> QED
      BY <3>1, SumRelabel
  <2> QED
    BY <2>3 DEF D, R
<1>10. SumFunctionOnSet(r, 1..(n - 1)) \in Nat
  BY <1>5, <1>8, SumType
<1>11. s[p] \in Nat
  OBVIOUS
<1> QED
  BY <1>6, <1>7, <1>9, <1>10, <1>11 DEF r

-----------------------------------------------------------------------------
(* One scored number comes before another: the order of sort_by.           *)
Beats(x, y) == x[2] > y[2] \/ (x[2] = y[2] /\ x[1] < y[1])

(* sort_by lists each of its elements once, the better before the worse.   *)
LEMMA BestFirstOrders ==
  ASSUME NEW scored \in SUBSET (Int \X Int), IsFiniteSet(scored)
  PROVE  LET s == BestFirst(scored) IN
         /\ s \in Seq(scored) /\ Len(s) = Cardinality(scored)
         /\ ToSet(s) = scored /\ IsInjective(s)
         /\ \A p, q \in 1..Len(s) : p < q => Beats(s[p], s[q])
<1> DEFINE n == Cardinality(scored)
           rank == [x \in scored |-> Cardinality(Ahead(scored, x)) + 1]
           s == BestFirst(scored)
<1>1. n \in Nat
  BY FS_CardinalityType
<1>2. \A x \in scored : x[1] \in Int /\ x[2] \in Int /\ x = <<x[1], x[2]>>
  OBVIOUS
<1>3. \A x \in scored : IsFiniteSet(Ahead(scored, x)) /\ rank[x] \in 1..n
  <2> TAKE x \in scored
  <2>1. Ahead(scored, x) \subseteq scored /\ x \notin Ahead(scored, x)
    BY <1>2 DEF Ahead
  <2>2. /\ IsFiniteSet(Ahead(scored, x)) /\ Cardinality(Ahead(scored, x)) \in Nat
        /\ Cardinality(Ahead(scored, x)) <= n
        /\ Cardinality(Ahead(scored, x)) = n => Ahead(scored, x) = scored
    BY <2>1, FS_Subset, FS_CardinalityType
  <2> QED
    BY <1>1, <2>1, <2>2
<1>4. ASSUME NEW x \in scored, NEW y \in scored, Beats(x, y)
      PROVE  rank[x] < rank[y]
  <2>1. Ahead(scored, x) \subseteq Ahead(scored, y)
    BY <1>2, <1>4 DEF Ahead, Beats
  <2>2. x \in Ahead(scored, y) /\ x \notin Ahead(scored, x)
    BY <1>2, <1>4 DEF Ahead, Beats
  <2>3. /\ Cardinality(Ahead(scored, x)) <= Cardinality(Ahead(scored, y))
        /\ Cardinality(Ahead(scored, x)) # Cardinality(Ahead(scored, y))
        /\ Cardinality(Ahead(scored, x)) \in Nat /\ Cardinality(Ahead(scored, y)) \in Nat
    BY <1>3, <2>1, <2>2, FS_Subset, FS_CardinalityType
  <2> QED
    BY <2>3
<1>5. ASSUME NEW x \in scored, NEW y \in scored, x # y
      PROVE  Beats(x, y) \/ Beats(y, x)
  BY <1>2, <1>5 DEF Beats
<1>6. \A x, y \in scored : rank[x] = rank[y] => x = y
  BY <1>3, <1>4, <1>5
<1>7. \A p \in 1..n : \E x \in scored : rank[x] = p
  <2>1. IsFiniteSet(1..n) /\ Cardinality(1..n) = n
    BY <1>1, FS_Interval
  <2>2. rank \in Injection(scored, 1..n)
    BY <1>3, <1>6 DEF Injection, IsInjective
  <2>3. rank \in Surjection(scored, 1..n)
    <3> HIDE DEF rank
    <3> QED
      BY <2>1, <2>2, FS_Injection DEF Bijection
  <2> HIDE DEF rank
  <2> QED
    BY <2>3 DEF Surjection
<1>8. /\ DOMAIN s = 1..n
      /\ \A p \in 1..n : s[p] \in scored /\ rank[s[p]] = p
  <2>1. \A p \in 1..n : s[p] = CHOOSE x \in scored : Cardinality(Ahead(scored, x)) = p - 1
    BY DEF BestFirst
  <2>2. \A p \in 1..n : \E x \in scored : Cardinality(Ahead(scored, x)) = p - 1
    <3> TAKE p \in 1..n
    <3>1. PICK x \in scored : rank[x] = p
      BY <1>7
    <3>2. Cardinality(Ahead(scored, x)) \in Nat
      BY <1>3, FS_CardinalityType
    <3> QED
      BY <3>1, <3>2
  <2>3. DOMAIN s = 1..n
    BY DEF BestFirst
  <2> HIDE DEF s
  <2>4. ASSUME NEW p \in 1..n PROVE s[p] \in scored /\ rank[s[p]] = p
    <3>1. s[p] \in scored /\ Cardinality(Ahead(scored, s[p])) = p - 1
      BY <2>1, <2>2
    <3> QED
      BY <3>1
  <2> QED
    BY <2>3, <2>4
<1>9. s \in Seq(scored) /\ Len(s) = n
  <2>1. s = [p \in 1..n |-> s[p]]
    BY <1>8 DEF BestFirst
  <2> HIDE DEF s, n, rank
  <2>2. s \in [1..n -> scored]
    BY <1>8, <2>1
  <2> QED
    BY <1>1, <2>2
<1> HIDE DEF s, rank
<1>10. IsInjective(s)
  BY <1>8 DEF IsInjective
<1>11. ToSet(s) = scored
  <2>1. ToSet(s) \subseteq scored
    BY <1>8 DEF ToSet
  <2>2. ASSUME NEW x \in scored PROVE x \in ToSet(s)
    <3>1. rank[x] \in 1..n /\ s[rank[x]] = x
      BY <1>3, <1>6, <1>8
    <3> QED
      BY <1>8, <3>1 DEF ToSet
  <2> QED
    BY <2>1, <2>2
<1>12. ASSUME NEW p \in 1..n, NEW q \in 1..n, p < q
       PROVE  Beats(s[p], s[q])
  <2>1. s[p] \in scored /\ s[q] \in scored /\ rank[s[p]] = p /\ rank[s[q]] = q
    BY <1>8
  <2>2. s[p] # s[q]
    BY <1>12, <2>1
  <2>3. ~Beats(s[q], s[p])
    <3>1. Beats(s[q], s[p]) => q < p
      BY <1>4, <2>1
    <3> QED
      BY <1>12, <3>1
  <2> QED
    BY <1>5, <2>1, <2>2, <2>3
<1> QED
  BY <1>9, <1>10, <1>11, <1>12 DEF s

-----------------------------------------------------------------------------
(* Sums of integers are integers.                                          *)
LEMMA SumInt ==
  ASSUME NEW S, IsFiniteSet(S), NEW fun, \A x \in S : fun[x] \in Int
  PROVE  SumFunctionOnSet(fun, S) \in Int
<1> DEFINE Sum(R) == SumFunctionOnSet(fun, R)
           T == {n \in Nat : \A R \in SUBSET S : Cardinality(R) = n => Sum(R) \in Int}
<1>0. \A R \in SUBSET S : IsFiniteSet(R) /\ Cardinality(R) \in Nat
  BY FS_Subset, FS_CardinalityType
<1>1. 0 \in T
  <2>1. \A R \in SUBSET S : Cardinality(R) = 0 => R = {}
    BY <1>0, FS_EmptySet
  <2>2. Sum({}) = 0
    BY FS_EmptySet, SumStep
  <2> HIDE DEF Sum
  <2> QED
    BY <2>1, <2>2
<1>2. ASSUME NEW n \in Nat, n \in T, NEW R \in SUBSET S, Cardinality(R) = n + 1
      PROVE  Sum(R) \in Int
  <2>1. IsFiniteSet(R) /\ R # {}
    BY <1>0, <1>2, FS_EmptySet
  <2>2. Pick(R) \in R
    BY <2>1 DEF Pick
  <2>3. Cardinality(R \ {Pick(R)}) = n
    <3>1. Cardinality(R \ {Pick(R)}) = Cardinality(R) - 1
      BY <2>1, <2>2, FS_RemoveElement
    <3> QED
      BY <1>2, <3>1
  <2>4. Sum(R \ {Pick(R)}) \in Int /\ fun[Pick(R)] \in Int
    BY <1>2, <2>2, <2>3
  <2> QED
    BY <2>1, <2>4, SumStep
<1>3. \A n \in Nat : n \in T => n + 1 \in T
  BY <1>2
<1>4. Nat \subseteq T
  <2> HIDE DEF T
  <2> QED
    BY <1>1, <1>3, Induction
<1>5. Cardinality(S) \in T
  <2> HIDE DEF T
  <2> QED
    BY <1>0, <1>4
<1> QED
  BY <1>5

(* Terms that are zero do not count.                                       *)
LEMMA SumZeros ==
  ASSUME NEW S, IsFiniteSet(S), NEW R \in SUBSET S, NEW fun,
         \A x \in S : fun[x] \in Nat, \A x \in S \ R : fun[x] = 0
  PROVE  SumFunctionOnSet(fun, S) = SumFunctionOnSet(fun, R)
<1> DEFINE Same(Q) == SumFunctionOnSet(fun, Q) = SumFunctionOnSet(fun, R)
           Between == {Q \in SUBSET S : R \subseteq Q}
           T == {n \in Nat : \A Q \in Between : Cardinality(Q \ R) = n => Same(Q)}
<1>0. \A Q \in SUBSET S : /\ IsFiniteSet(Q)
                          /\ IsFiniteSet(Q \ R) /\ Cardinality(Q \ R) \in Nat
  <2>1. \A Q \in SUBSET S : Q \ R \in SUBSET S
    OBVIOUS
  <2> QED
    BY <2>1, FS_Subset, FS_CardinalityType
<1>1. 0 \in T
  <2>1. \A Q \in Between : Cardinality(Q \ R) = 0 => Q = R
    <3> TAKE Q \in Between
    <3> HAVE Cardinality(Q \ R) = 0
    <3>1. Q \ R = {}
      BY <1>0, FS_EmptySet
    <3> QED
      BY <3>1
  <2> QED
    BY <2>1
<1>2. ASSUME NEW n \in Nat, n \in T, NEW Q \in Between, Cardinality(Q \ R) = n + 1
      PROVE  Same(Q)
  <2>1. PICK x \in Q \ R : TRUE
    BY <1>2, FS_EmptySet
  <2>2. Cardinality((Q \ {x}) \ R) = n
    <3>1. (Q \ {x}) \ R = (Q \ R) \ {x}
      OBVIOUS
    <3>2. Cardinality((Q \ R) \ {x}) = Cardinality(Q \ R) - 1
      BY <1>0, <2>1, FS_RemoveElement
    <3> QED
      BY <1>2, <3>1, <3>2
  <2>3. Same(Q \ {x})
    <3>1. Q \ {x} \in Between
      BY <2>1
    <3> HIDE DEF Same, Between
    <3> QED
      BY <1>2, <2>2, <3>1
  <2>4. SumFunctionOnSet(fun, Q) = fun[x] + SumFunctionOnSet(fun, Q \ {x})
    <3>1. \A y \in Q : fun[y] \in Nat
      OBVIOUS
    <3> QED
      BY <1>0, <2>1, <3>1, SumSplit
  <2>5. fun[x] = 0 /\ SumFunctionOnSet(fun, Q \ {x}) \in Nat
    <3>1. \A y \in Q \ {x} : fun[y] \in Nat
      OBVIOUS
    <3>2. IsFiniteSet(Q \ {x}) /\ x \in S \ R
      <4>1. Q \ {x} \in SUBSET S
        OBVIOUS
      <4> QED
        BY <1>0, <2>1, <4>1
    <3> QED
      BY <3>1, <3>2, SumType
  <2> QED
    BY <2>3, <2>4, <2>5
<1>3. \A n \in Nat : n \in T => n + 1 \in T
  <2> HIDE DEF Same, Between
  <2> QED
    BY <1>2
<1>4. Nat \subseteq T
  <2> HIDE DEF T
  <2> QED
    BY <1>1, <1>3, Induction
<1>5. Cardinality(S \ R) \in T
  <2> HIDE DEF T
  <2> QED
    BY <1>0, <1>4
<1> QED
  BY <1>5

(* A sum of which one term at most is not zero is that term.               *)
LEMMA SumSingle ==
  ASSUME NEW S, IsFiniteSet(S), NEW a \in S, NEW fun,
         \A x \in S : fun[x] \in Nat, \A x \in S \ {a} : fun[x] = 0
  PROVE  SumFunctionOnSet(fun, S) = fun[a]
<1>1. SumFunctionOnSet(fun, S) = SumFunctionOnSet(fun, {a})
  <2>1. {a} \in SUBSET S
    OBVIOUS
  <2> DEFINE R == {a}
  <2> HIDE DEF R
  <2>2. R \in SUBSET S /\ \A x \in S \ R : fun[x] = 0
    BY <2>1 DEF R
  <2>3. SumFunctionOnSet(fun, S) = SumFunctionOnSet(fun, R)
    BY <2>2, SumZeros
  <2> QED
    BY <2>3 DEF R
<1>2. SumFunctionOnSet(fun, {a}) = fun[a] + SumFunctionOnSet(fun, {})
  <2>1. IsFiniteSet({a}) /\ {a} # {} /\ {a} \ {a} = {} /\ Pick({a}) = a
    BY FS_Singleton DEF Pick
  <2> QED
    BY <2>1, SumStep
<1>3. SumFunctionOnSet(fun, {}) = 0
  BY FS_EmptySet, SumStep
<1> QED
  BY <1>1, <1>2, <1>3

(* The first elements of a list, up to a limit.                            *)
LEMMA FirstOf ==
  ASSUME NEW S, NEW s \in Seq(S), NEW limit \in Nat
  PROVE  LET m == Min({limit, Len(s)})
             r == SubSeq(s, 1, m)
         IN  /\ m \in Nat /\ m <= Len(s) /\ m <= limit
             /\ r \in Seq(S) /\ Len(r) = m /\ \A i \in 1..m : r[i] = s[i]
             /\ IsPrefix(r, s)
<1> DEFINE m == Min({limit, Len(s)})
           r == SubSeq(s, 1, m)
<1>1. m \in {limit, Len(s)} /\ m <= limit /\ m <= Len(s)
  <2>1. \E x \in {limit, Len(s)} : \A y \in {limit, Len(s)} : x <= y
    <3>1. CASE limit <= Len(s)
      BY <3>1
    <3>2. CASE ~(limit <= Len(s))
      BY <3>2
    <3> QED
      BY <3>1, <3>2
  <2>2. m \in {limit, Len(s)} /\ \A y \in {limit, Len(s)} : m <= y
    BY <2>1 DEF Min
  <2> QED
    BY <2>2
<1>2. m \in Nat
  BY <1>1
<1> HIDE DEF m
<1>3. r \in Seq(S) /\ Len(r) = m /\ \A i \in 1..m : r[i] = s[i]
  BY <1>1, <1>2
<1>4. IsPrefix(r, s)
  <2>1. SubSeq(r, 1, m) = SubSeq(s, 1, m)
    BY <1>1, <1>2, <1>3
  <2> QED
    BY <1>1, <1>3, <2>1 DEF IsPrefix
<1> QED
  BY <1>1, <1>2, <1>3, <1>4 DEF m

(* What a limit leaves of a list, 0 being none.                            *)
Cut(s, limit) == IF limit = 0 THEN s ELSE SubSeq(s, 1, Min({limit, Len(s)}))

(* A limit keeps the first elements.                                       *)
LEMMA CutFacts ==
  ASSUME NEW S, NEW s \in Seq(S), NEW limit \in Nat
  PROVE  /\ Cut(s, limit) \in Seq(S)
         /\ Cut(s, 0) = s
         /\ limit # 0 => Len(Cut(s, limit)) = Min({limit, Len(s)})
         /\ Len(Cut(s, limit)) <= Len(s)
         /\ IsPrefix(Cut(s, limit), s)
         /\ \A i \in 1..Len(Cut(s, limit)) : Cut(s, limit)[i] = s[i]
<1>1. CASE limit = 0
  <2>1. Cut(s, limit) = s
    BY <1>1 DEF Cut
  <2>2. IsPrefix(s, s)
    BY DEF IsPrefix
  <2> QED
    BY <1>1, <2>1, <2>2
<1>2. CASE limit # 0
  <2> DEFINE m == Min({limit, Len(s)})
             r == SubSeq(s, 1, m)
  <2>1. Cut(s, limit) = r /\ Cut(s, 0) = s
    BY <1>2 DEF Cut
  <2>2. /\ m \in Nat /\ m <= Len(s)
        /\ r \in Seq(S) /\ Len(r) = m /\ \A i \in 1..m : r[i] = s[i]
        /\ IsPrefix(r, s)
    BY FirstOf
  <2> HIDE DEF r
  <2>3. Len(r) = Min({limit, Len(s)})
    BY <2>2
  <2> HIDE DEF m
  <2> QED
    BY <1>2, <2>1, <2>2, <2>3
<1> QED
  BY <1>1, <1>2

(* The names of scored positions, with their scores.                       *)
Hits(names, best) == [h \in DOMAIN best |-> <<names[best[h][1]], best[h][2]>>]

(* At most one score for a position.                                       *)
ScoredOnce(scored, n) ==
  /\ scored \subseteq (1..n) \X Int
  /\ \A x, y \in scored : x[1] = y[1] => x = y

(* The names of all the scored positions, each once, best first; and what  *)
(* a limit leaves of the ranking names the first of these.                 *)
ListsBest(hits, Names, names, scored) ==
  /\ hits \in Seq(Names \X Int)
  /\ ToSet(hits) = {<<names[x[1]], x[2]>> : x \in scored}
  /\ \A a, b \in 1..Len(hits) : a < b =>
       hits[a][1] # hits[b][1] /\ hits[a][2] >= hits[b][2]
  /\ \A limit \in Nat : Hits(names, Cut(BestFirst(scored), limit)) = Cut(hits, limit)

(* The hits of a search are so.                                            *)
LEMMA HitsListed ==
  ASSUME NEW Names, NEW names \in Seq(Names), IsInjective(names),
         NEW scored, ScoredOnce(scored, Len(names))
  PROVE  ListsBest(Hits(names, BestFirst(scored)), Names, names, scored)
<1> DEFINE best == BestFirst(scored)
           hits == Hits(names, best)
           n == Len(names)
           Hit(x) == <<names[x[1]], x[2]>>
<1>1. n \in Nat /\ DOMAIN names = 1..n /\ \A i \in 1..n : names[i] \in Names
  OBVIOUS
<1> HIDE DEF n
<1>2. /\ scored \subseteq (1..n) \X Int
      /\ \A x, y \in scored : x[1] = y[1] => x = y
  BY DEF ScoredOnce, n
<1>3. IsFiniteSet(scored)
  <2> DEFINE m == [x \in scored |-> x[1]]
  <2>1. m \in Injection(scored, 1..n)
    BY <1>2 DEF Injection, IsInjective
  <2>2. IsFiniteSet(1..n)
    BY <1>1, FS_Interval
  <2> QED
    BY <2>1, <2>2, FS_Injection
<1>4. scored \in SUBSET (Int \X Int)
  BY <1>1, <1>2
<1>5. /\ best \in Seq(scored) /\ ToSet(best) = scored /\ IsInjective(best)
      /\ \A a, b \in 1..Len(best) : a < b => Beats(best[a], best[b])
  BY <1>3, <1>4, BestFirstOrders
<1> HIDE DEF best
<1> DEFINE m == Len(best)
<1>6. m \in Nat /\ DOMAIN best = 1..m /\ \A a \in 1..m : best[a] \in scored
  BY <1>5
<1> HIDE DEF m
<1>7. hits = [h \in 1..m |-> Hit(best[h])]
  BY <1>6 DEF Hits
<1> HIDE DEF hits
<1>8. hits \in Seq(Names \X Int) /\ Len(hits) = m /\ DOMAIN hits = 1..m
  <2>1. \A x \in scored : Hit(x) \in Names \X Int
    BY <1>1, <1>2
  <2>2. hits \in [1..m -> Names \X Int]
    <3> HIDE DEF Hit
    <3> QED
      BY <1>6, <1>7, <2>1
  <2> QED
    BY <1>6, <2>2
<1>9. ToSet(hits) = {Hit(x) : x \in scored}
  <2>1. ToSet(best) = {best[a] : a \in 1..m} /\ ToSet(hits) = {hits[a] : a \in 1..m}
    BY <1>6, <1>8, Zenon DEF ToSet
  <2>2. \A a \in 1..m : hits[a] = Hit(best[a])
    BY <1>7
  <2> HIDE DEF Hit
  <2> QED
    BY <1>5, <2>1, <2>2
<1>10. ASSUME NEW a \in 1..m, NEW b \in 1..m, a < b
       PROVE  hits[a][1] # hits[b][1] /\ hits[a][2] >= hits[b][2]
  <2>1. /\ Beats(best[a], best[b]) /\ best[a] \in scored /\ best[b] \in scored
        /\ best[a][1] \in 1..n /\ best[b][1] \in 1..n
        /\ best[a][2] \in Int /\ best[b][2] \in Int
    BY <1>2, <1>5, <1>6, <1>10 DEF m
  <2>2. best[a] # best[b]
    BY <1>5, <1>6, <1>10 DEF IsInjective
  <2>3. best[a][1] # best[b][1] /\ best[a][2] >= best[b][2]
    BY <1>2, <2>1, <2>2 DEF Beats
  <2>4. names[best[a][1]] # names[best[b][1]]
    BY <1>1, <2>1, <2>3 DEF IsInjective
  <2> QED
    BY <1>7, <2>3, <2>4
<1>11. ASSUME NEW limit \in Nat
       PROVE  Hits(names, Cut(best, limit)) = Cut(hits, limit)
  <2> DEFINE t == Cut(best, limit)
             u == Cut(hits, limit)
  <2>1. /\ t \in Seq(scored)
        /\ limit # 0 => Len(t) = Min({limit, m})
        /\ limit = 0 => t = best
        /\ Len(t) <= m /\ \A i \in 1..Len(t) : t[i] = best[i]
    BY <1>5, CutFacts DEF m
  <2>2. /\ u \in Seq(Names \X Int)
        /\ limit # 0 => Len(u) = Min({limit, m})
        /\ limit = 0 => u = hits
        /\ Len(u) <= m /\ \A i \in 1..Len(u) : u[i] = hits[i]
    BY <1>8, CutFacts
  <2> HIDE DEF t, u
  <2>3. Len(t) = Len(u)
    <3>1. CASE limit = 0
      BY <1>8, <2>1, <2>2, <3>1 DEF m
    <3>2. CASE limit # 0
      BY <2>1, <2>2, <3>2
    <3> QED
      BY <3>1, <3>2
  <2> DEFINE l == Len(t)
  <2>4. l \in Nat /\ l <= m /\ DOMAIN t = 1..l /\ u = [h \in 1..l |-> u[h]]
    <3>1. l \in Nat /\ l <= m /\ DOMAIN t = 1..l
      BY <2>1
    <3>2. u = [h \in 1..Len(u) |-> u[h]]
      BY <2>2
    <3> QED
      BY <2>3, <3>1, <3>2
  <2> HIDE DEF l
  <2>5. \A h \in 1..l : Hit(t[h]) = u[h]
    <3> TAKE h \in 1..l
    <3>1. h \in 1..m
      BY <1>6, <2>4
    <3>2. hits[h] = Hit(best[h])
      BY <1>7, <3>1
    <3> QED
      BY <2>1, <2>2, <2>3, <3>2 DEF l
  <2>6. Hits(names, t) = [h \in 1..l |-> Hit(t[h])]
    BY <2>4 DEF Hits
  <2> HIDE DEF Hit
  <2>7. [h \in 1..l |-> Hit(t[h])] = [h \in 1..l |-> u[h]]
    BY <2>5
  <2>8. Hits(names, t) = u
    BY <2>4, <2>6, <2>7
  <2> QED
    BY <2>8 DEF t, u
<1> QED
  BY <1>8, <1>9, <1>10, <1>11 DEF ListsBest, hits, best

(* A sum is that of the same terms, and no less than any of them.          *)
LEMMA SumSame ==
  ASSUME NEW S, IsFiniteSet(S), NEW fun, NEW gun,
         \A x \in S : fun[x] = gun[x] /\ fun[x] \in Nat
  PROVE  /\ SumFunctionOnSet(fun, S) = SumFunctionOnSet(gun, S)
         /\ \A x \in S : fun[x] <= SumFunctionOnSet(fun, S)
<1> DEFINE b == [x \in S |-> x]
<1>1. \A x \in S : b[x] = x
  OBVIOUS
<1> HIDE DEF b
<1>2. Relabels(b, S, S, gun, fun)
  BY <1>1 DEF Relabels
<1>3. ASSUME NEW x \in S PROVE fun[x] <= SumFunctionOnSet(fun, S)
  <2>1. SumFunctionOnSet(fun, S) = fun[x] + SumFunctionOnSet(fun, S \ {x})
    BY SumSplit
  <2>2. SumFunctionOnSet(fun, S \ {x}) \in Nat
    <3>1. IsFiniteSet(S \ {x}) /\ \A y \in S \ {x} : fun[y] \in Nat
      BY FS_Subset
    <3> QED
      BY <3>1, SumType
  <2> QED
    BY <2>1, <2>2
<1> QED
  BY <1>2, <1>3, SumRelabel

-----------------------------------------------------------------------------
(* Recursion along a sequence: a function on 0..n is determined by its     *)
(* value at 0 and by each value's making of the next.                      *)
Steps(step, n, V) == \A v \in V, k \in 1..n : step[<<v, k>>] \in V

Recursion(f, n, V, base, step) ==
  /\ f \in [0..n -> V]
  /\ f[0] = base
  /\ \A k \in 1..n : f[k] = step[<<f[k - 1], k>>]

LEMMA RecursionExists ==
  ASSUME NEW n \in Nat, NEW V, NEW base \in V, NEW step, Steps(step, n, V)
  PROVE  \E f : Recursion(f, n, V, base, step)
<1> DEFINE Upto(m) == \E f \in [0..m -> V] :
                        f[0] = base /\ \A k \in 1..m : f[k] = step[<<f[k - 1], k>>]
           T == {m \in Nat : m <= n => Upto(m)}
<1>1. 0 \in T
  <2> DEFINE g == [k \in 0..0 |-> base]
  <2>1. g \in [0..0 -> V] /\ g[0] = base /\ \A k \in 1..0 : g[k] = step[<<g[k - 1], k>>]
    OBVIOUS
  <2> HIDE DEF g
  <2> QED
    BY <2>1
<1>2. ASSUME NEW m \in Nat, m \in T
      PROVE  m + 1 \in T
  <2> SUFFICES ASSUME m + 1 <= n PROVE Upto(m + 1)
    OBVIOUS
  <2>1. PICK f \in [0..m -> V] :
          f[0] = base /\ \A k \in 1..m : f[k] = step[<<f[k - 1], k>>]
    BY <1>2
  <2> DEFINE v == step[<<f[m], m + 1>>]
             g == [k \in 0..(m + 1) |-> IF k = m + 1 THEN v ELSE f[k]]
  <2>2. v \in V
    <3>1. f[m] \in V /\ m + 1 \in 1..n
      OBVIOUS
    <3> QED
      BY <3>1 DEF Steps
  <2>3. g \in [0..(m + 1) -> V]
    <3> HIDE DEF v
    <3> QED
      BY <2>2
  <2>4. g[0] = base
    BY <2>1
  <2>5. ASSUME NEW k \in 1..(m + 1) PROVE g[k] = step[<<g[k - 1], k>>]
    <3>1. CASE k = m + 1
      <4>1. g[k] = v /\ g[k - 1] = f[m]
        BY <3>1
      <4> QED
        BY <3>1, <4>1
    <3>2. CASE k # m + 1
      <4>1. k \in 1..m /\ g[k] = f[k] /\ g[k - 1] = f[k - 1]
        BY <3>2
      <4> QED
        BY <2>1, <4>1
    <3> QED
      BY <3>1, <3>2
  <2> HIDE DEF g
  <2> QED
    BY <2>3, <2>4, <2>5
<1>3. n \in T
  <2> HIDE DEF T
  <2>1. Nat \subseteq T
    BY <1>1, <1>2, Induction
  <2> QED
    BY <2>1
<1>4. PICK f \in [0..n -> V] : f[0] = base /\ \A k \in 1..n : f[k] = step[<<f[k - 1], k>>]
  BY <1>3
<1> QED
  BY <1>4 DEF Recursion

-----------------------------------------------------------------------------
(* Sequences in the order of a relation.                                   *)
Ordered(s, R) == \A i, j \in 1..Len(s) : i < j => <<s[i], s[j]>> \in R

StrictOn(R, X) ==
  /\ \A x \in X : <<x, x>> \notin R
  /\ \A x, y, z \in X : <<x, y>> \in R /\ <<y, z>> \in R => <<x, z>> \in R

TotalOn(R, X) == \A x, y \in X : x # y => <<x, y>> \in R \/ <<y, x>> \in R

(* An ordered sequence holds each element once.                            *)
LEMMA OrderedInjective ==
  ASSUME NEW X, NEW s \in Seq(X), NEW R, StrictOn(R, X), Ordered(s, R)
  PROVE  IsInjective(s)
<1> SUFFICES ASSUME NEW p \in 1..Len(s), NEW q \in 1..Len(s), s[p] = s[q], p # q
             PROVE  FALSE
  BY DEF IsInjective
<1>1. s[p] \in X /\ <<s[p], s[p]>> \notin R
  BY DEF StrictOn
<1>2. p < q \/ q < p
  OBVIOUS
<1> QED
  BY <1>1, <1>2 DEF Ordered

(* Two ordered sequences of the same elements are the same sequence.       *)
LEMMA OrderedUnique ==
  ASSUME NEW X, NEW R, StrictOn(R, X), NEW s \in Seq(X), Ordered(s, R),
         NEW t \in Seq(X), Ordered(t, R), ToSet(s) = ToSet(t)
  PROVE  s = t
<1>1. ASSUME NEW u \in Seq(X), Ordered(u, R), NEW w \in Seq(X), Ordered(w, R),
             ToSet(u) = ToSet(w)
      PROVE  \A i \in 1..Len(u) : i <= Len(w) /\ u[i] = w[i]
  <2> DEFINE Differ == {i \in 1..Len(u) : ~(i <= Len(w) /\ u[i] = w[i])}
  <2> SUFFICES ASSUME Differ # {} PROVE FALSE
    OBVIOUS
  <2>1. PICK i \in Differ : \A m \in Differ : i <= m
    <3>1. Differ \subseteq Nat
      OBVIOUS
    <3> HIDE DEF Differ
    <3> QED
      BY <3>1, Least, Zenon
  <2>2. \A q \in 1..Len(u) : q < i => q <= Len(w) /\ u[q] = w[q]
    <3> TAKE q \in 1..Len(u)
    <3> HAVE q < i
    <3>1. ~(i <= q)
      OBVIOUS
    <3> QED
      BY <2>1, <3>1
  <2>3. i \in 1..Len(u) /\ ~(i <= Len(w) /\ u[i] = w[i])
    OBVIOUS
  <2> HIDE DEF Differ
  <2>4. PICK j \in 1..Len(w) : u[i] = w[j]
    BY <1>1, <2>3, SeqElements
  <2>5. ~(j < i)
    <3> SUFFICES ASSUME j < i PROVE FALSE
      OBVIOUS
    <3>1. j \in 1..Len(u) /\ u[j] = w[j]
      BY <2>2, <2>3
    <3> QED
      BY <1>1, <2>3, <2>4, <3>1, OrderedInjective DEF IsInjective
  <2>6. i \in 1..Len(w) /\ i < j
    <3>1. i <= Len(w)
      BY <2>3, <2>5
    <3>2. j # i
      BY <2>3, <2>4, <3>1
    <3> QED
      BY <2>3, <2>5, <3>1, <3>2
  <2>7. PICK m \in 1..Len(u) : w[i] = u[m]
    BY <1>1, <2>6, SeqElements
  <2>8. ~(m < i)
    <3> SUFFICES ASSUME m < i PROVE FALSE
      OBVIOUS
    <3>1. m \in 1..Len(w) /\ u[m] = w[m]
      BY <2>2
    <3> QED
      BY <1>1, <2>6, <2>7, <3>1, OrderedInjective DEF IsInjective
  <2>9. <<w[i], w[j]>> \in R
    BY <1>1, <2>6 DEF Ordered
  <2>10. <<u[m], u[i]>> \in R
    BY <2>4, <2>7, <2>9
  <2>11. m = i \/ <<u[i], u[m]>> \in R
    BY <1>1, <2>3, <2>8 DEF Ordered
  <2>12. u[m] \in X /\ u[i] \in X
    BY <1>1, <2>3
  <2> QED
    BY <2>10, <2>11, <2>12 DEF StrictOn
<1>2. \A i \in 1..Len(s) : i <= Len(t) /\ s[i] = t[i]
  BY <1>1
<1>3. \A i \in 1..Len(t) : i <= Len(s) /\ t[i] = s[i]
  BY <1>1
<1>4. Len(s) = Len(t)
  <2>1. Len(s) \in Nat /\ Len(t) \in Nat
    OBVIOUS
  <2>2. Len(s) <= Len(t)
    BY <1>2, <2>1
  <2>3. Len(t) <= Len(s)
    BY <1>3, <2>1
  <2> QED
    BY <2>1, <2>2, <2>3
<1> QED
  BY <1>2, <1>4, SeqEqual

(* The opposite order.                                                     *)
Converse(R, X) == {p \in X \X X : <<p[2], p[1]>> \in R}

(* The reverse of an ordered sequence is in the opposite order.            *)
LEMMA ReversedOrdered ==
  ASSUME NEW X, NEW s \in Seq(X)
  PROVE  /\ Reverse(s) \in Seq(X) /\ Len(Reverse(s)) = Len(s)
         /\ ToSet(Reverse(s)) = ToSet(s)
         /\ \A i \in 1..Len(s) : Reverse(s)[i] = s[Len(s) + 1 - i]
         /\ \A R : Ordered(s, R) => Ordered(Reverse(s), Converse(R, X))
<1> DEFINE r == Reverse(s)
           n == Len(s)
<1>1. n \in Nat
  OBVIOUS
<1>2. \A i \in 1..n : n - i + 1 \in 1..n /\ n - i + 1 = n + 1 - i /\ r[i] = s[n + 1 - i]
  BY DEF Reverse
<1>3. r \in [1..n -> X]
  BY DEF Reverse
<1>4. r \in Seq(X) /\ Len(r) = n
  BY <1>1, <1>3
<1> HIDE DEF r
<1>5. ToSet(r) = ToSet(s)
  <2>1. ToSet(r) \subseteq ToSet(s)
    BY <1>2, <1>4 DEF ToSet
  <2>2. ASSUME NEW i \in 1..n PROVE s[i] \in ToSet(r)
    <3>1. n + 1 - i \in 1..n /\ r[n + 1 - i] = s[i]
      BY <1>1, <1>2
    <3> QED
      BY <1>4, <3>1 DEF ToSet
  <2> QED
    BY <2>1, <2>2 DEF ToSet
<1>6. ASSUME NEW R, Ordered(s, R), NEW i \in 1..n, NEW j \in 1..n, i < j
      PROVE  <<r[j], r[i]>> \in R /\ r[i] \in X /\ r[j] \in X
  <2>1. n + 1 - j \in 1..n /\ n + 1 - i \in 1..n /\ n + 1 - j < n + 1 - i
    BY <1>1, <1>6
  <2> QED
    BY <1>2, <1>6, <2>1 DEF Ordered
<1> QED
  BY <1>2, <1>4, <1>5, <1>6 DEF Ordered, Converse, r

(* A strict order's opposite is one.                                       *)
LEMMA ConverseStrict ==
  ASSUME NEW X, NEW R, StrictOn(R, X)
  PROVE  StrictOn(Converse(R, X), X)
<1>1. \A x, y \in X : <<x, y>> \in Converse(R, X) <=> <<y, x>> \in R
  BY DEF Converse
<1> QED
  BY <1>1 DEF StrictOn

-----------------------------------------------------------------------------
(* The elements of S that R places before x.                               *)
Lesser(S, R, x) == {y \in S : <<y, x>> \in R}

(* Under a total order each number of elements comes before some element.  *)
LEMMA RankExists ==
  ASSUME NEW S, IsFiniteSet(S), NEW R, StrictOn(R, S), TotalOn(R, S)
  PROVE  /\ \A k \in 1..Cardinality(S) :
              \E x \in S : Cardinality(Lesser(S, R, x)) = k - 1
         /\ \A x \in S : Cardinality(Lesser(S, R, x)) + 1 \in 1..Cardinality(S)
         /\ \A x, y \in S : <<x, y>> \in R =>
              Cardinality(Lesser(S, R, x)) < Cardinality(Lesser(S, R, y))
<1> DEFINE n == Cardinality(S)
           Below(x) == Lesser(S, R, x)
           rank == [x \in S |-> Cardinality(Below(x)) + 1]
<1>1. n \in Nat
  BY FS_CardinalityType
<1>2. \A x \in S : IsFiniteSet(Below(x)) /\ Cardinality(Below(x)) \in Nat /\ rank[x] \in 1..n
  <2> TAKE x \in S
  <2>1. Below(x) \subseteq S /\ x \notin Below(x)
    BY DEF StrictOn, Lesser
  <2>2. /\ IsFiniteSet(Below(x)) /\ Cardinality(Below(x)) \in Nat
        /\ Cardinality(Below(x)) <= n
        /\ Cardinality(Below(x)) = n => Below(x) = S
    BY <2>1, FS_Subset, FS_CardinalityType
  <2> HIDE DEF Below
  <2> QED
    BY <1>1, <2>1, <2>2
<1>3. ASSUME NEW x \in S, NEW y \in S, <<x, y>> \in R
      PROVE  rank[x] < rank[y]
  <2>1. Below(x) \subseteq Below(y)
    BY <1>3 DEF StrictOn, Lesser
  <2>2. x \in Below(y) /\ x \notin Below(x)
    BY <1>3 DEF StrictOn, Lesser
  <2> HIDE DEF Below
  <2>3. /\ Cardinality(Below(x)) <= Cardinality(Below(y))
        /\ Cardinality(Below(x)) # Cardinality(Below(y))
    BY <1>2, <2>1, <2>2, FS_Subset
  <2> QED
    BY <1>2, <2>3
<1> HIDE DEF Below
<1>4. \A x, y \in S : rank[x] = rank[y] => x = y
  <2> SUFFICES ASSUME NEW x \in S, NEW y \in S, x # y PROVE rank[x] # rank[y]
    OBVIOUS
  <2>1. <<x, y>> \in R \/ <<y, x>> \in R
    BY DEF TotalOn
  <2>2. rank[x] \in 1..n /\ rank[y] \in 1..n
    BY <1>2
  <2> HIDE DEF rank
  <2> QED
    BY <1>3, <2>1, <2>2
<1>5. \A k \in 1..n : \E x \in S : rank[x] = k
  <2>1. IsFiniteSet(1..n) /\ Cardinality(1..n) = n
    BY <1>1, FS_Interval
  <2>2. rank \in Injection(S, 1..n)
    BY <1>2, <1>4 DEF Injection, IsInjective
  <2> HIDE DEF rank
  <2>3. rank \in Surjection(S, 1..n)
    BY <2>1, <2>2, FS_Injection DEF Bijection
  <2> QED
    BY <2>3 DEF Surjection
<1>6. \A k \in 1..n : \E x \in S : Cardinality(Below(x)) = k - 1
  <2> TAKE k \in 1..n
  <2>1. PICK x \in S : rank[x] = k
    BY <1>5
  <2> QED
    BY <1>2, <2>1
<1>7. ASSUME NEW x \in S, NEW y \in S, <<x, y>> \in R
      PROVE  Cardinality(Below(x)) < Cardinality(Below(y))
  <2>1. rank[x] < rank[y]
    BY <1>3, <1>7
  <2> QED
    BY <1>2, <2>1
<1>8. \A x \in S : Cardinality(Below(x)) + 1 \in 1..n
  BY <1>2
<1> QED
  BY <1>6, <1>7, <1>8 DEF Below

(* So a sort by a total order, which gives each element the place after    *)
(* those before it, lists each element once, in that order.                *)
LEMMA RankedOrders ==
  ASSUME NEW S, IsFiniteSet(S), NEW R, StrictOn(R, S), TotalOn(R, S),
         NEW r \in [1..Cardinality(S) -> S],
         \A k \in 1..Cardinality(S) : Cardinality(Lesser(S, R, r[k])) = k - 1
  PROVE  /\ r \in Seq(S) /\ Len(r) = Cardinality(S) /\ ToSet(r) = S
         /\ Ordered(r, R)
<1> DEFINE n == Cardinality(S)
           Below(x) == Lesser(S, R, x)
           rank == [x \in S |-> Cardinality(Below(x)) + 1]
<1>1. n \in Nat
  BY FS_CardinalityType
<1>2. /\ \A x \in S : Cardinality(Below(x)) + 1 \in 1..n
      /\ \A x, y \in S : <<x, y>> \in R => Cardinality(Below(x)) < Cardinality(Below(y))
  BY RankExists
<1>3. \A k \in 1..n : r[k] \in S /\ Cardinality(Below(r[k])) = k - 1
  OBVIOUS
<1> HIDE DEF Below
<1>4. \A x, y \in S : rank[x] = rank[y] => x = y
  <2> SUFFICES ASSUME NEW x \in S, NEW y \in S, rank[x] = rank[y], x # y PROVE FALSE
    OBVIOUS
  <2>1. <<x, y>> \in R \/ <<y, x>> \in R
    BY DEF TotalOn
  <2>2. Cardinality(Below(x)) + 1 = Cardinality(Below(y)) + 1
    OBVIOUS
  <2>3. /\ Cardinality(Below(x)) + 1 \in 1..n /\ Cardinality(Below(y)) + 1 \in 1..n
        /\ <<x, y>> \in R => Cardinality(Below(x)) < Cardinality(Below(y))
        /\ <<y, x>> \in R => Cardinality(Below(y)) < Cardinality(Below(x))
    BY <1>2
  <2>4. \A i, j \in Int : i + 1 = j + 1 => ~(i < j) /\ ~(j < i)
    OBVIOUS
  <2>5. Cardinality(Below(x)) \in Int /\ Cardinality(Below(y)) \in Int
    <3>1. \A z \in S : Below(z) \subseteq S
      BY DEF Below, Lesser
    <3> QED
      BY <3>1, FS_Subset, FS_CardinalityType
  <2> HIDE DEF rank
  <2> QED
    BY <2>1, <2>2, <2>3, <2>4, <2>5
<1>5. DOMAIN r = 1..n /\ r \in [1..n -> S] /\ \A k \in 1..n : rank[r[k]] = k
  <2>1. ASSUME NEW k \in 1..n PROVE rank[r[k]] = k
    <3>1. rank[r[k]] = k - 1 + 1
      BY <1>3
    <3> HIDE DEF rank, n
    <3> QED
      BY <1>1, <3>1
  <2> QED
    BY <2>1
<1>6. \A x \in S : rank[x] \in 1..n
  BY <1>2
<1>7. r \in Seq(S) /\ Len(r) = n
  <2>1. r \in [1..n -> S]
    OBVIOUS
  <2> HIDE DEF n
  <2> QED
    BY <1>1, <2>1
<1> HIDE DEF rank
<1>8. ToSet(r) = S
  <2>1. ToSet(r) \subseteq S
    BY <1>3, <1>5 DEF ToSet
  <2>2. ASSUME NEW x \in S PROVE x \in ToSet(r)
    <3>1. rank[x] \in 1..n /\ r[rank[x]] = x
      BY <1>3, <1>4, <1>5, <1>6
    <3> QED
      BY <1>5, <3>1 DEF ToSet
  <2> QED
    BY <2>1, <2>2
<1>9. ASSUME NEW p \in 1..n, NEW q \in 1..n, p < q
      PROVE  <<r[p], r[q]>> \in R
  <2>1. /\ r[p] \in S /\ r[q] \in S /\ rank[r[p]] = p /\ rank[r[q]] = q
        /\ Cardinality(Below(r[p])) = p - 1 /\ Cardinality(Below(r[q])) = q - 1
    BY <1>3, <1>5
  <2>2. r[p] # r[q]
    BY <1>9, <2>1
  <2>3. <<r[q], r[p]>> \in R => q - 1 < p - 1
    <3>1. <<r[q], r[p]>> \in R => Cardinality(Below(r[q])) < Cardinality(Below(r[p]))
      BY <1>2, <2>1
    <3> QED
      BY <2>1, <3>1
  <2>4. <<r[q], r[p]>> \notin R
    BY <1>9, <2>3
  <2> QED
    BY <2>1, <2>2, <2>4 DEF TotalOn
<1> QED
  BY <1>7, <1>8, <1>9 DEF Ordered

(* What is added at the end, and what follows everything before it.        *)
LEMMA AppendedOrdered ==
  ASSUME NEW X, NEW s \in Seq(X), NEW x \in X
  PROVE  /\ Append(s, x) \in Seq(X) /\ Len(Append(s, x)) = Len(s) + 1
         /\ ToSet(Append(s, x)) = ToSet(s) \cup {x}
         /\ \A R : Ordered(s, R) /\ (\A y \in ToSet(s) : <<y, x>> \in R)
                     => Ordered(Append(s, x), R)
<1> DEFINE t == Append(s, x)
<1>1. /\ t \in Seq(X) /\ Len(t) = Len(s) + 1 /\ Len(s) \in Nat
      /\ \A i \in 1..Len(s) : t[i] = s[i] /\ s[i] \in ToSet(s)
      /\ t[Len(s) + 1] = x
  BY SeqElements
<1> HIDE DEF t
<1>2. ToSet(t) = ToSet(s) \cup {x}
  <2>1. \A i \in 1..Len(t) : i \in 1..Len(s) \/ i = Len(s) + 1
    BY <1>1
  <2>2. ToSet(t) \subseteq ToSet(s) \cup {x}
    BY <1>1, <2>1 DEF ToSet
  <2>3. ToSet(s) \subseteq ToSet(t)
    <3> SUFFICES ASSUME NEW i \in 1..Len(s) PROVE s[i] \in ToSet(t)
      BY DEF ToSet
    <3>1. i \in DOMAIN t /\ t[i] = s[i]
      BY <1>1
    <3> QED
      BY <3>1 DEF ToSet
  <2>4. x \in ToSet(t)
    <3>1. Len(s) + 1 \in DOMAIN t
      BY <1>1
    <3> QED
      BY <1>1, <3>1 DEF ToSet
  <2> QED
    BY <2>2, <2>3, <2>4
<1>3. ASSUME NEW R, Ordered(s, R), \A y \in ToSet(s) : <<y, x>> \in R,
             NEW i \in 1..Len(t), NEW j \in 1..Len(t), i < j
      PROVE  <<t[i], t[j]>> \in R
  <2>1. CASE j = Len(s) + 1
    <3>1. i \in 1..Len(s)
      BY <1>1, <1>3, <2>1
    <3> QED
      BY <1>1, <1>3, <2>1, <3>1
  <2>2. CASE j # Len(s) + 1
    <3>1. i \in 1..Len(s) /\ j \in 1..Len(s)
      BY <1>1, <1>3, <2>2
    <3> QED
      BY <1>1, <1>3, <3>1 DEF Ordered
  <2> QED
    BY <2>1, <2>2
<1> QED
  BY <1>1, <1>2, <1>3 DEF Ordered, t

(* filter keeps the elements in the set, and their order.                  *)
LEMMA FilteredKeeps ==
  ASSUME NEW X, NEW s \in Seq(X), NEW S
  PROVE  /\ Filtered(s, S) \in Seq(X)
         /\ ToSet(Filtered(s, S)) = ToSet(s) \cap S
         /\ \A R : Ordered(s, R) => Ordered(Filtered(s, S), R)
<1> DEFINE n == Len(s)
           Next(v, k) == IF s[k] \in S THEN Append(v, s[k]) ELSE v
           step == [p \in Seq(X) \X (1..n) |-> Next(p[1], p[2])]
<1>1. n \in Nat /\ \A k \in 1..n : s[k] \in X
  OBVIOUS
<1>2. \A v \in Seq(X), k \in 1..n : step[<<v, k>>] = Next(v, k)
  OBVIOUS
<1>3. \A v \in Seq(X), k \in 1..n : Next(v, k) \in Seq(X)
  BY <1>1, AppendedOrdered
<1> HIDE DEF step, Next
<1>4. PICK f : Recursion(f, n, Seq(X), <<>>, step)
  <2>1. Steps(step, n, Seq(X))
    BY <1>2, <1>3 DEF Steps
  <2>2. <<>> \in Seq(X)
    OBVIOUS
  <2> HIDE DEF n
  <2> QED
    BY <1>1, <2>1, <2>2, RecursionExists
<1>5. \A k \in 1..n : k - 1 \in 0..n /\ f[k - 1] \in Seq(X) /\ f[k] = Next(f[k - 1], k)
  <2>1. \A k \in 1..n : k - 1 \in 0..n
    BY <1>1
  <2> HIDE DEF n
  <2> QED
    BY <1>2, <1>4, <2>1 DEF Recursion
<1> DEFINE Kept(g, k) == IF k = 0 THEN <<>>
                         ELSE IF s[k] \in S THEN Append(g[k - 1], s[k]) ELSE g[k - 1]
           kept == CHOOSE g : g = [k \in 0..n |-> Kept(g, k)]
<1>6. f = [k \in 0..n |-> Kept(f, k)]
  <2>1. \A k \in 0..n : f[k] = Kept(f, k)
    <3>1. \A k \in 0..n : k = 0 \/ k \in 1..n
      BY <1>1
    <3> HIDE DEF n
    <3> QED
      BY <1>4, <1>5, <3>1 DEF Next, Recursion
  <2>2. f = [k \in 0..n |-> f[k]]
    BY <1>4 DEF Recursion
  <2> HIDE DEF Kept, n
  <2> QED
    BY <2>1, <2>2
<1>7. kept = [k \in 0..n |-> Kept(kept, k)]
  <2> HIDE DEF Kept
  <2> QED
    BY <1>6
<1>8. Filtered(s, S) = kept[n]
  BY DEF Filtered
<1>9. kept[0] = <<>> /\ \A k \in 1..n : kept[k] = Next(kept[k - 1], k)
  <2>1. \A k \in 0..n : kept[k] = Kept(kept, k)
    <3> HIDE DEF Kept
    <3> QED
      BY <1>7
  <2> HIDE DEF kept
  <2> QED
    BY <1>1, <2>1 DEF Next
<1> HIDE DEF kept
<1> DEFINE Upto(k) == {s[i] : i \in 1..k}
           Good(k) == /\ kept[k] \in Seq(X)
                      /\ ToSet(kept[k]) = Upto(k) \cap S
                      /\ \A R : Ordered(s, R) => Ordered(kept[k], R)
           T == {k \in Nat : k <= n => Good(k)}
<1>10. 0 \in T
  <2>1. Upto(0) = {} /\ ToSet(<<>>) = {} /\ <<>> \in Seq(X) /\ \A R : Ordered(<<>>, R)
    BY DEF ToSet, Ordered
  <2> QED
    BY <1>9, <2>1
<1>11. ASSUME NEW k \in Nat, k \in T
       PROVE  k + 1 \in T
  <2> SUFFICES ASSUME k + 1 <= n PROVE Good(k + 1)
    OBVIOUS
  <2>1. Good(k) /\ k + 1 \in 1..n /\ k + 1 - 1 = k
    BY <1>1, <1>11
  <2>2. Upto(k + 1) = Upto(k) \cup {s[k + 1]}
    <3>1. \A i : i \in 1..(k + 1) <=> i \in 1..k \/ i = k + 1
      OBVIOUS
    <3> QED
      BY <3>1
  <2>3. kept[k + 1] = Next(kept[k], k + 1)
    BY <1>9, <2>1
  <2>4. CASE s[k + 1] \notin S
    <3>1. kept[k + 1] = kept[k]
      BY <2>3, <2>4 DEF Next
    <3> QED
      BY <2>1, <2>2, <2>4, <3>1
  <2>5. CASE s[k + 1] \in S
    <3>1. kept[k + 1] = Append(kept[k], s[k + 1])
      BY <2>3, <2>5 DEF Next
    <3>2. ASSUME NEW R, Ordered(s, R), NEW y \in ToSet(kept[k])
          PROVE  <<y, s[k + 1]>> \in R
      <4>1. PICK i \in 1..k : y = s[i]
        BY <2>1, <3>2
      <4> QED
        <5>1. i \in 1..Len(s) /\ k + 1 \in 1..Len(s) /\ i < k + 1
          BY <1>1, <2>1
        <5> QED
          BY <3>2, <4>1, <5>1 DEF Ordered
    <3>3. s[k + 1] \in X /\ kept[k] \in Seq(X)
      BY <1>1, <2>1
    <3>4. /\ kept[k + 1] \in Seq(X)
          /\ ToSet(kept[k + 1]) = ToSet(kept[k]) \cup {s[k + 1]}
          /\ \A R : Ordered(kept[k], R) /\ (\A y \in ToSet(kept[k]) : <<y, s[k + 1]>> \in R)
                      => Ordered(kept[k + 1], R)
      BY <3>1, <3>3, AppendedOrdered
    <3>5. \A R : Ordered(s, R) => Ordered(kept[k + 1], R)
      BY <2>1, <3>2, <3>4
    <3> QED
      BY <2>1, <2>2, <2>5, <3>4, <3>5
  <2> QED
    BY <2>4, <2>5
<1>12. n \in T
  <2> HIDE DEF T
  <2>1. Nat \subseteq T
    BY <1>10, <1>11, Induction
  <2> QED
    BY <1>1, <2>1
<1>13. Upto(n) = ToSet(s)
  BY DEF ToSet
<1> QED
  BY <1>1, <1>8, <1>12, <1>13

(* What is kept of a sequence without repetition has none.                 *)
LEMMA FilteredInjective ==
  ASSUME NEW X, NEW s \in Seq(X), IsInjective(s), NEW S
  PROVE  IsInjective(Filtered(s, S))
<1> DEFINE place == [x \in ToSet(s) |-> CHOOSE i \in 1..Len(s) : s[i] = x]
           R == {p \in ToSet(s) \X ToSet(s) : place[p[1]] < place[p[2]]}
<1>1. \A i \in 1..Len(s) : s[i] \in ToSet(s) /\ place[s[i]] = i
  <2> TAKE i \in 1..Len(s)
  <2>1. s[i] \in ToSet(s)
    BY SeqElements
  <2>2. place[s[i]] = CHOOSE j \in 1..Len(s) : s[j] = s[i]
    BY <2>1
  <2>3. place[s[i]] \in 1..Len(s) /\ s[place[s[i]]] = s[i]
    <3> HIDE DEF place
    <3> QED
      BY <2>2
  <2> HIDE DEF place
  <2> QED
    BY <2>1, <2>3 DEF IsInjective
<1>2. \A x \in ToSet(s) : \E i \in 1..Len(s) : s[i] = x
  BY SeqElements
<1> HIDE DEF place
<1>3. \A x \in ToSet(s) : place[x] \in Int
  BY <1>1, <1>2
<1>4. StrictOn(R, ToSet(s)) /\ Ordered(s, R)
  <2>1. \A x, y \in ToSet(s) : <<x, y>> \in R <=> place[x] < place[y]
    OBVIOUS
  <2> HIDE DEF R
  <2>2. StrictOn(R, ToSet(s))
    BY <1>3, <2>1 DEF StrictOn
  <2>3. Ordered(s, R)
    BY <1>1, <2>1 DEF Ordered
  <2> QED
    BY <2>2, <2>3
<1> HIDE DEF R
<1>5. s \in Seq(ToSet(s))
  BY SeqElements
<1>6. Filtered(s, S) \in Seq(ToSet(s)) /\ Ordered(Filtered(s, S), R)
  BY <1>4, <1>5, FilteredKeeps
<1> QED
  BY <1>4, <1>6, OrderedInjective

(* One sequence after another.                                             *)
LEMMA ConcatOrdered ==
  ASSUME NEW X, NEW s \in Seq(X), NEW t \in Seq(X)
  PROVE  /\ s \o t \in Seq(X) /\ ToSet(s \o t) = ToSet(s) \cup ToSet(t)
         /\ \A R : Ordered(s, R) /\ Ordered(t, R)
                     /\ (\A x \in ToSet(s), y \in ToSet(t) : <<x, y>> \in R)
                     => Ordered(s \o t, R)
<1> DEFINE u == s \o t
           m == Len(s)
           n == Len(t)
<1>1. m \in Nat /\ n \in Nat
  OBVIOUS
<1>2. /\ u \in Seq(X) /\ Len(u) = m + n
      /\ \A i \in 1..m : u[i] = s[i]
      /\ \A i \in 1..n : u[m + i] = t[i]
  OBVIOUS
<1> HIDE DEF u
<1>3. \A i \in 1..(m + n) : \/ i \in 1..m /\ u[i] = s[i]
                            \/ i - m \in 1..n /\ u[i] = t[i - m]
  <2> TAKE i \in 1..(m + n)
  <2>1. i \in 1..m \/ (i - m \in 1..n /\ m + (i - m) = i)
    BY <1>1
  <2> QED
    BY <1>2, <2>1
<1>4. ToSet(u) = ToSet(s) \cup ToSet(t)
  <2>1. ToSet(u) \subseteq ToSet(s) \cup ToSet(t)
    BY <1>2, <1>3 DEF ToSet
  <2>2. ASSUME NEW i \in 1..m PROVE s[i] \in ToSet(u)
    <3>1. i \in DOMAIN u
      BY <1>1, <1>2
    <3> QED
      BY <1>2, <3>1 DEF ToSet
  <2>3. ASSUME NEW i \in 1..n PROVE t[i] \in ToSet(u)
    <3>1. m + i \in DOMAIN u
      BY <1>1, <1>2
    <3> QED
      BY <1>2, <3>1 DEF ToSet
  <2> QED
    BY <2>1, <2>2, <2>3 DEF ToSet
<1>5. ASSUME NEW R, Ordered(s, R), Ordered(t, R),
             \A x \in ToSet(s), y \in ToSet(t) : <<x, y>> \in R,
             NEW i \in 1..Len(u), NEW j \in 1..Len(u), i < j
      PROVE  <<u[i], u[j]>> \in R
  <2>1. CASE j \in 1..m
    <3>1. i \in 1..m /\ u[i] = s[i] /\ u[j] = s[j]
      BY <1>1, <1>2, <1>5, <2>1
    <3> QED
      BY <1>5, <2>1, <3>1 DEF Ordered
  <2>2. CASE i - m \in 1..n
    <3>1. j - m \in 1..n /\ u[i] = t[i - m] /\ u[j] = t[j - m] /\ i - m < j - m
      <4>1. j - m \in 1..n /\ i - m < j - m /\ m + (i - m) = i /\ m + (j - m) = j
        BY <1>1, <1>2, <1>5, <2>2
      <4> QED
        BY <1>2, <2>2, <4>1
    <3> QED
      BY <1>5, <2>2, <3>1 DEF Ordered
  <2>3. CASE i \in 1..m /\ j - m \in 1..n
    <3>1. u[i] = s[i] /\ u[j] = t[j - m]
      <4>1. m + (j - m) = j
        BY <1>1, <1>5
      <4> QED
        BY <1>2, <2>3, <4>1
    <3>2. s[i] \in ToSet(s) /\ t[j - m] \in ToSet(t)
      BY <2>3 DEF ToSet
    <3> QED
      BY <1>5, <3>1, <3>2
  <2> QED
    BY <1>1, <1>2, <1>3, <2>1, <2>2, <2>3
<1> QED
  BY <1>2, <1>4, <1>5 DEF Ordered, u

(* Concatenated sequences hold the elements of each, in order when each    *)
(* sequence is and its elements come before those of the later ones.       *)
LEMMA FlattenFacts ==
  ASSUME NEW X, NEW seqs \in Seq(Seq(X))
  PROVE  /\ FlattenSeq(seqs) \in Seq(X)
         /\ ToSet(FlattenSeq(seqs)) = UNION {ToSet(seqs[i]) : i \in DOMAIN seqs}
         /\ \A R : /\ \A i \in DOMAIN seqs : Ordered(seqs[i], R)
                   /\ \A i, j \in DOMAIN seqs :
                        i < j => \A x \in ToSet(seqs[i]), y \in ToSet(seqs[j]) : <<x, y>> \in R
                   => Ordered(FlattenSeq(seqs), R)
<1> DEFINE n == Len(seqs)
           step == [p \in Seq(X) \X (1..n) |-> p[1] \o seqs[p[2]]]
<1>1. n \in Nat /\ DOMAIN seqs = 1..n /\ \A k \in 1..n : seqs[k] \in Seq(X)
  OBVIOUS
<1>2. \A v \in Seq(X), k \in 1..n : step[<<v, k>>] = v \o seqs[k] /\ v \o seqs[k] \in Seq(X)
  BY <1>1, ConcatOrdered
<1> HIDE DEF step
<1>3. PICK f : Recursion(f, n, Seq(X), <<>>, step)
  <2>1. Steps(step, n, Seq(X))
    BY <1>2 DEF Steps
  <2>2. <<>> \in Seq(X)
    OBVIOUS
  <2> HIDE DEF n
  <2> QED
    BY <1>1, <2>1, <2>2, RecursionExists
<1>4. \A k \in 1..n : k - 1 \in 0..n /\ f[k - 1] \in Seq(X) /\ f[k] = f[k - 1] \o seqs[k]
  <2>1. \A k \in 1..n : k - 1 \in 0..n
    BY <1>1
  <2> HIDE DEF n
  <2> QED
    BY <1>2, <1>3, <2>1 DEF Recursion
<1> DEFINE Flat(g, i) == IF i = 1 THEN seqs[i] ELSE g[i - 1] \o seqs[i]
           flat == CHOOSE g : g = [i \in 1..n |-> Flat(g, i)]
           h == [i \in 1..n |-> f[i]]
<1>5. h = [i \in 1..n |-> Flat(h, i)]
  <2>1. ASSUME NEW i \in 1..n PROVE h[i] = Flat(h, i)
    <3>1. CASE i = 1
      <4>1. f[1] = <<>> \o seqs[1]
        <5>1. 1 \in 1..n /\ 1 - 1 = 0 /\ f[0] = <<>>
          BY <1>3, <3>1 DEF Recursion
        <5> HIDE DEF n
        <5> QED
          BY <1>4, <5>1
      <4>2. <<>> \o seqs[1] = seqs[1]
        <5>1. seqs[1] \in Seq(X)
          BY <1>1, <3>1
        <5> QED
          BY <5>1, ConcatEmptySeq
      <4> QED
        BY <3>1, <4>1, <4>2
    <3>2. CASE i # 1
      <4>1. i - 1 \in 1..n
        BY <1>1, <3>2
      <4> QED
        BY <1>4, <3>2, <4>1
    <3> QED
      BY <3>1, <3>2
  <2>2. h = [i \in 1..n |-> h[i]]
    OBVIOUS
  <2> HIDE DEF Flat, n, h
  <2> QED
    BY <2>1, <2>2
<1>6. flat = [i \in 1..n |-> Flat(flat, i)]
  <2> HIDE DEF Flat
  <2> QED
    BY <1>5
<1>7. n # 0 => FlattenSeq(seqs) = flat[n]
  BY DEF FlattenSeq
<1>8. \A i \in 1..n : flat[i] = Flat(flat, i)
  <2> HIDE DEF Flat
  <2> QED
    BY <1>6
<1> HIDE DEF flat, h
<1> DEFINE Upto(k) == UNION {ToSet(seqs[i]) : i \in 1..k}
           Sorts(R) == /\ \A i \in DOMAIN seqs : Ordered(seqs[i], R)
                       /\ \A i, j \in DOMAIN seqs :
                            i < j => \A x \in ToSet(seqs[i]), y \in ToSet(seqs[j]) : <<x, y>> \in R
           Good(k) == /\ flat[k] \in Seq(X)
                      /\ ToSet(flat[k]) = Upto(k)
                      /\ \A R : Sorts(R) => Ordered(flat[k], R)
           T == {k \in Nat : k # 0 /\ k <= n => Good(k)}
<1>9. 0 \in T
  OBVIOUS
<1>10. ASSUME NEW k \in Nat, k \in T
       PROVE  k + 1 \in T
  <2> SUFFICES ASSUME k + 1 <= n PROVE Good(k + 1)
    <3> HIDE DEF Good, n
    <3> QED
      OBVIOUS
  <2>1. CASE k = 0
    <3>1. 1 \in 1..n /\ flat[1] = seqs[1] /\ 1..1 = {1} /\ k + 1 = 1
      BY <1>1, <1>8, <2>1
    <3>2. Upto(1) = ToSet(seqs[1])
      BY <3>1
    <3> HIDE DEF n
    <3> QED
      BY <1>1, <3>1, <3>2
  <2>2. CASE k # 0
    <3>1. k \in 1..n /\ k + 1 \in 1..n /\ k + 1 # 1 /\ k + 1 - 1 = k
      BY <1>1, <2>2
    <3>2. /\ \A i : i \in 1..(k + 1) <=> i \in 1..k \/ i = k + 1
          /\ \A i \in 1..k : i \in 1..n /\ i < k + 1
      BY <1>1, <2>2
    <3>3. Good(k)
      <4>1. k <= n
        BY <3>1, <1>1
      <4>2. k # 0 /\ k <= n => Good(k)
        <5> HIDE DEF Good, n
        <5> QED
          BY <1>10
      <4> HIDE DEF Good, n
      <4> QED
        BY <2>2, <4>1, <4>2
    <3>4. flat[k + 1] = flat[k] \o seqs[k + 1]
      <4> HIDE DEF n
      <4>1. flat[k + 1] = Flat(flat, k + 1)
        <5> HIDE DEF Flat
        <5> QED
          BY <1>8, <3>1
      <4>2. flat[k + 1] = flat[(k + 1) - 1] \o seqs[k + 1]
        BY <3>1, <4>1, Zenon
      <4>3. flat[(k + 1) - 1] = flat[k]
        BY <3>1
      <4> QED
        BY <4>2, <4>3, Zenon
    <3>5. Upto(k + 1) = Upto(k) \cup ToSet(seqs[k + 1])
      BY <3>2
    <3>6. /\ flat[k + 1] \in Seq(X) /\ ToSet(flat[k + 1]) = ToSet(flat[k]) \cup ToSet(seqs[k + 1])
          /\ \A R : Ordered(flat[k], R) /\ Ordered(seqs[k + 1], R)
                       /\ (\A x \in ToSet(flat[k]), y \in ToSet(seqs[k + 1]) : <<x, y>> \in R)
                       => Ordered(flat[k + 1], R)
      <4>1. flat[k] \in Seq(X) /\ seqs[k + 1] \in Seq(X)
        BY <1>1, <3>1, <3>3
      <4> QED
        BY <3>4, <4>1, ConcatOrdered
    <3>7. ASSUME NEW R, Sorts(R) PROVE Ordered(flat[k + 1], R)
      <4>1. Ordered(flat[k], R) /\ Ordered(seqs[k + 1], R)
        BY <1>1, <3>1, <3>3, <3>7
      <4>2. ASSUME NEW x \in ToSet(flat[k]), NEW y \in ToSet(seqs[k + 1]) PROVE <<x, y>> \in R
        <5>1. PICK i \in 1..k : x \in ToSet(seqs[i])
          BY <3>3
        <5> QED
          BY <1>1, <3>1, <3>2, <3>7, <5>1
      <4> QED
        BY <3>6, <4>1, <4>2
    <3> QED
      BY <3>3, <3>5, <3>6, <3>7
  <2> QED
    BY <2>1, <2>2
<1>11. n # 0 => Good(n)
  <2> HIDE DEF T
  <2>1. Nat \subseteq T
    BY <1>9, <1>10, Induction
  <2>2. n \in T
    BY <1>1, <2>1
  <2> HIDE DEF Good
  <2> QED
    BY <1>1, <2>2 DEF T
<1>12. CASE n = 0
  <2>1. FlattenSeq(seqs) = seqs /\ seqs = <<>>
    BY <1>12 DEF FlattenSeq
  <2>2. <<>> \in Seq(X) /\ ToSet(<<>>) = {} /\ \A R : Ordered(<<>>, R)
    BY DEF ToSet, Ordered
  <2>3. UNION {ToSet(seqs[i]) : i \in DOMAIN seqs} = {}
    BY <1>1, <1>12
  <2> QED
    BY <2>1, <2>2, <2>3
<1>13. CASE n # 0
  <2>1. UNION {ToSet(seqs[i]) : i \in DOMAIN seqs} = Upto(n)
    BY <1>1
  <2> QED
    BY <1>7, <1>11, <1>13, <2>1
<1> QED
  BY <1>12, <1>13

(* The listing of a finite set, in some order.                             *)
LEMMA ListsSet ==
  ASSUME NEW S, IsFiniteSet(S)
  PROVE  /\ SetToSeq(S) \in Seq(S) /\ ToSet(SetToSeq(S)) = S
         /\ IsInjective(SetToSeq(S)) /\ Len(SetToSeq(S)) = Cardinality(S)
<1> DEFINE n == Cardinality(S)
           s == SetToSeq(S)
<1>1. n \in Nat
  BY FS_CardinalityType
<1>2. \E f \in [1..n -> S] : IsInjective(f)
  <2>1. ExistsBijection(1..n, S)
    BY <1>1, FS_CountingElements, FS_CardinalityType
  <2> HIDE DEF n
  <2> QED
    BY <2>1 DEF ExistsBijection, Bijection, Injection, IsInjective
<1>3. s \in [1..n -> S] /\ IsInjective(s)
  <2>1. s = CHOOSE f \in [1..n -> S] : IsInjective(f)
    BY DEF SetToSeq
  <2> HIDE DEF s, n
  <2> QED
    BY <1>2, <2>1
<1> HIDE DEF s
<1>4. s \in Surjection(1..n, S)
  <2>1. s \in Injection(1..n, S)
    BY <1>3 DEF Injection
  <2>2. IsFiniteSet(1..n) /\ Cardinality(1..n) = n
    BY <1>1, FS_Interval
  <2> QED
    BY <2>1, <2>2, FS_Injection
<1>5. ToSet(s) = S
  BY <1>3, <1>4 DEF Surjection, ToSet
<1>6. s \in Seq(S) /\ Len(s) = n
  <2> HIDE DEF n
  <2> QED
    BY <1>1, <1>3
<1> QED
  BY <1>3, <1>5, <1>6 DEF s
=============================================================================
