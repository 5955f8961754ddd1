---------------------------- MODULE QueryProofs ------------------------------
(***************************************************************************)
(* Proofs about modules FieldIndex and Query.                              *)
(*                                                                         *)
(* The maintained array of every index is, after any history of writes,    *)
(* the one a fresh load of the documents builds: the array is determined   *)
(* by the set of its entries, because the order is total and no two        *)
(* entries are the same, so it is enough that insert and remove, which     *)
(* find their place by binary search, keep the array sorted and its set of *)
(* entries that of the documents.                                          *)
(*                                                                         *)
(* A query then yields the matches, whatever plan it takes: a document     *)
(* that matches a filter matches each of its conjuncts, hence the driver,  *)
(* so that its value lies in one of the driver's ranges; a range fetches   *)
(* the documents whose values lie in it, and the filter drops the others.  *)
(* All of it is about the state, from the one inductive invariant.         *)
(***************************************************************************)
EXTENDS Query, StdVecProofs


(* An entry of any index: ranks are numbers.                               *)
EntryType == [value : Int, id : Int]

-----------------------------------------------------------------------------
(* The order of entries.                                                   *)

(* It is a strict total order.                                             *)
LEMMA BeforeIsOrder ==
  ASSUME NEW a \in EntryType, NEW b \in EntryType, NEW c \in EntryType
  PROVE  /\ ~Before(a, a)
         /\ ~(Before(a, b) /\ Before(b, a))
         /\ Before(a, b) /\ Before(b, c) => Before(a, c)
         /\ Before(a, b) \/ a = b \/ Before(b, a)
BY DEF EntryType, Before

(* A sorted array holds no entry twice.                                    *)
LEMMA SortedIsInjective ==
  ASSUME NEW s \in Seq(EntryType), Sorted(s)
  PROVE  IsInjective(s)
<1> SUFFICES ASSUME NEW p \in 1..Len(s), NEW q \in 1..Len(s), s[p] = s[q], p # q
             PROVE  FALSE
  BY DEF IsInjective
<1>1. s[p] \in EntryType /\ ~Before(s[p], s[p])
  BY BeforeIsOrder
<1>2. p < q \/ q < p
  OBVIOUS
<1> QED
  BY <1>1, <1>2 DEF Sorted

(* Two sorted arrays of the same entries are the same array.               *)
LEMMA SortedIsUnique ==
  ASSUME NEW s \in Seq(EntryType), Sorted(s), NEW t \in Seq(EntryType), Sorted(t),
         ToSet(s) = ToSet(t)
  PROVE  s = t
<1>1. ASSUME NEW u \in Seq(EntryType), Sorted(u), NEW w \in Seq(EntryType), Sorted(w),
             ToSet(u) = ToSet(w)
      PROVE  \A i \in 1..Len(u) : i <= Len(w) /\ u[i] = w[i]
  <2> DEFINE Differ == {i \in 1..Len(u) : ~(i <= Len(w) /\ u[i] = w[i])}
  <2> SUFFICES ASSUME Differ # {} PROVE FALSE
    OBVIOUS
  <2>1. PICK i \in Differ : \A m \in Differ : i <= m
    <3>1. Differ \subseteq Nat
      OBVIOUS
    <3> HIDE DEF Differ
    <3> QED
      BY <3>1, Least, Zenon
  <2>2. \A q \in 1..Len(u) : q < i => q <= Len(w) /\ u[q] = w[q]
    <3> TAKE q \in 1..Len(u)
    <3> HAVE q < i
    <3>1. ~(i <= q)
      OBVIOUS
    <3> QED
      BY <2>1, <3>1
  <2>3. i \in 1..Len(u) /\ ~(i <= Len(w) /\ u[i] = w[i])
    OBVIOUS
  <2> HIDE DEF Differ
  <2>4. PICK j \in 1..Len(w) : u[i] = w[j]
    BY <1>1, <2>3, SeqElements
  <2>5. ~(j < i)
    <3> SUFFICES ASSUME j < i PROVE FALSE
      OBVIOUS
    <3>1. j \in 1..Len(u) /\ u[j] = w[j]
      BY <2>2, <2>3
    <3> QED
      BY <1>1, <2>3, <2>4, <3>1, SortedIsInjective DEF IsInjective
  <2>6. i \in 1..Len(w) /\ i < j
    <3>1. i <= Len(w)
      BY <2>3, <2>5
    <3>2. j # i
      BY <2>3, <2>4, <3>1
    <3> QED
      BY <2>3, <2>5, <3>1, <3>2
  <2>7. PICK m \in 1..Len(u) : w[i] = u[m]
    BY <1>1, <2>6, SeqElements
  <2>8. ~(m < i)
    <3> SUFFICES ASSUME m < i PROVE FALSE
      OBVIOUS
    <3>1. m \in 1..Len(w) /\ u[m] = w[m]
      BY <2>2
    <3> QED
      BY <1>1, <2>6, <2>7, <3>1, SortedIsInjective DEF IsInjective
  <2>9. Before(w[i], w[j])
    BY <1>1, <2>6 DEF Sorted
  <2>10. Before(u[m], u[i])
    BY <2>4, <2>7, <2>9
  <2>11. m = i \/ Before(u[i], u[m])
    BY <1>1, <2>3, <2>8 DEF Sorted
  <2> QED
    BY <1>1, <2>3, <2>10, <2>11, BeforeIsOrder
<1>2. \A i \in 1..Len(s) : i <= Len(t) /\ s[i] = t[i]
  BY <1>1
<1>3. \A i \in 1..Len(t) : i <= Len(s) /\ t[i] = s[i]
  BY <1>1
<1>4. Len(s) = Len(t)
  <2>1. Len(s) \in Nat /\ Len(t) \in Nat
    OBVIOUS
  <2>2. Len(s) <= Len(t)
    BY <1>2, <2>1
  <2>3. Len(t) <= Len(s)
    BY <1>3, <2>1
  <2> QED
    BY <2>1, <2>2, <2>3
<1> QED
  BY <1>2, <1>4, SeqEqual

-----------------------------------------------------------------------------
(* Binary searches.                                                        *)

(* In a sorted array the entries before a given one are an initial run.    *)
LEMMA RunBefore ==
  ASSUME NEW s \in Seq(EntryType), Sorted(s), NEW e \in EntryType
  PROVE  LET k == Cardinality({p \in DOMAIN s : Before(s[p], e)}) IN
         /\ k \in 0..Len(s)
         /\ \A p \in 1..Len(s) : Before(s[p], e) <=> p <= k
<1> DEFINE T == {p \in DOMAIN s : Before(s[p], e)}
<1>1. T \subseteq 1..Len(s) /\ Len(s) \in Nat
  OBVIOUS
<1>2. \A p \in T : \A q \in 1..p : q \in T
  <2> TAKE p \in T
  <2> TAKE q \in 1..p
  <2>1. q \in DOMAIN s /\ (q = p \/ Before(s[q], s[p])) /\ Before(s[p], e)
    BY DEF Sorted
  <2>2. s[q] \in EntryType /\ s[p] \in EntryType
    BY <2>1
  <2> QED
    BY <2>1, <2>2, BeforeIsOrder
<1>3. Cardinality(T) \in 0..Len(s) /\ T = 1..Cardinality(T)
  <2> HIDE DEF T
  <2> QED
    BY <1>1, <1>2, InitialRun
<1>4. \A p \in 1..Len(s) : Before(s[p], e) <=> p \in T
  OBVIOUS
<1> HIDE DEF T
<1>5. \A p \in 1..Len(s) : Before(s[p], e) <=> p <= Cardinality(T)
  BY <1>1, <1>3, <1>4
<1> QED
  BY <1>3, <1>5 DEF T

(* Insert keeps the array sorted and adds the entry.                       *)
LEMMA InsertKeeps ==
  ASSUME NEW s \in Seq(EntryType), Sorted(s), NEW e \in EntryType, e \notin ToSet(s)
  PROVE  /\ Insert(s, e) \in Seq(EntryType) /\ Sorted(Insert(s, e))
         /\ ToSet(Insert(s, e)) = ToSet(s) \cup {e}
<1> DEFINE k == Cardinality({p \in DOMAIN s : Before(s[p], e)})
           r == InsertAt(s, k + 1, e)
           n == Len(s)
<1>1. /\ k \in 0..n /\ n \in Nat
      /\ \A p \in 1..n : Before(s[p], e) <=> p <= k
  BY RunBefore
<1>2. Insert(s, e) = r
  BY DEF Insert, PartitionPoint
<1> HIDE DEF k
<1>3. /\ r \in Seq(EntryType) /\ Len(r) = n + 1
      /\ \A i \in 1..k : r[i] = s[i]
      /\ r[k + 1] = e
      /\ \A i \in (k + 1)..n : r[i + 1] = s[i]
  <2> DEFINE at == k + 1
  <2>1. at \in 1..(Len(s) + 1)
    BY <1>1
  <2> HIDE DEF at
  <2>2. /\ InsertAt(s, at, e) \in Seq(EntryType) /\ Len(InsertAt(s, at, e)) = Len(s) + 1
        /\ \A i \in 1..(at - 1) : InsertAt(s, at, e)[i] = s[i]
        /\ InsertAt(s, at, e)[at] = e
        /\ \A i \in at..Len(s) : InsertAt(s, at, e)[i + 1] = s[i]
    BY <2>1, InsertedAt
  <2>3. at - 1 = k
    BY <1>1 DEF at
  <2> QED
    BY <2>2, <2>3 DEF at
<1> HIDE DEF r, n
<1>4. /\ \A p \in 1..n : s[p] \in EntryType /\ s[p] \in ToSet(s)
      /\ \A x \in ToSet(s) : \E p \in 1..n : s[p] = x
  BY SeqElements DEF n
<1>5. \A p \in 1..n : p > k => Before(e, s[p])
  <2> TAKE p \in 1..n
  <2> HAVE p > k
  <2>1. ~Before(s[p], e) /\ s[p] # e
    BY <1>1, <1>4
  <2> QED
    BY <1>4, <2>1, BeforeIsOrder
<1>6. \A i \in 1..(n + 1) : \/ i \in 1..k /\ r[i] = s[i] /\ i \in 1..n
                            \/ i = k + 1 /\ r[i] = e
                            \/ i - 1 \in (k + 1)..n /\ r[i] = s[i - 1] /\ i - 1 \in 1..n
  <2> TAKE i \in 1..(n + 1)
  <2>1. CASE i <= k
    BY <1>1, <1>3, <2>1
  <2>2. CASE i = k + 1
    BY <1>3, <2>2
  <2>3. CASE i > k + 1
    <3>1. i - 1 \in (k + 1)..n /\ i - 1 \in 1..n /\ i - 1 + 1 = i
      BY <1>1, <2>3
    <3> QED
      BY <1>3, <3>1
  <2> QED
    BY <1>1, <2>1, <2>2, <2>3
<1>7. Sorted(r)
  <2> SUFFICES ASSUME NEW i \in 1..(n + 1), NEW j \in 1..(n + 1), i < j
               PROVE  Before(r[i], r[j])
    BY <1>1, <1>3 DEF Sorted
  <2>1. \A p, q \in 1..n : p < q => Before(s[p], s[q])
    BY DEF Sorted, n
  <2>2. CASE i \in 1..k /\ r[i] = s[i] /\ i \in 1..n
    <3>1. \A p \in 1..n : i < p => Before(r[i], s[p])
      BY <2>1, <2>2
    <3>2. Before(r[i], e)
      BY <1>1, <2>2
    <3>3. i < j - 1 \/ j = k + 1 \/ j \in 1..k
      BY <1>1, <2>2
    <3> QED
      BY <1>1, <1>6, <2>2, <3>1, <3>2, <3>3
  <2>3. CASE i = k + 1 /\ r[i] = e
    <3>1. j - 1 \in 1..n /\ j - 1 > k /\ r[j] = s[j - 1]
      BY <1>1, <1>6, <2>3
    <3> QED
      BY <1>5, <2>3, <3>1
  <2>4. CASE i - 1 \in (k + 1)..n /\ r[i] = s[i - 1] /\ i - 1 \in 1..n
    <3>1. j - 1 \in 1..n /\ i - 1 < j - 1 /\ r[j] = s[j - 1]
      BY <1>1, <1>6, <2>4
    <3> QED
      BY <2>1, <2>4, <3>1
  <2> QED
    BY <1>6, <2>2, <2>3, <2>4
<1>8. ToSet(r) = ToSet(s) \cup {e}
  <2>0. /\ \A i \in 1..(n + 1) : r[i] \in ToSet(r)
        /\ \A x \in ToSet(r) : \E i \in 1..(n + 1) : r[i] = x
    BY <1>3, SeqElements
  <2>1. ToSet(r) \subseteq ToSet(s) \cup {e}
    BY <1>4, <1>6, <2>0
  <2>2. e \in ToSet(r)
    BY <1>1, <1>3, <2>0
  <2>3. ASSUME NEW p \in 1..n PROVE s[p] \in ToSet(r)
    <3>1. CASE p <= k
      BY <1>1, <1>3, <2>0, <3>1
    <3>2. CASE p > k
      <4>1. p \in (k + 1)..n /\ p + 1 \in 1..(n + 1)
        BY <1>1, <3>2
      <4> QED
        BY <1>3, <2>0, <4>1
    <3> QED
      BY <1>1, <3>1, <3>2
  <2> QED
    BY <1>4, <2>1, <2>2, <2>3
<1> QED
  BY <1>2, <1>3, <1>7, <1>8

(* Up to the run of equal values, and up to its end.                       *)
LEMMA RunOfValue ==
  ASSUME NEW s \in Seq(EntryType), Sorted(s), NEW v \in Int
  PROVE  LET a == Cardinality({p \in DOMAIN s : s[p].value < v})
             b == Cardinality({p \in DOMAIN s : s[p].value <= v})
         IN  /\ a \in 0..Len(s) /\ b \in 0..Len(s)
             /\ \A p \in 1..Len(s) : s[p].value < v <=> p <= a
             /\ \A p \in 1..Len(s) : s[p].value <= v <=> p <= b
<1> DEFINE A == {p \in DOMAIN s : s[p].value < v}
           B == {p \in DOMAIN s : s[p].value <= v}
<1>1. A \subseteq 1..Len(s) /\ B \subseteq 1..Len(s) /\ Len(s) \in Nat
  OBVIOUS
<1>2. \A p, q \in 1..Len(s) : q <= p => s[q].value <= s[p].value
  <2> TAKE p, q \in 1..Len(s)
  <2> HAVE q <= p
  <2>1. q = p \/ Before(s[q], s[p])
    BY DEF Sorted
  <2>2. s[q] \in EntryType /\ s[p] \in EntryType
    OBVIOUS
  <2> QED
    BY <2>1, <2>2 DEF Before, EntryType
<1>3. \A p \in 1..Len(s) : s[p].value \in Int
  <2>1. \A p \in 1..Len(s) : s[p] \in EntryType
    OBVIOUS
  <2> QED
    BY <2>1 DEF EntryType
<1>4. \A p \in A : \A q \in 1..p : q \in A
  BY <1>2, <1>3
<1>5. \A p \in B : \A q \in 1..p : q \in B
  BY <1>2, <1>3
<1>6. \A p \in 1..Len(s) : /\ s[p].value < v <=> p \in A
                           /\ s[p].value <= v <=> p \in B
  OBVIOUS
<1> HIDE DEF A, B
<1>7. Cardinality(A) \in 0..Len(s) /\ A = 1..Cardinality(A)
  BY <1>1, <1>4, InitialRun
<1>8. Cardinality(B) \in 0..Len(s) /\ B = 1..Cardinality(B)
  BY <1>1, <1>5, InitialRun
<1>9. \A p \in 1..Len(s) : /\ s[p].value < v <=> p <= Cardinality(A)
                           /\ s[p].value <= v <=> p <= Cardinality(B)
  BY <1>1, <1>6, <1>7, <1>8
<1> QED
  BY <1>7, <1>8, <1>9 DEF A, B

(* The entry that is removed is the one at its place.                      *)
LEMMA RemoveFinds ==
  ASSUME NEW s \in Seq(EntryType), Sorted(s), NEW j \in 1..Len(s)
  PROVE  Remove1(s, s[j]) = RemoveAt(s, j)
<1> DEFINE e   == s[j]
           a   == Cardinality({p \in DOMAIN s : s[p].value < e.value})
           b   == Cardinality({p \in DOMAIN s : s[p].value <= e.value})
           run == SubSeq(s, a + 1, b)
           T   == {p \in DOMAIN run : run[p].id < e.id}
<1>1. e \in EntryType /\ e.value \in Int /\ e.id \in Int
  <2>1. e \in EntryType
    BY SeqElements
  <2> QED
    BY <2>1 DEF EntryType
<1>2. /\ a \in 0..Len(s) /\ b \in 0..Len(s)
      /\ \A p \in 1..Len(s) : s[p].value < e.value <=> p <= a
      /\ \A p \in 1..Len(s) : s[p].value <= e.value <=> p <= b
  BY <1>1, RunOfValue
<1>3. Remove1(s, e) = LET i == Cardinality(T) + 1
                      IN  IF i <= Len(run) /\ run[i].id = e.id
                          THEN RemoveAt(s, a + i) ELSE s
  BY DEF Remove1, PartitionPoint
<1> HIDE DEF a, b
<1>4. a < j /\ j <= b
  BY <1>1, <1>2
<1>5. /\ Len(run) = b - a /\ DOMAIN run = 1..(b - a)
      /\ \A p \in 1..(b - a) : run[p] = s[a + p] /\ a + p \in 1..Len(s)
  BY <1>2, <1>4
<1>6. \A p \in 1..(b - a) : s[a + p] \in EntryType /\ s[a + p].value = e.value
  <2> TAKE p \in 1..(b - a)
  <2>1. a + p \in 1..Len(s) /\ ~(a + p <= a) /\ a + p <= b
    BY <1>2, <1>4
  <2>2. s[a + p] \in EntryType /\ ~(s[a + p].value < e.value) /\ s[a + p].value <= e.value
    BY <1>2, <2>1
  <2> QED
    BY <1>1, <2>2 DEF EntryType
<1>7. \A p \in 1..(b - a) : s[a + p].id < e.id <=> a + p < j
  <2> TAKE p \in 1..(b - a)
  <2>1. a + p \in 1..Len(s) /\ s[a + p] \in EntryType /\ s[a + p].value = e.value
    BY <1>5, <1>6
  <2>2. a + p < j => Before(s[a + p], e)
    BY <2>1 DEF Sorted
  <2>3. j < a + p => Before(e, s[a + p])
    BY <2>1 DEF Sorted
  <2>4. a + p = j => s[a + p] = e
    OBVIOUS
  <2>5. a + p < j \/ a + p = j \/ j < a + p
    BY <1>2
  <2> QED
    BY <1>1, <2>1, <2>2, <2>3, <2>4, <2>5 DEF Before, EntryType
<1>8. T = 1..(j - a - 1) /\ j - a - 1 \in Nat
  <2>1. j - a - 1 \in Nat
    BY <1>2, <1>4
  <2>2. \A p \in 1..(b - a) : p \in T <=> a + p < j
    BY <1>5, <1>7
  <2>3. \A p \in T : p \in 1..(b - a)
    BY <1>5
  <2> HIDE DEF T
  <2>4. \A p \in T : p \in 1..(j - a - 1)
    BY <1>2, <2>2, <2>3
  <2>5. \A p \in 1..(j - a - 1) : p \in T
    BY <1>2, <1>4, <2>2
  <2>6. T = 1..(j - a - 1)
    BY <2>4, <2>5, Zenon
  <2> QED
    BY <2>1, <2>6
<1> HIDE DEF T
<1>9. Cardinality(T) = j - a - 1
  <2> DEFINE m == j - a - 1
  <2>1. m \in Nat /\ T = 1..m
    BY <1>8
  <2> HIDE DEF m
  <2>2. Cardinality(1..m) = m
    BY <2>1, FS_Interval
  <2>3. Cardinality(T) = m
    BY <2>1, <2>2
  <2> QED
    BY <2>3 DEF m
<1>10. Cardinality(T) + 1 = j - a /\ j - a \in 1..(b - a) /\ a + (j - a) = j
  BY <1>2, <1>4, <1>9
<1>11. run[j - a] = e
  BY <1>5, <1>10
<1> HIDE DEF run
<1> QED
  BY <1>3, <1>5, <1>10, <1>11

(* Remove takes the entry out and keeps the array sorted.                  *)
LEMMA RemoveKeeps ==
  ASSUME NEW s \in Seq(EntryType), Sorted(s), NEW e \in ToSet(s)
  PROVE  /\ Remove1(s, e) \in Seq(EntryType) /\ Sorted(Remove1(s, e))
         /\ ToSet(Remove1(s, e)) = ToSet(s) \ {e}
<1>1. PICK j \in 1..Len(s) : s[j] = e
  BY SeqElements
<1> DEFINE r == RemoveAt(s, j)
           n == Len(s)
           from(i) == IF i < j THEN i ELSE i + 1
<1>2. Remove1(s, e) = r
  BY <1>1, RemoveFinds
<1>3. /\ r \in Seq(EntryType) /\ Len(r) = n - 1 /\ n \in Nat
      /\ \A i \in 1..(n - 1) : r[i] = s[from(i)]
  BY RemovedAtPlace
<1> HIDE DEF r
<1>4. \A i \in 1..(n - 1) : from(i) \in 1..n /\ from(i) # j
  OBVIOUS
<1>5. Sorted(r)
  <2> SUFFICES ASSUME NEW p \in 1..(n - 1), NEW q \in 1..(n - 1), p < q
               PROVE  Before(r[p], r[q])
    BY <1>3 DEF Sorted
  <2>1. from(p) < from(q) /\ from(p) \in DOMAIN s /\ from(q) \in DOMAIN s
    BY <1>4
  <2> HIDE DEF from
  <2> QED
    BY <1>3, <2>1 DEF Sorted
<1>6. IsInjective(s) /\ DOMAIN s = 1..n
  BY SortedIsInjective
<1>7. /\ \A i \in 1..(n - 1) : r[i] \in ToSet(r)
      /\ \A x \in ToSet(r) : \E i \in 1..(n - 1) : r[i] = x
      /\ \A i \in 1..n : s[i] \in ToSet(s)
      /\ \A x \in ToSet(s) : \E i \in 1..n : s[i] = x
  BY <1>3, SeqElements
<1>8. \A q \in 1..n : q # j => \E i \in 1..(n - 1) : from(i) = q
  <2> TAKE q \in 1..n
  <2> HAVE q # j
  <2>1. CASE q < j
    <3>1. q \in 1..(n - 1) /\ from(q) = q
      BY <2>1
    <3> QED
      BY <3>1
  <2>2. CASE ~(q < j)
    <3>1. q - 1 \in 1..(n - 1) /\ from(q - 1) = q
      BY <2>2
    <3> QED
      BY <3>1
  <2> QED
    BY <2>1, <2>2
<1> HIDE DEF from, n
<1>9. ToSet(r) \subseteq ToSet(s) \ {e}
  <2> SUFFICES ASSUME NEW i \in 1..(n - 1)
               PROVE  r[i] \in ToSet(s) \ {e}
    BY <1>7
  <2> QED
    BY <1>1, <1>3, <1>4, <1>6, <1>7 DEF IsInjective, n
<1>10. ToSet(s) \ {e} \subseteq ToSet(r)
  <2> SUFFICES ASSUME NEW q \in 1..n, s[q] # e
               PROVE  s[q] \in ToSet(r)
    BY <1>7
  <2>1. PICK i \in 1..(n - 1) : from(i) = q
    BY <1>1, <1>8
  <2> QED
    BY <1>3, <1>7, <2>1
<1> QED
  BY <1>2, <1>3, <1>5, <1>9, <1>10

-----------------------------------------------------------------------------
(* The fresh load.                                                         *)

(* Every finite set of entries is the set of a sorted array.               *)
LEMMA SortedExists ==
  ASSUME NEW S, IsFiniteSet(S), S \subseteq EntryType
  PROVE  \E s \in Seq(EntryType) : Sorted(s) /\ ToSet(s) = S
<1> DEFINE Has(R) == \E s \in Seq(EntryType) : Sorted(s) /\ ToSet(s) = R
           T == {n \in Nat : \A R \in SUBSET EntryType :
                   IsFiniteSet(R) /\ Cardinality(R) = n => Has(R)}
<1>1. 0 \in T
  <2>1. ASSUME NEW R \in SUBSET EntryType, IsFiniteSet(R), Cardinality(R) = 0
        PROVE  Has(R)
    <3>1. R = {}
      BY <2>1, FS_EmptySet
    <3>2. << >> \in Seq(EntryType) /\ Sorted(<< >>) /\ ToSet(<< >>) = {}
      BY DEF Sorted, ToSet
    <3> QED
      BY <3>1, <3>2
  <2> HIDE DEF Has
  <2> QED
    BY <2>1
<1>2. \A n \in Nat : n \in T => n + 1 \in T
  <2> SUFFICES ASSUME NEW n \in Nat, n \in T,
                      NEW R \in SUBSET EntryType, IsFiniteSet(R), Cardinality(R) = n + 1
               PROVE  Has(R)
    <3> HIDE DEF Has
    <3> QED
      OBVIOUS
  <2>1. PICK e \in R : TRUE
    <3>1. R # {}
      BY FS_EmptySet
    <3> QED
      BY <3>1
  <2> DEFINE Q == R \ {e}
  <2>2. IsFiniteSet(Q) /\ Cardinality(Q) = n
    <3>1. IsFiniteSet(Q) /\ Cardinality(Q) = Cardinality(R) - 1
      BY FS_RemoveElement
    <3> QED
      BY <3>1
  <2>3. Has(Q)
    <3>1. Q \in SUBSET EntryType
      OBVIOUS
    <3> HIDE DEF Has, Q
    <3> QED
      BY <2>2, <3>1
  <2>4. PICK s \in Seq(EntryType) : Sorted(s) /\ ToSet(s) = Q
    BY <2>3
  <2>5. e \in EntryType /\ e \notin Q /\ Q \cup {e} = R
    BY <2>1
  <2> HIDE DEF Q
  <2>6. /\ Insert(s, e) \in Seq(EntryType) /\ Sorted(Insert(s, e))
        /\ ToSet(Insert(s, e)) = R
    BY <2>4, <2>5, InsertKeeps
  <2> QED
    BY <2>6
<1> HIDE DEF Has
<1>3. Nat \subseteq T
  <2> HIDE DEF T
  <2> QED
    BY <1>1, <1>2, Induction
<1>4. Cardinality(S) \in Nat
  BY FS_CardinalityType
<1>5. Has(S)
  BY <1>3, <1>4
<1> QED
  BY <1>5 DEF Has

(* Load gives that array.                                                  *)
LEMMA LoadFacts ==
  ASSUME NEW ds, NEW f, IsFiniteSet(DOMAIN ds),
         \A id \in DOMAIN ds : Entry(ds, id, f) \in EntryType
  PROVE  /\ Load(ds, f) \in Seq(EntryType) /\ Sorted(Load(ds, f))
         /\ ToSet(Load(ds, f)) = {Entry(ds, id, f) : id \in DOMAIN ds}
<1> DEFINE S == {Entry(ds, id, f) : id \in DOMAIN ds}
           F == [id \in DOMAIN ds |-> Entry(ds, id, f)]
<1>1. S \subseteq EntryType /\ IsFiniteSet(S)
  <2>1. F \in Surjection(DOMAIN ds, S)
    BY DEF Surjection
  <2> QED
    BY <2>1, FS_Surjection
<1>2. Load(ds, f) = CHOOSE t \in SetToSeqs(S) : Sorted(t)
  BY DEF Load
<1> HIDE DEF S, F
<1>3. PICK s \in Seq(EntryType) : Sorted(s) /\ ToSet(s) = S
  BY <1>1, SortedExists
<1>4. IsInjective(s) /\ DOMAIN s = 1..Len(s) /\ Len(s) \in Nat
  BY <1>3, SortedIsInjective
<1>5. Len(s) = Cardinality(S)
  <2>1. s \in [1..Len(s) -> S] /\ \A x \in S : \E i \in 1..Len(s) : s[i] = x
    BY <1>3, <1>4, SeqElements
  <2>2. s \in Bijection(1..Len(s), S)
    BY <1>4, <2>1 DEF Bijection, Injection, Surjection, IsInjective
  <2> QED
    BY <1>4, <2>2, FS_CountingElements DEF ExistsBijection
<1>6. s \in SetToSeqs(S) /\ Sorted(s)
  <2>1. s \in [1..Len(s) -> S] /\ \A i, j \in 1..Len(s) : i # j => s[i] # s[j]
    BY <1>3, <1>4, SeqElements DEF IsInjective
  <2> QED
    BY <1>3, <1>5, <2>1 DEF SetToSeqs
<1> DEFINE t == Load(ds, f)
           n == Cardinality(S)
<1>7. t \in SetToSeqs(S) /\ Sorted(t)
  BY <1>2, <1>6
<1> HIDE DEF t
<1>8. n \in Nat
  BY <1>1, FS_CardinalityType
<1>9. t \in [1..n -> S] /\ \A i, j \in 1..n : i # j => t[i] # t[j]
  BY <1>7 DEF SetToSeqs
<1>10. ToSet(t) = S
  <2> HIDE DEF n
  <2>1. t \in Injection(1..n, S)
    <3>1. DOMAIN t = 1..n /\ \A i, j \in 1..n : t[i] = t[j] => i = j
      BY <1>9
    <3> QED
      BY <1>9, <3>1 DEF Injection, IsInjective
  <2>2. Cardinality(1..n) = n
    BY <1>8, FS_Interval
  <2>3. t \in Surjection(1..n, S)
    BY <1>1, <2>1, <2>2, FS_Injection DEF n
  <2> QED
    BY <1>9, <2>3 DEF Surjection, ToSet
<1>11. t \in Seq(EntryType)
  <2> HIDE DEF n
  <2> QED
    BY <1>1, <1>8, <1>9
<1> QED
  BY <1>7, <1>10, <1>11 DEF t, S

-----------------------------------------------------------------------------
(* The inductive invariant.                                                *)

(* The documents, of which there are finitely many.                        *)
DocsOK ==
  /\ DOMAIN docs \subseteq Ids /\ docs \in [DOMAIN docs -> Bodies]
  /\ IsFiniteSet(DOMAIN docs)

(* An array holds, in order, an entry for each document and no other.      *)
Indexes(entries, ds, f) ==
  /\ entries \in Seq(EntryType) /\ Sorted(entries)
  /\ ToSet(entries) = {Entry(ds, id, f) : id \in DOMAIN ds}

FieldsOK ==
  /\ IdKey \in DOMAIN fields /\ DOMAIN fields \subseteq Fields \cup {IdKey}
  /\ \A f \in DOMAIN fields : Indexes(fields[f], docs, f)

FieldInv == DocsOK /\ FieldsOK

(* Every document has an entry in every index, a pair of ranks.            *)
LEMMA EntryTyped ==
  ASSUME NEW ds, NEW id \in DOMAIN ds, DOMAIN ds \subseteq Ids,
         ds \in [DOMAIN ds -> Bodies], NEW f \in Fields \cup {IdKey}
  PROVE  /\ Entry(ds, id, f) \in [value : Values \cup Ids, id : Ids]
         /\ Entry(ds, id, f) \in EntryType
<1>1. id \in Ids /\ ds[id] \in Bodies
  OBVIOUS
<1>2. IndexValue(ds, id, f) \in Values \cup Ids
  <2>1. CASE f = IdKey
    BY <1>1, <2>1, RankAssumption DEF IndexValue, Get
  <2>2. CASE f # IdKey
    BY <1>1, <2>2, RankAssumption DEF IndexValue, Get, Bodies
  <2> QED
    BY <2>1, <2>2
<1>3. Entry(ds, id, f) \in [value : Values \cup Ids, id : Ids]
  BY <1>1, <1>2 DEF Entry
<1>4. [value : Values \cup Ids, id : Ids] \subseteq EntryType
  BY RankAssumption DEF EntryType
<1> QED
  BY <1>3, <1>4

(* Taking a document out of an array of all of them.                       *)
LEMMA DeindexKeeps ==
  ASSUME NEW s, NEW ds, NEW f \in Fields \cup {IdKey}, Indexes(s, ds, f),
         DOMAIN ds \subseteq Ids, ds \in [DOMAIN ds -> Bodies],
         NEW id \in DOMAIN ds
  PROVE  LET r == Remove1(s, Entry(ds, id, f)) IN
         /\ r \in Seq(EntryType) /\ Sorted(r)
         /\ ToSet(r) = {Entry(ds, i, f) : i \in DOMAIN ds \ {id}}
<1>1. Entry(ds, id, f) \in ToSet(s)
  BY DEF Indexes
<1>2. /\ Remove1(s, Entry(ds, id, f)) \in Seq(EntryType)
      /\ Sorted(Remove1(s, Entry(ds, id, f)))
      /\ ToSet(Remove1(s, Entry(ds, id, f))) = ToSet(s) \ {Entry(ds, id, f)}
  BY <1>1, RemoveKeeps DEF Indexes
<1>3. \A i \in DOMAIN ds : Entry(ds, i, f) = Entry(ds, id, f) => i = id
  BY DEF Entry
<1>4. ToSet(s) \ {Entry(ds, id, f)} = {Entry(ds, i, f) : i \in DOMAIN ds \ {id}}
  BY <1>3 DEF Indexes
<1> QED
  BY <1>2, <1>4

(* Putting a document in.                                                  *)
LEMMA IndexKeeps ==
  ASSUME NEW s, NEW ds, NEW f \in Fields \cup {IdKey}, NEW id \in DOMAIN ds,
         DOMAIN ds \subseteq Ids, ds \in [DOMAIN ds -> Bodies],
         s \in Seq(EntryType), Sorted(s),
         ToSet(s) = {Entry(ds, i, f) : i \in DOMAIN ds \ {id}}
  PROVE  Indexes(Insert(s, Entry(ds, id, f)), ds, f)
<1>1. Entry(ds, id, f) \notin ToSet(s)
  BY DEF Entry
<1>2. Entry(ds, id, f) \in EntryType
  BY EntryTyped
<1>3. /\ Insert(s, Entry(ds, id, f)) \in Seq(EntryType)
      /\ Sorted(Insert(s, Entry(ds, id, f)))
      /\ ToSet(Insert(s, Entry(ds, id, f))) = ToSet(s) \cup {Entry(ds, id, f)}
  BY <1>1, <1>2, InsertKeeps
<1>4. ToSet(s) \cup {Entry(ds, id, f)} = {Entry(ds, i, f) : i \in DOMAIN ds}
  OBVIOUS
<1> QED
  BY <1>3, <1>4 DEF Indexes

-----------------------------------------------------------------------------
(* The steps.                                                              *)

(* Collection::set_doc: the old version is taken out, the new one put in.  *)
LEMMA PutKeeps ==
  ASSUME FieldInv, NEW id \in Ids, NEW body \in Bodies, Put(id, body)
  PROVE  FieldInv'
<1> DEFINE ds   == [i \in DOMAIN docs \cup {id} |-> IF i = id THEN body ELSE docs[i]]
           bare == IF id \in DOMAIN docs THEN DeindexDoc(fields, docs, id) ELSE fields
<1>1. docs' = ds /\ fields' = IndexDoc(bare, ds, id)
  BY DEF Put
<1>2. /\ DOMAIN docs \subseteq Ids /\ docs \in [DOMAIN docs -> Bodies]
      /\ IsFiniteSet(DOMAIN docs)
  BY DEF FieldInv, DocsOK
<1>3. /\ DOMAIN ds = DOMAIN docs \cup {id} /\ DOMAIN ds \subseteq Ids
      /\ ds \in [DOMAIN ds -> Bodies] /\ id \in DOMAIN ds
      /\ \A i \in DOMAIN docs \ {id} : ds[i] = docs[i]
      /\ DOMAIN ds \ {id} = DOMAIN docs \ {id}
  BY <1>2
<1>4. IsFiniteSet(DOMAIN ds)
  BY <1>2, <1>3, FS_AddElement
<1> HIDE DEF ds
<1>5. /\ DOMAIN bare = DOMAIN fields /\ DOMAIN fields' = DOMAIN fields
      /\ \A f \in DOMAIN fields : fields'[f] = Insert(bare[f], Entry(ds, id, f))
  BY <1>1 DEF IndexDoc, DeindexDoc
<1>6. ASSUME NEW f \in DOMAIN fields PROVE Indexes(fields'[f], docs', f)
  <2>1. f \in Fields \cup {IdKey} /\ Indexes(fields[f], docs, f)
    BY <1>6 DEF FieldInv, FieldsOK
  <2>2. /\ bare[f] \in Seq(EntryType) /\ Sorted(bare[f])
        /\ ToSet(bare[f]) = {Entry(docs, i, f) : i \in DOMAIN docs \ {id}}
    <3>1. CASE id \in DOMAIN docs
      <4>1. bare[f] = Remove1(fields[f], Entry(docs, id, f))
        BY <1>6, <3>1 DEF DeindexDoc
      <4> HIDE DEF bare
      <4> QED
        BY <1>2, <2>1, <3>1, <4>1, DeindexKeeps
    <3>2. CASE id \notin DOMAIN docs
      <4>1. bare[f] = fields[f] /\ DOMAIN docs \ {id} = DOMAIN docs
        BY <3>2
      <4> HIDE DEF bare
      <4> QED
        BY <2>1, <4>1 DEF Indexes
    <3> QED
      BY <3>1, <3>2
  <2> HIDE DEF bare
  <2>3. \A i \in DOMAIN docs \ {id} : Entry(ds, i, f) = Entry(docs, i, f)
    BY <1>3 DEF Entry, IndexValue, Get
  <2>4. ToSet(bare[f]) = {Entry(ds, i, f) : i \in DOMAIN ds \ {id}}
    BY <1>3, <2>2, <2>3
  <2>5. Indexes(Insert(bare[f], Entry(ds, id, f)), ds, f)
    BY <1>3, <2>1, <2>2, <2>4, IndexKeeps
  <2> QED
    BY <1>1, <1>5, <1>6, <2>5
<1> HIDE DEF bare
<1>7. FieldsOK'
  BY <1>5, <1>6 DEF FieldInv, FieldsOK
<1>8. DocsOK'
  BY <1>1, <1>3, <1>4 DEF DocsOK
<1> QED
  BY <1>7, <1>8 DEF FieldInv

(* Collection::remove_doc.                                                 *)
LEMMA RemoveDocKeeps ==
  ASSUME FieldInv, NEW id \in Ids, RemoveDoc(id)
  PROVE  FieldInv'
<1>1. /\ id \in DOMAIN docs /\ docs' = Restrict(docs, DOMAIN docs \ {id})
      /\ fields' = DeindexDoc(fields, docs, id)
  BY DEF RemoveDoc
<1>2. /\ DOMAIN docs \subseteq Ids /\ docs \in [DOMAIN docs -> Bodies]
      /\ IsFiniteSet(DOMAIN docs)
  BY DEF FieldInv, DocsOK
<1>3. /\ DOMAIN docs' = DOMAIN docs \ {id}
      /\ \A i \in DOMAIN docs' : docs'[i] = docs[i]
      /\ docs' \in [DOMAIN docs' -> Bodies]
  BY <1>1, <1>2 DEF Restrict
<1>4. IsFiniteSet(DOMAIN docs')
  BY <1>2, <1>3, FS_RemoveElement
<1>5. /\ DOMAIN fields' = DOMAIN fields
      /\ \A f \in DOMAIN fields : fields'[f] = Remove1(fields[f], Entry(docs, id, f))
  BY <1>1 DEF DeindexDoc
<1>6. ASSUME NEW f \in DOMAIN fields PROVE Indexes(fields'[f], docs', f)
  <2>1. f \in Fields \cup {IdKey} /\ Indexes(fields[f], docs, f)
    BY <1>6 DEF FieldInv, FieldsOK
  <2>2. /\ fields'[f] \in Seq(EntryType) /\ Sorted(fields'[f])
        /\ ToSet(fields'[f]) = {Entry(docs, i, f) : i \in DOMAIN docs \ {id}}
    BY <1>1, <1>2, <1>5, <2>1, DeindexKeeps
  <2>3. \A i \in DOMAIN docs' : Entry(docs', i, f) = Entry(docs, i, f)
    BY <1>3 DEF Entry, IndexValue, Get
  <2>4. ToSet(fields'[f]) = {Entry(docs', i, f) : i \in DOMAIN docs'}
    BY <1>3, <2>2, <2>3
  <2> QED
    BY <2>2, <2>4 DEF Indexes
<1>7. FieldsOK'
  BY <1>5, <1>6 DEF FieldInv, FieldsOK
<1>8. DocsOK'
  BY <1>2, <1>3, <1>4 DEF DocsOK
<1> QED
  BY <1>7, <1>8 DEF FieldInv

(* Collection::create_index: the new array is loaded.                      *)
LEMMA CreateIndexKeeps ==
  ASSUME FieldInv, NEW f \in Fields, CreateIndex(f)
  PROVE  FieldInv'
<1>1. /\ DOMAIN fields' = DOMAIN fields \cup {f} /\ docs' = docs
      /\ fields'[f] = Load(docs, f)
      /\ \A g \in DOMAIN fields : g # f => fields'[g] = fields[g]
  BY DEF CreateIndex
<1>2. Indexes(Load(docs, f), docs, f)
  <2>1. \A id \in DOMAIN docs : Entry(docs, id, f) \in EntryType
    BY EntryTyped DEF FieldInv, DocsOK
  <2> QED
    BY <2>1, LoadFacts DEF FieldInv, DocsOK, Indexes
<1>3. FieldsOK'
  BY <1>1, <1>2 DEF FieldInv, FieldsOK
<1> QED
  BY <1>1, <1>3 DEF FieldInv, DocsOK

(* Collection::drop_index.                                                 *)
LEMMA DropIndexKeeps ==
  ASSUME FieldInv, NEW f \in Fields, DropIndex(f)
  PROVE  FieldInv'
<1>1. /\ DOMAIN fields' = DOMAIN fields \ {f} /\ docs' = docs
      /\ \A g \in DOMAIN fields' : fields'[g] = fields[g]
  BY DEF DropIndex, Restrict
<1>2. IdKey # f
  BY RankAssumption
<1>3. FieldsOK'
  BY <1>1, <1>2 DEF FieldInv, FieldsOK
<1> QED
  BY <1>1, <1>3 DEF FieldInv, DocsOK

(* The invariant of the field indexes.                                     *)
LEMMA FieldInvariant == Spec => []FieldInv
<1>1. Init => FieldInv
  <2> SUFFICES ASSUME Init PROVE FieldInv
    OBVIOUS
  <2>1. DocsOK
    BY FS_EmptySet DEF Init, DocsOK
  <2>2. Indexes(<<>>, docs, IdKey)
    <3>1. ToSet(<<>>) = {} /\ {Entry(docs, id, IdKey) : id \in DOMAIN docs} = {}
      BY DEF Init, ToSet
    <3>2. <<>> \in Seq(EntryType) /\ Sorted(<<>>)
      BY DEF Sorted
    <3> QED
      BY <3>1, <3>2 DEF Indexes
  <2>3. FieldsOK
    BY <2>2 DEF Init, FieldsOK
  <2> QED
    BY <2>1, <2>3 DEF FieldInv
<1>2. FieldInv /\ [Next]_vars => FieldInv'
  <2> SUFFICES ASSUME FieldInv, [Next]_vars PROVE FieldInv'
    OBVIOUS
  <2>1. CASE UNCHANGED vars
    BY <2>1 DEF FieldInv, DocsOK, FieldsOK, vars
  <2>2. CASE Next
    BY <2>2, PutKeeps, RemoveDocKeeps, CreateIndexKeeps, DropIndexKeeps DEF Next
  <2> QED
    BY <2>1, <2>2
<1> QED
  BY <1>1, <1>2, PTL DEF Spec

-----------------------------------------------------------------------------
(* The types of the documents and of the arrays of entries.                *)
THEOREM FieldTypeCorrect == Spec => []TypeOK
<1>1. FieldInv => TypeOK
  <2> SUFFICES ASSUME FieldInv PROVE TypeOK
    OBVIOUS
  <2> DEFINE E == [value : Values \cup Ids, id : Ids]
  <2>1. ASSUME NEW f \in DOMAIN fields PROVE fields[f] \in Seq(E)
    <3>1. f \in Fields \cup {IdKey} /\ Indexes(fields[f], docs, f)
      BY <2>1 DEF FieldInv, FieldsOK
    <3>2. \A id \in DOMAIN docs : Entry(docs, id, f) \in E
      BY <3>1, EntryTyped DEF FieldInv, DocsOK
    <3>3. ToSet(fields[f]) \subseteq E
      BY <3>1, <3>2 DEF Indexes
    <3>4. \A i \in 1..Len(fields[f]) : fields[f][i] \in E
      BY <3>1, <3>3, SeqElements DEF Indexes
    <3> HIDE DEF E
    <3> QED
      BY <3>1, <3>4 DEF Indexes
  <2> QED
    BY <2>1 DEF FieldInv, DocsOK, FieldsOK, TypeOK
<1> QED
  BY <1>1, FieldInvariant, PTL

(* Maintained by binary searches over any history of writes, every index   *)
(* is at all times the array a fresh load of the documents would build     *)
(* (index.rs insert, remove and load).                                     *)
THEOREM FieldIndexIsFreshLoad == Spec => []IndexIsFreshLoad
<1>1. FieldInv => IndexIsFreshLoad
  <2> SUFFICES ASSUME FieldInv, NEW f \in DOMAIN fields
               PROVE  fields[f] = Load(docs, f)
    BY DEF IndexIsFreshLoad
  <2>1. f \in Fields \cup {IdKey} /\ Indexes(fields[f], docs, f)
    BY DEF FieldInv, FieldsOK
  <2>2. \A id \in DOMAIN docs : Entry(docs, id, f) \in EntryType
    BY <2>1, EntryTyped DEF FieldInv, DocsOK
  <2>3. /\ Load(docs, f) \in Seq(EntryType) /\ Sorted(Load(docs, f))
        /\ ToSet(Load(docs, f)) = {Entry(docs, id, f) : id \in DOMAIN docs}
    BY <2>2, LoadFacts DEF FieldInv, DocsOK
  <2> QED
    BY <2>1, <2>3, SortedIsUnique DEF Indexes
<1> QED
  BY <1>1, FieldInvariant, PTL


-----------------------------------------------------------------------------
(* Recursion on nested criteria: a step from functions to functions, whose *)
(* result at c depends on the given function only at what is nested less   *)
(* deep than c.                                                            *)
AgreeBelow(f, g, C, depth, m) == \A d \in C : depth[d] < m => f[d] = g[d]

Nested(step, C, depth, V) ==
  /\ step \in [[C -> V] -> [C -> V]]
  /\ \A f, g \in [C -> V], c \in C :
       AgreeBelow(f, g, C, depth, depth[c]) => step[f][c] = step[g][c]

(* Such a step has a fixed point: each depth settles what is that deep.    *)
LEMMA NestedRecursion ==
  ASSUME NEW C, NEW V, NEW v \in V, NEW depth \in [C -> Nat],
         NEW step, Nested(step, C, depth, V)
  PROVE  \E f \in [C -> V] : step[f] = f
<1> DEFINE F == [C -> V]
           Good(f, m) == AgreeBelow(step[f], f, C, depth, m)
           T == {m \in Nat : \E f \in F : Good(f, m)}
<1>0. \A f \in F : step[f] \in F
  BY DEF Nested
<1>1. 0 \in T
  <2>1. [c \in C |-> v] \in F
    OBVIOUS
  <2>2. \A f \in F : Good(f, 0)
    BY DEF AgreeBelow
  <2> HIDE DEF F, Good
  <2> QED
    BY <2>1, <2>2
<1>2. ASSUME NEW m \in Nat, m \in T
      PROVE  m + 1 \in T
  <2>1. PICK f \in F : Good(f, m)
    BY <1>2
  <2>2. step[f] \in F
    BY <1>0
  <2>3. ASSUME NEW c \in C, depth[c] < m + 1
        PROVE  step[step[f]][c] = step[f][c]
    <3>1. \A d \in C : depth[d] < depth[c] => depth[d] < m
      BY <2>3
    <3>2. AgreeBelow(step[f], f, C, depth, depth[c])
      BY <2>1, <3>1 DEF AgreeBelow
    <3> QED
      BY <2>2, <3>2 DEF Nested
  <2>4. Good(step[f], m + 1)
    BY <2>3 DEF AgreeBelow
  <2> HIDE DEF F, Good
  <2> QED
    BY <2>2, <2>4
<1>3. \A m \in Nat : \E f \in F : Good(f, m)
  <2>1. Nat \subseteq T
    <3> HIDE DEF T
    <3> QED
      BY <1>1, <1>2, Induction
  <2> HIDE DEF Good
  <2> QED
    BY <2>1
<1>4. ASSUME NEW f \in F, NEW g \in F, NEW m \in Nat, Good(f, m), Good(g, m)
      PROVE  AgreeBelow(f, g, C, depth, m)
  <2> DEFINE U == {k \in Nat : k <= m => AgreeBelow(f, g, C, depth, k)}
  <2>1. 0 \in U
    BY DEF AgreeBelow
  <2>2. ASSUME NEW k \in Nat, k \in U
        PROVE  k + 1 \in U
    <3> SUFFICES ASSUME k + 1 <= m, NEW c \in C, depth[c] < k + 1
                 PROVE  f[c] = g[c]
      BY DEF AgreeBelow
    <3>1. AgreeBelow(f, g, C, depth, depth[c])
      <4>1. AgreeBelow(f, g, C, depth, k)
        BY <2>2
      <4>2. \A d \in C : depth[d] < depth[c] => depth[d] < k
        OBVIOUS
      <4> QED
        BY <4>1, <4>2 DEF AgreeBelow
    <3>2. step[f][c] = step[g][c]
      BY <3>1 DEF Nested
    <3>3. depth[c] < m
      OBVIOUS
    <3> QED
      BY <1>4, <3>2, <3>3 DEF AgreeBelow
  <2>3. m \in U
    <3> HIDE DEF U
    <3> QED
      BY <2>1, <2>2, Induction
  <2> QED
    BY <2>3
<1> DEFINE G == [m \in Nat |-> CHOOSE f \in F : Good(f, m)]
           h == [c \in C |-> G[depth[c] + 1][c]]
<1>5. \A m \in Nat : G[m] \in F /\ Good(G[m], m)
  <2>1. \A m \in Nat : G[m] = CHOOSE f \in F : Good(f, m)
    OBVIOUS
  <2> HIDE DEF G, F, Good
  <2> QED
    BY <1>3, <2>1
<1> HIDE DEF G
<1>6. h \in F
  <2> SUFFICES ASSUME NEW c \in C PROVE G[depth[c] + 1][c] \in V
    OBVIOUS
  <2>1. depth[c] + 1 \in Nat
    OBVIOUS
  <2> QED
    BY <1>5, <2>1
<1>7. ASSUME NEW c \in C PROVE step[h][c] = h[c]
  <2> DEFINE g == G[depth[c] + 1]
  <2>1. depth[c] + 1 \in Nat /\ g \in F /\ Good(g, depth[c] + 1)
    BY <1>5
  <2>2. ASSUME NEW d \in C, depth[d] < depth[c] PROVE h[d] = g[d]
    <3>1. depth[d] + 1 \in Nat /\ G[depth[d] + 1] \in F /\ Good(G[depth[d] + 1], depth[d] + 1)
      BY <1>5
    <3>2. Good(g, depth[d] + 1)
      <4>1. \A b \in C : depth[b] < depth[d] + 1 => depth[b] < depth[c] + 1
        BY <2>2
      <4> HIDE DEF g
      <4> QED
        BY <2>1, <4>1 DEF AgreeBelow
    <3>3. AgreeBelow(G[depth[d] + 1], g, C, depth, depth[d] + 1)
      <4> HIDE DEF g, F, Good
      <4> QED
        BY <1>4, <2>1, <3>1, <3>2
    <3>4. depth[d] < depth[d] + 1
      OBVIOUS
    <3> QED
      BY <3>3, <3>4 DEF AgreeBelow
  <2>3. step[h][c] = step[g][c]
    <3>1. AgreeBelow(h, g, C, depth, depth[c])
      BY <2>2 DEF AgreeBelow
    <3> HIDE DEF h, g
    <3> QED
      BY <1>6, <2>1, <3>1 DEF Nested
  <2>4. step[g][c] = g[c]
    <3>1. depth[c] < depth[c] + 1
      OBVIOUS
    <3> HIDE DEF g
    <3> QED
      BY <2>1, <3>1 DEF AgreeBelow
  <2> QED
    BY <2>3, <2>4
<1>8. step[h] = h
  <2>1. step[h] \in [C -> V]
    BY <1>0, <1>6
  <2> HIDE DEF h
  <2> QED
    BY <1>6, <1>7, <2>1
<1> QED
  BY <1>6, <1>8

-----------------------------------------------------------------------------
(* Meets is what its definition says: each criterion by those inside it.   *)
Met(meets, c) ==
  CASE "direct" \in DOMAIN c -> {x \in Presents : x # Missing /\ x = c.direct}
    [] "ops" \in DOMAIN c ->
         {x \in Presents : \A i \in DOMAIN c.ops : OpMatch(meets, x, c.ops[i])}
    [] OTHER ->
         {s \in Subjects : /\ c.sub # NotObject
                           /\ \A i \in DOMAIN c.sub : EntryMatch(meets, s, c.sub[i])}

(* A criterion is of one of three kinds.                                   *)
LEMMA CriterionKinds ==
  ASSUME NEW c \in Criteria
  PROVE  /\ \/ DOMAIN c = {"direct"} /\ c.direct \in Int
            \/ /\ DOMAIN c = {"ops"} /\ IsList(c.ops)
               /\ c = [ops |-> c.ops] /\ \A i \in DOMAIN c.ops : TypedOp(c.ops[i])
            \/ /\ DOMAIN c = {"sub"} /\ c = [sub |-> c.sub]
               /\ c.sub # NotObject =>
                    IsList(c.sub) /\ \A i \in DOMAIN c.sub : TypedEntry(c.sub[i])
         /\ \A d \in Inner(c) : d \in Criteria /\ Nesting[d] < Nesting[c]
<1>1. \/ "direct" \in DOMAIN c /\ c = [direct |-> c.direct] /\ c.direct \in Int
      \/ /\ "ops" \in DOMAIN c /\ c = [ops |-> c.ops]
         /\ IsList(c.ops) /\ \A i \in DOMAIN c.ops : TypedOp(c.ops[i])
      \/ /\ "sub" \in DOMAIN c /\ c = [sub |-> c.sub]
         /\ c.sub # NotObject =>
              IsList(c.sub) /\ \A i \in DOMAIN c.sub : TypedEntry(c.sub[i])
  BY CriteriaAssumption
<1>2. \A d \in Inner(c) : d \in Criteria /\ Nesting[d] < Nesting[c]
  BY CriteriaAssumption
<1>3. CASE c = [direct |-> c.direct] /\ c.direct \in Int
  <2>1. DOMAIN c = {"direct"}
    <3>1. DOMAIN [direct |-> c.direct] = {"direct"}
      OBVIOUS
    <3> QED
      BY <1>3, <3>1
  <2> QED
    BY <1>2, <1>3, <2>1
<1>4. CASE /\ c = [ops |-> c.ops]
           /\ IsList(c.ops) /\ \A i \in DOMAIN c.ops : TypedOp(c.ops[i])
  <2>1. DOMAIN c = {"ops"}
    <3>1. DOMAIN [ops |-> c.ops] = {"ops"}
      OBVIOUS
    <3> QED
      BY <1>4, <3>1
  <2> QED
    BY <1>2, <1>4, <2>1
<1>5. CASE /\ c = [sub |-> c.sub]
           /\ c.sub # NotObject =>
                IsList(c.sub) /\ \A i \in DOMAIN c.sub : TypedEntry(c.sub[i])
  <2>1. DOMAIN c = {"sub"}
    <3>1. DOMAIN [sub |-> c.sub] = {"sub"}
      OBVIOUS
    <3> QED
      BY <1>5, <3>1
  <2> QED
    BY <1>2, <1>5, <2>1
<1> QED
  BY <1>1, <1>2, <1>3, <1>4, <1>5

(* What is directly inside a filter.                                       *)
LEMMA InnerOfFilter ==
  ASSUME NEW c \in Criteria, DOMAIN c = {"sub"}, c.sub # NotObject, NEW i \in DOMAIN c.sub
  PROVE  /\ c.sub[i].key \in {"$and", "$or"} /\ c.sub[i].subs # NotArray =>
              \A j \in DOMAIN c.sub[i].subs :
                /\ [sub |-> c.sub[i].subs[j]] \in Criteria
                /\ Nesting[[sub |-> c.sub[i].subs[j]]] < Nesting[c]
         /\ c.sub[i].key \notin {"$and", "$or", "$not"} =>
              c.sub[i].cond \in Criteria /\ Nesting[c.sub[i].cond] < Nesting[c]
<1>1. Inner(c) =
        UNION {CASE c.sub[k].key \in {"$and", "$or"} ->
                     IF c.sub[k].subs = NotArray THEN {}
                     ELSE {[sub |-> c.sub[k].subs[j]] : j \in DOMAIN c.sub[k].subs}
                [] c.sub[k].key = "$not" -> {}
                [] OTHER -> {c.sub[k].cond} : k \in DOMAIN c.sub}
  BY DEF Inner
<1>2. ASSUME c.sub[i].key \in {"$and", "$or"}, c.sub[i].subs # NotArray,
             NEW j \in DOMAIN c.sub[i].subs
      PROVE  [sub |-> c.sub[i].subs[j]] \in Inner(c)
  <2>1. (CASE c.sub[i].key \in {"$and", "$or"} ->
                     IF c.sub[i].subs = NotArray THEN {}
                     ELSE {[sub |-> c.sub[i].subs[k]] : k \in DOMAIN c.sub[i].subs}
                [] c.sub[i].key = "$not" -> {}
                [] OTHER -> {c.sub[i].cond})
        = {[sub |-> c.sub[i].subs[k]] : k \in DOMAIN c.sub[i].subs}
    BY <1>2
  <2> QED
    BY <1>1, <1>2, <2>1
<1>3. ASSUME c.sub[i].key \notin {"$and", "$or", "$not"}
      PROVE  c.sub[i].cond \in Inner(c)
  <2>1. (CASE c.sub[i].key \in {"$and", "$or"} ->
                     IF c.sub[i].subs = NotArray THEN {}
                     ELSE {[sub |-> c.sub[i].subs[k]] : k \in DOMAIN c.sub[i].subs}
                [] c.sub[i].key = "$not" -> {}
                [] OTHER -> {c.sub[i].cond})
        = {c.sub[i].cond}
    BY <1>3
  <2> QED
    BY <1>1, <1>3, <2>1
<1> QED
  BY <1>2, <1>3, CriterionKinds

(* What is directly inside a condition of operators.                       *)
LEMMA InnerOfOps ==
  ASSUME NEW c \in Criteria, DOMAIN c = {"ops"}, NEW i \in DOMAIN c.ops
  PROVE  /\ c.ops[i].op = "$not" /\ c.ops[i].ops # NotOps =>
              /\ [ops |-> c.ops[i].ops] \in Criteria
              /\ Nesting[[ops |-> c.ops[i].ops]] < Nesting[c]
         /\ c.ops[i].op = "$elemMatch" =>
              c.ops[i].crit \in Criteria /\ Nesting[c.ops[i].crit] < Nesting[c]
<1>1. Inner(c) =
        {[ops |-> c.ops[k].ops] :
           k \in {m \in DOMAIN c.ops : c.ops[m].op = "$not" /\ c.ops[m].ops # NotOps}}
        \cup {c.ops[k].crit : k \in {m \in DOMAIN c.ops : c.ops[m].op = "$elemMatch"}}
  BY DEF Inner
<1>2. c.ops[i].op = "$not" /\ c.ops[i].ops # NotOps => [ops |-> c.ops[i].ops] \in Inner(c)
  BY <1>1
<1>3. c.ops[i].op = "$elemMatch" => c.ops[i].crit \in Inner(c)
  BY <1>1
<1> QED
  BY <1>2, <1>3, CriterionKinds

(* What a criterion asks depends on the criteria inside it only.           *)
LEMMA MetLocal ==
  ASSUME NEW f, NEW g, NEW c \in Criteria,
         AgreeBelow(f, g, Criteria, Nesting, Nesting[c])
  PROVE  Met(f, c) = Met(g, c)
<1>0. \A d \in Criteria : Nesting[d] < Nesting[c] => f[d] = g[d]
  BY DEF AgreeBelow
<1>1. CASE DOMAIN c = {"direct"}
  BY <1>1 DEF Met
<1>2. CASE DOMAIN c = {"ops"}
  <2>1. ASSUME NEW x, NEW i \in DOMAIN c.ops
        PROVE  OpMatch(f, x, c.ops[i]) = OpMatch(g, x, c.ops[i])
    <3>1. CASE c.ops[i].op = "$not"
      <4>1. c.ops[i].ops # NotOps => f[[ops |-> c.ops[i].ops]] = g[[ops |-> c.ops[i].ops]]
        BY <1>0, <1>2, <3>1, InnerOfOps
      <4> QED
        BY <3>1, <4>1 DEF OpMatch
    <3>2. CASE c.ops[i].op = "$elemMatch"
      <4>1. f[c.ops[i].crit] = g[c.ops[i].crit]
        BY <1>0, <1>2, <3>2, InnerOfOps
      <4>2. ElemMatch(f, x, c.ops[i].crit) = ElemMatch(g, x, c.ops[i].crit)
        BY <4>1 DEF ElemMatch
      <4> QED
        BY <3>2, <4>2 DEF OpMatch
    <3>3. CASE c.ops[i].op \notin {"$not", "$elemMatch"}
      BY <3>3 DEF OpMatch
    <3> QED
      BY <3>1, <3>2, <3>3
  <2>2. /\ Met(f, c) = {x \in Presents : \A i \in DOMAIN c.ops : OpMatch(f, x, c.ops[i])}
        /\ Met(g, c) = {x \in Presents : \A i \in DOMAIN c.ops : OpMatch(g, x, c.ops[i])}
    BY <1>2 DEF Met
  <2> QED
    BY <2>1, <2>2
<1>3. CASE DOMAIN c = {"sub"}
  <2>1. ASSUME c.sub # NotObject, NEW s, NEW i \in DOMAIN c.sub
        PROVE  EntryMatch(f, s, c.sub[i]) = EntryMatch(g, s, c.sub[i])
    <3>1. CASE c.sub[i].key \in {"$and", "$or"}
      <4>1. c.sub[i].subs # NotArray =>
              \A j \in DOMAIN c.sub[i].subs :
                f[[sub |-> c.sub[i].subs[j]]] = g[[sub |-> c.sub[i].subs[j]]]
        BY <1>0, <1>3, <2>1, <3>1, InnerOfFilter
      <4> QED
        BY <3>1, <4>1 DEF EntryMatch
    <3>2. CASE c.sub[i].key = "$not"
      BY <3>2 DEF EntryMatch
    <3>3. CASE c.sub[i].key \notin {"$and", "$or", "$not"}
      <4>1. f[c.sub[i].cond] = g[c.sub[i].cond]
        BY <1>0, <1>3, <2>1, <3>3, InnerOfFilter
      <4> QED
        BY <3>3, <4>1 DEF EntryMatch
    <3> QED
      BY <3>1, <3>2, <3>3
  <2>2. /\ Met(f, c) = {s \in Subjects : /\ c.sub # NotObject
                                         /\ \A i \in DOMAIN c.sub : EntryMatch(f, s, c.sub[i])}
        /\ Met(g, c) = {s \in Subjects : /\ c.sub # NotObject
                                         /\ \A i \in DOMAIN c.sub : EntryMatch(g, s, c.sub[i])}
    BY <1>3 DEF Met
  <2>3. ASSUME NEW s PROVE s \in Met(f, c) <=> s \in Met(g, c)
    BY <2>1, <2>2
  <2> QED
    BY <2>2, <2>3
<1> QED
  BY <1>1, <1>2, <1>3, CriterionKinds

(* Meets is a fixed point of its definition.                               *)
LEMMA MeetsUnfolds ==
  ASSUME NEW c \in Criteria
  PROVE  Meets[c] = Met(Meets, c)
<1> DEFINE V == SUBSET (Presents \cup Subjects)
           step == [f \in [Criteria -> V] |-> [d \in Criteria |-> Met(f, d)]]
           meets == CHOOSE g : g = [d \in Criteria |->
             CASE "direct" \in DOMAIN d -> {x \in Presents : x # Missing /\ x = d.direct}
               [] "ops" \in DOMAIN d ->
                    {x \in Presents : \A i \in DOMAIN d.ops : OpMatch(g, x, d.ops[i])}
               [] OTHER ->
                    {s \in Subjects : /\ d.sub # NotObject
                                      /\ \A i \in DOMAIN d.sub : EntryMatch(g, s, d.sub[i])}]
<1>1. ASSUME NEW f, NEW d \in Criteria PROVE Met(f, d) \in V
  <2>1. \/ Met(f, d) = {x \in Presents : x # Missing /\ x = d.direct}
        \/ Met(f, d) = {x \in Presents : \A i \in DOMAIN d.ops : OpMatch(f, x, d.ops[i])}
        \/ Met(f, d) = {s \in Subjects : /\ d.sub # NotObject
                                         /\ \A i \in DOMAIN d.sub : EntryMatch(f, s, d.sub[i])}
    <3>1. DOMAIN d \in {{"direct"}, {"ops"}, {"sub"}}
      BY CriterionKinds
    <3> QED
      BY <3>1 DEF Met
  <2> QED
    BY <2>1
<1>2. Nested(step, Criteria, Nesting, V)
  <2>1. \A f \in [Criteria -> V], d \in Criteria : step[f][d] = Met(f, d)
    OBVIOUS
  <2>2. step \in [[Criteria -> V] -> [Criteria -> V]]
    <3> HIDE DEF V
    <3> QED
      BY <1>1
  <2> HIDE DEF step, V
  <2>3. ASSUME NEW f \in [Criteria -> V], NEW g \in [Criteria -> V], NEW d \in Criteria,
               AgreeBelow(f, g, Criteria, Nesting, Nesting[d])
        PROVE  step[f][d] = step[g][d]
    BY <2>1, <2>3, MetLocal
  <2> QED
    BY <2>2, <2>3 DEF Nested
<1>3. PICK f \in [Criteria -> V] : step[f] = f
  <2>1. {} \in V
    OBVIOUS
  <2>2. Nesting \in [Criteria -> Nat]
    BY CriteriaAssumption
  <2> HIDE DEF V, step
  <2> QED
    BY <1>2, <2>1, <2>2, NestedRecursion
<1>4. f = [d \in Criteria |-> Met(f, d)]
  <2>1. step[f] = [d \in Criteria |-> Met(f, d)]
    OBVIOUS
  <2> HIDE DEF step
  <2> QED
    BY <1>3, <2>1
<1>5. meets = [d \in Criteria |-> Met(meets, d)]
  BY <1>4 DEF Met
<1>6. Meets = [d \in Criteria |-> meets[d]]
  BY DEF Meets
<1> HIDE DEF meets
<1>7. meets = [d \in Criteria |-> meets[d]]
  <2> DEFINE M == [d \in Criteria |-> Met(meets, d)]
  <2>1. M = [d \in Criteria |-> M[d]]
    OBVIOUS
  <2>2. meets = M
    BY <1>5
  <2> HIDE DEF M
  <2> QED
    BY <2>1, <2>2
<1>8. Meets = meets
  BY <1>6, <1>7
<1> QED
  BY <1>5, <1>8

-----------------------------------------------------------------------------
(* The entries of filters.                                                 *)
Entries == UNION {{c.sub[i] : i \in DOMAIN c.sub} :
                    c \in {d \in Criteria : DOMAIN d = {"sub"} /\ d.sub # NotObject}}

(* The conjuncts an entry stands for.                                      *)
EntryConjuncts(conjuncts, e) ==
  IF e.key # "$and" THEN <<e>>
  ELSE IF e.subs = NotArray THEN <<>>
  ELSE FlattenSeq([j \in DOMAIN e.subs |-> conjuncts[[sub |-> e.subs[j]]]])

ConjunctsOf(conjuncts, c) ==
  IF "sub" \notin DOMAIN c \/ c.sub = NotObject THEN <<>>
  ELSE FlattenSeq([i \in DOMAIN c.sub |-> EntryConjuncts(conjuncts, c.sub[i])])

(* A filter's entries as sequences.                                        *)
LEMMA FilterShape ==
  ASSUME NEW c \in Criteria, DOMAIN c = {"sub"}, c.sub # NotObject
  PROVE  /\ Len(c.sub) \in Nat /\ DOMAIN c.sub = 1..Len(c.sub)
         /\ \A i \in DOMAIN c.sub :
              /\ c.sub[i] \in Entries
              /\ c.sub[i].key = "$and" /\ c.sub[i].subs # NotArray =>
                   /\ Len(c.sub[i].subs) \in Nat
                   /\ DOMAIN c.sub[i].subs = 1..Len(c.sub[i].subs)
                   /\ \A j \in DOMAIN c.sub[i].subs :
                        /\ [sub |-> c.sub[i].subs[j]] \in Criteria
                        /\ Nesting[[sub |-> c.sub[i].subs[j]]] < Nesting[c]
<1>1. IsList(c.sub) /\ \A i \in DOMAIN c.sub : TypedEntry(c.sub[i])
  BY CriterionKinds
<1>2. \A i \in DOMAIN c.sub : c.sub[i] \in Entries
  BY DEF Entries
<1>3. ASSUME NEW i \in DOMAIN c.sub, c.sub[i].key = "$and", c.sub[i].subs # NotArray
      PROVE  /\ Len(c.sub[i].subs) \in Nat
             /\ DOMAIN c.sub[i].subs = 1..Len(c.sub[i].subs)
             /\ \A j \in DOMAIN c.sub[i].subs :
                  /\ [sub |-> c.sub[i].subs[j]] \in Criteria
                  /\ Nesting[[sub |-> c.sub[i].subs[j]]] < Nesting[c]
  <2>1. IsList(c.sub[i].subs)
    BY <1>1, <1>3 DEF TypedEntry
  <2> QED
    BY <1>3, <2>1, InnerOfFilter DEF IsList
<1> QED
  BY <1>1, <1>2, <1>3 DEF IsList

(* They are entries of filters when those of the filters inside are; their *)
(* set is that of the conjuncts of each entry.                             *)
LEMMA ConjunctsTyped ==
  ASSUME NEW f, NEW c \in Criteria,
         \A d \in Criteria : Nesting[d] < Nesting[c] => f[d] \in Seq(Entries)
  PROVE  /\ ConjunctsOf(f, c) \in Seq(Entries)
         /\ DOMAIN c = {"sub"} /\ c.sub # NotObject =>
              \A e \in ToSet(ConjunctsOf(f, c)) : \E i \in DOMAIN c.sub :
                \/ c.sub[i].key # "$and" /\ e = c.sub[i]
                \/ /\ c.sub[i].key = "$and" /\ c.sub[i].subs # NotArray
                   /\ \E j \in DOMAIN c.sub[i].subs : e \in ToSet(f[[sub |-> c.sub[i].subs[j]]])
<1>1. CASE ~(DOMAIN c = {"sub"} /\ c.sub # NotObject)
  <2>1. ConjunctsOf(f, c) = <<>>
    <3>1. DOMAIN c \in {{"direct"}, {"ops"}, {"sub"}}
      BY CriterionKinds
    <3> QED
      BY <1>1, <3>1 DEF ConjunctsOf
  <2>2. <<>> \in Seq(Entries)
    OBVIOUS
  <2> QED
    BY <1>1, <2>1, <2>2
<1>2. CASE DOMAIN c = {"sub"} /\ c.sub # NotObject
  <2> DEFINE parts == [i \in DOMAIN c.sub |-> EntryConjuncts(f, c.sub[i])]
  <2>1. ASSUME NEW i \in DOMAIN c.sub
        PROVE  /\ EntryConjuncts(f, c.sub[i]) \in Seq(Entries)
               /\ \A e \in ToSet(EntryConjuncts(f, c.sub[i])) :
                    \/ c.sub[i].key # "$and" /\ e = c.sub[i]
                    \/ /\ c.sub[i].key = "$and" /\ c.sub[i].subs # NotArray
                       /\ \E j \in DOMAIN c.sub[i].subs :
                            e \in ToSet(f[[sub |-> c.sub[i].subs[j]]])
    <3> DEFINE x == c.sub[i]
    <3>0. x \in Entries
      BY <1>2, FilterShape
    <3>1. CASE x.key # "$and"
      <4>1. EntryConjuncts(f, x) = <<x>>
        BY <3>1 DEF EntryConjuncts
      <4> HIDE DEF x
      <4>2. <<x>> \in Seq(Entries) /\ ToSet(<<x>>) = {x}
        BY <3>0 DEF ToSet
      <4> QED
        BY <3>1, <4>1, <4>2 DEF x
    <3>2. CASE x.key = "$and" /\ x.subs = NotArray
      <4>1. EntryConjuncts(f, x) = <<>>
        BY <3>2 DEF EntryConjuncts
      <4>2. <<>> \in Seq(Entries) /\ ToSet(<<>>) = {}
        BY DEF ToSet
      <4> QED
        BY <4>1, <4>2
    <3>3. CASE x.key = "$and" /\ x.subs # NotArray
      <4> DEFINE inner == [j \in DOMAIN x.subs |-> f[[sub |-> x.subs[j]]]]
      <4>1. EntryConjuncts(f, x) = FlattenSeq(inner)
        BY <3>3 DEF EntryConjuncts
      <4>2. /\ Len(x.subs) \in Nat /\ DOMAIN x.subs = 1..Len(x.subs)
            /\ \A j \in DOMAIN x.subs : f[[sub |-> x.subs[j]]] \in Seq(Entries)
        BY <1>2, <3>3, FilterShape
      <4>3. inner \in Seq(Seq(Entries)) /\ DOMAIN inner = DOMAIN x.subs
        <5>1. inner \in [1..Len(x.subs) -> Seq(Entries)]
          BY <4>2
        <5> HIDE DEF inner, x
        <5> QED
          BY <4>2, <5>1
      <4>4. \A j \in DOMAIN x.subs : inner[j] = f[[sub |-> x.subs[j]]]
        OBVIOUS
      <4> HIDE DEF inner
      <4>5. /\ FlattenSeq(inner) \in Seq(Entries)
            /\ ToSet(FlattenSeq(inner)) = UNION {ToSet(inner[j]) : j \in DOMAIN inner}
        BY <4>3, FlattenFacts
      <4>6. \A e \in ToSet(FlattenSeq(inner)) :
              \E j \in DOMAIN x.subs : e \in ToSet(f[[sub |-> x.subs[j]]])
        BY <4>3, <4>4, <4>5
      <4> QED
        BY <3>3, <4>1, <4>5, <4>6
    <3> QED
      BY <3>1, <3>2, <3>3
  <2>2. ConjunctsOf(f, c) = FlattenSeq(parts)
    BY <1>2 DEF ConjunctsOf
  <2>3. parts \in Seq(Seq(Entries)) /\ DOMAIN parts = DOMAIN c.sub
    <3>1. Len(c.sub) \in Nat /\ DOMAIN c.sub = 1..Len(c.sub)
      BY <1>2, FilterShape
    <3>2. parts \in [1..Len(c.sub) -> Seq(Entries)]
      BY <2>1, <3>1
    <3> HIDE DEF parts
    <3> QED
      BY <3>1, <3>2
  <2>4. \A i \in DOMAIN c.sub : parts[i] = EntryConjuncts(f, c.sub[i])
    OBVIOUS
  <2> HIDE DEF parts
  <2>5. /\ FlattenSeq(parts) \in Seq(Entries)
        /\ ToSet(FlattenSeq(parts)) = UNION {ToSet(parts[i]) : i \in DOMAIN parts}
    BY <2>3, FlattenFacts
  <2>6. ASSUME NEW e \in ToSet(ConjunctsOf(f, c))
        PROVE  \E i \in DOMAIN c.sub :
                 \/ c.sub[i].key # "$and" /\ e = c.sub[i]
                 \/ /\ c.sub[i].key = "$and" /\ c.sub[i].subs # NotArray
                    /\ \E j \in DOMAIN c.sub[i].subs : e \in ToSet(f[[sub |-> c.sub[i].subs[j]]])
    <3>1. PICK i \in DOMAIN c.sub : e \in ToSet(EntryConjuncts(f, c.sub[i]))
      BY <2>2, <2>3, <2>4, <2>5
    <3>2. \/ c.sub[i].key # "$and" /\ e = c.sub[i]
          \/ /\ c.sub[i].key = "$and" /\ c.sub[i].subs # NotArray
             /\ \E j \in DOMAIN c.sub[i].subs : e \in ToSet(f[[sub |-> c.sub[i].subs[j]]])
      BY <2>1, <3>1, Zenon
    <3> QED
      BY <3>2, Zenon
  <2>7. ConjunctsOf(f, c) \in Seq(Entries)
    BY <2>2, <2>5
  <2> QED
    BY <2>6, <2>7
<1> QED
  BY <1>1, <1>2

(* The conjuncts of a filter depend on the filters inside it only.         *)
LEMMA ConjunctsLocal ==
  ASSUME NEW f, NEW g, NEW c \in Criteria,
         AgreeBelow(f, g, Criteria, Nesting, Nesting[c])
  PROVE  ConjunctsOf(f, c) = ConjunctsOf(g, c)
<1>0. \A d \in Criteria : Nesting[d] < Nesting[c] => f[d] = g[d]
  BY DEF AgreeBelow
<1>1. CASE ~(DOMAIN c = {"sub"} /\ c.sub # NotObject)
  <2>1. DOMAIN c \in {{"direct"}, {"ops"}, {"sub"}}
    BY CriterionKinds
  <2>2. ConjunctsOf(f, c) = <<>>
    BY <1>1, <2>1 DEF ConjunctsOf
  <2>3. ConjunctsOf(g, c) = <<>>
    BY <1>1, <2>1 DEF ConjunctsOf
  <2> QED
    BY <2>2, <2>3
<1>2. CASE DOMAIN c = {"sub"} /\ c.sub # NotObject
  <2>1. ASSUME NEW i \in DOMAIN c.sub
        PROVE  EntryConjuncts(f, c.sub[i]) = EntryConjuncts(g, c.sub[i])
    <3>1. CASE c.sub[i].key = "$and" /\ c.sub[i].subs # NotArray
      <4>1. \A j \in DOMAIN c.sub[i].subs :
              f[[sub |-> c.sub[i].subs[j]]] = g[[sub |-> c.sub[i].subs[j]]]
        BY <1>0, <1>2, <3>1, FilterShape
      <4>2. [j \in DOMAIN c.sub[i].subs |-> f[[sub |-> c.sub[i].subs[j]]]]
            = [j \in DOMAIN c.sub[i].subs |-> g[[sub |-> c.sub[i].subs[j]]]]
        BY <4>1
      <4> QED
        BY <4>2 DEF EntryConjuncts
    <3>2. CASE ~(c.sub[i].key = "$and" /\ c.sub[i].subs # NotArray)
      BY <3>2 DEF EntryConjuncts
    <3> QED
      BY <3>1, <3>2
  <2>2. [i \in DOMAIN c.sub |-> EntryConjuncts(f, c.sub[i])]
        = [i \in DOMAIN c.sub |-> EntryConjuncts(g, c.sub[i])]
    BY <2>1
  <2> QED
    BY <2>2 DEF ConjunctsOf
<1> QED
  BY <1>1, <1>2

(* Conjuncts is a fixed point of its definition, and lists entries.        *)
LEMMA ConjunctsUnfolds ==
  ASSUME NEW c \in Criteria
  PROVE  /\ Conjuncts[c] = ConjunctsOf(Conjuncts, c)
         /\ \A d \in Criteria : Conjuncts[d] \in Seq(Entries)
<1> DEFINE V == Seq(Entries)
           step == [f \in [Criteria -> V] |-> [d \in Criteria |-> ConjunctsOf(f, d)]]
           conjuncts == CHOOSE g : g = [d \in Criteria |->
             IF "sub" \notin DOMAIN d \/ d.sub = NotObject THEN <<>>
             ELSE FlattenSeq([i \in DOMAIN d.sub |->
                    IF d.sub[i].key # "$and" THEN <<d.sub[i]>>
                    ELSE IF d.sub[i].subs = NotArray THEN <<>>
                    ELSE FlattenSeq([j \in DOMAIN d.sub[i].subs |->
                           g[[sub |-> d.sub[i].subs[j]]]])])]
<1>1. ASSUME NEW f \in [Criteria -> V], NEW d \in Criteria PROVE ConjunctsOf(f, d) \in V
  <2>1. \A b \in Criteria : f[b] \in V
    OBVIOUS
  <2> QED
    BY <2>1, ConjunctsTyped
<1>2. Nested(step, Criteria, Nesting, V)
  <2>1. \A f \in [Criteria -> V], d \in Criteria : step[f][d] = ConjunctsOf(f, d)
    OBVIOUS
  <2>2. step \in [[Criteria -> V] -> [Criteria -> V]]
    <3> HIDE DEF V
    <3> QED
      BY <1>1
  <2> HIDE DEF step, V
  <2>3. ASSUME NEW f \in [Criteria -> V], NEW g \in [Criteria -> V], NEW d \in Criteria,
               AgreeBelow(f, g, Criteria, Nesting, Nesting[d])
        PROVE  step[f][d] = step[g][d]
    BY <2>1, <2>3, ConjunctsLocal
  <2> QED
    BY <2>2, <2>3 DEF Nested
<1>3. PICK f \in [Criteria -> V] : step[f] = f
  <2>1. <<>> \in V
    OBVIOUS
  <2>2. Nesting \in [Criteria -> Nat]
    BY CriteriaAssumption
  <2> HIDE DEF V, step
  <2> QED
    BY <1>2, <2>1, <2>2, NestedRecursion
<1>4. f = [d \in Criteria |-> ConjunctsOf(f, d)]
  <2>1. step[f] = [d \in Criteria |-> ConjunctsOf(f, d)]
    OBVIOUS
  <2> HIDE DEF step
  <2> QED
    BY <1>3, <2>1
<1>5. conjuncts = [d \in Criteria |-> ConjunctsOf(conjuncts, d)]
  BY <1>4 DEF ConjunctsOf, EntryConjuncts
<1>6. Conjuncts = [d \in Criteria |-> conjuncts[d]]
  BY DEF Conjuncts
<1> HIDE DEF conjuncts
<1>7. conjuncts = [d \in Criteria |-> conjuncts[d]]
  <2> DEFINE M == [d \in Criteria |-> ConjunctsOf(conjuncts, d)]
  <2>1. M = [d \in Criteria |-> M[d]]
    OBVIOUS
  <2>2. conjuncts = M
    BY <1>5
  <2> HIDE DEF M
  <2> QED
    BY <2>1, <2>2
<1>8. Conjuncts = conjuncts
  BY <1>6, <1>7
<1>9. Conjuncts[c] = ConjunctsOf(Conjuncts, c)
  BY <1>5, <1>8
<1>10. \A d \in Criteria : Conjuncts[d] = ConjunctsOf(Conjuncts, d)
  BY <1>5, <1>8
<1> DEFINE T == {m \in Nat : \A d \in Criteria : Nesting[d] < m => Conjuncts[d] \in V}
<1>11. \A d \in Criteria : Nesting[d] \in Nat
  BY CriteriaAssumption
<1>12. 0 \in T
  BY <1>11
<1>13. ASSUME NEW m \in Nat, m \in T PROVE m + 1 \in T
  <2> SUFFICES ASSUME NEW d \in Criteria, Nesting[d] < m + 1 PROVE Conjuncts[d] \in V
    OBVIOUS
  <2>1. \A b \in Criteria : Nesting[b] < Nesting[d] => Conjuncts[b] \in V
    BY <1>11, <1>13
  <2>2. ConjunctsOf(Conjuncts, d) \in V
    BY <2>1, ConjunctsTyped
  <2> HIDE DEF V
  <2> QED
    BY <1>10, <2>2
<1>14. \A d \in Criteria : Conjuncts[d] \in V
  <2> HIDE DEF T
  <2>1. Nat \subseteq T
    BY <1>12, <1>13, Induction
  <2> HIDE DEF V
  <2>2. \A d \in Criteria : Nesting[d] + 1 \in T /\ Nesting[d] < Nesting[d] + 1
    BY <1>11, <2>1
  <2> QED
    BY <2>2 DEF T
<1> QED
  BY <1>9, <1>14

(* What a filter asks of a subject that meets it.                          *)
Required(c) ==
  \A e \in ToSet(Conjuncts[c]) :
    /\ e.key \notin {"$and", "$or", "$not"} => e.cond \in Criteria /\ "sub" \notin DOMAIN e.cond
    /\ \A s \in Meets[c] : EntryMatch(Meets, s, e)

(* A conjunct that is about a field gives it a condition; a subject that   *)
(* meets a filter matches each of its conjuncts.                           *)
LEMMA ConjunctsRequired ==
  ASSUME NEW c \in Criteria, DOMAIN c = {"sub"}
  PROVE  Required(c)
<1> DEFINE T == {m \in Nat : \A d \in Criteria :
                   Nesting[d] < m /\ DOMAIN d = {"sub"} => Required(d)}
<1>1. \A d \in Criteria : Nesting[d] \in Nat
  BY CriteriaAssumption
<1>2. 0 \in T
  BY <1>1
<1>3. ASSUME NEW m \in Nat, m \in T PROVE m + 1 \in T
  <2> SUFFICES ASSUME NEW d \in Criteria, Nesting[d] < m + 1, DOMAIN d = {"sub"}
               PROVE  Required(d)
    OBVIOUS
  <2>0. \A b \in Criteria : Nesting[b] < Nesting[d] /\ DOMAIN b = {"sub"} => Required(b)
    BY <1>1, <1>3
  <2>1. Conjuncts[d] = ConjunctsOf(Conjuncts, d) /\ Meets[d] = Met(Meets, d)
    BY ConjunctsUnfolds, MeetsUnfolds
  <2>2. CASE d.sub = NotObject
    <3>1. ToSet(Conjuncts[d]) = {}
      BY <2>1, <2>2 DEF ConjunctsOf, ToSet
    <3> QED
      BY <3>1 DEF Required
  <2>3. CASE d.sub # NotObject
    <3>1. Meets[d] = {s \in Subjects : \A i \in DOMAIN d.sub : EntryMatch(Meets, s, d.sub[i])}
      BY <2>1, <2>3 DEF Met
    <3>2. ASSUME NEW e \in ToSet(Conjuncts[d])
          PROVE  /\ e.key \notin {"$and", "$or", "$not"} =>
                      e.cond \in Criteria /\ "sub" \notin DOMAIN e.cond
                 /\ \A s \in Meets[d] : EntryMatch(Meets, s, e)
      <4>1. PICK i \in DOMAIN d.sub :
               \/ d.sub[i].key # "$and" /\ e = d.sub[i]
               \/ /\ d.sub[i].key = "$and" /\ d.sub[i].subs # NotArray
                  /\ \E j \in DOMAIN d.sub[i].subs :
                       e \in ToSet(Conjuncts[[sub |-> d.sub[i].subs[j]]])
        <5>1. \A b \in Criteria : Nesting[b] < Nesting[d] => Conjuncts[b] \in Seq(Entries)
          BY ConjunctsUnfolds
        <5>2. \E i \in DOMAIN d.sub :
               \/ d.sub[i].key # "$and" /\ e = d.sub[i]
               \/ /\ d.sub[i].key = "$and" /\ d.sub[i].subs # NotArray
                  /\ \E j \in DOMAIN d.sub[i].subs :
                       e \in ToSet(Conjuncts[[sub |-> d.sub[i].subs[j]]])
          BY <2>1, <2>3, <5>1, ConjunctsTyped
        <5> QED
          BY <5>2
      <4>2. CASE d.sub[i].key # "$and" /\ e = d.sub[i]
        <5>1. \A s \in Meets[d] : EntryMatch(Meets, s, e)
          BY <3>1, <4>2
        <5>2. e.key \notin {"$and", "$or", "$not"} =>
                e.cond \in Criteria /\ "sub" \notin DOMAIN e.cond
          <6>1. TypedEntry(d.sub[i])
            BY <2>3, CriterionKinds
          <6> QED
            BY <2>3, <4>2, <6>1, InnerOfFilter DEF TypedEntry
        <5> QED
          BY <5>1, <5>2
      <4>3. CASE /\ d.sub[i].key = "$and" /\ d.sub[i].subs # NotArray
                 /\ \E j \in DOMAIN d.sub[i].subs :
                      e \in ToSet(Conjuncts[[sub |-> d.sub[i].subs[j]]])
        <5>1. PICK j \in DOMAIN d.sub[i].subs :
                e \in ToSet(Conjuncts[[sub |-> d.sub[i].subs[j]]])
          BY <4>3
        <5> DEFINE b == [sub |-> d.sub[i].subs[j]]
        <5>2. b \in Criteria /\ Nesting[b] < Nesting[d]
          BY <2>3, <4>3, FilterShape
        <5>3. DOMAIN b = {"sub"}
          OBVIOUS
        <5>4. \A s \in Meets[d] : s \in Meets[b]
          <6> SUFFICES ASSUME NEW s \in Meets[d] PROVE s \in Meets[b]
            OBVIOUS
          <6>1. EntryMatch(Meets, s, d.sub[i])
            BY <3>1
          <6> QED
            BY <4>3, <6>1 DEF EntryMatch
        <5>5. e \in ToSet(Conjuncts[b])
          BY <5>1
        <5> HIDE DEF b
        <5>6. Required(b)
          BY <2>0, <5>2, <5>3
        <5> QED
          BY <5>4, <5>5, <5>6 DEF Required
      <4> QED
        BY <4>1, <4>2, <4>3
    <3> QED
      BY <3>2 DEF Required
  <2> QED
    BY <2>2, <2>3
<1>4. Nesting[c] + 1 \in T /\ Nesting[c] < Nesting[c] + 1
  <2> HIDE DEF T
  <2>1. Nat \subseteq T
    BY <1>2, <1>3, Induction
  <2> QED
    BY <1>1, <2>1
<1> QED
  BY <1>4

(* The filters asked are criteria.                                         *)
LEMMA FilterIsCriterion ==
  ASSUME NEW filter \in Filters
  PROVE  [sub |-> filter] \in Criteria /\ DOMAIN [sub |-> filter] = {"sub"}
<1>1. PICK c \in Criteria : "sub" \in DOMAIN c /\ filter = c.sub
  BY DEF Filters
<1>2. c = [sub |-> c.sub]
  BY <1>1, CriterionKinds
<1> QED
  BY <1>1, <1>2

(* A value in the driver's place: that of a document that matches.         *)
LEMMA DriverRequired ==
  ASSUME NEW filter \in Filters, Drivers(filter) # {},
         DOMAIN fields \subseteq Fields \cup {IdKey}
  PROVE  LET d == Driver(filter) IN
         /\ d.key \in DOMAIN fields /\ Drives(d.cond)
         /\ d.cond \in Criteria /\ "sub" \notin DOMAIN d.cond
         /\ \A id \in Matches(filter) : Get(docs, id, d.key) \in Met(Meets, d.cond)
<1> DEFINE c == [sub |-> filter]
           d == Driver(filter)
           n == Min(Drivers(filter))
<1>1. c \in Criteria /\ DOMAIN c = {"sub"}
  BY FilterIsCriterion
<1>2. Conjuncts[c] \in Seq(Entries)
  BY <1>1, ConjunctsUnfolds
<1>3. Drivers(filter) = {i \in DOMAIN Conjuncts[c] :
                           Conjuncts[c][i].key \in DOMAIN fields /\ Drives(Conjuncts[c][i].cond)}
  BY DEF Drivers
<1>4. n \in Drivers(filter)
  <2>1. Drivers(filter) \subseteq Nat
    BY <1>2, <1>3
  <2>2. \E i \in Drivers(filter) : \A m \in Drivers(filter) : i <= m
    BY <2>1, Least, Zenon
  <2> QED
    BY <2>2 DEF Min
<1>5. d = Conjuncts[c][n]
  BY DEF Driver
<1>6. d \in ToSet(Conjuncts[c]) /\ d.key \in DOMAIN fields /\ Drives(d.cond)
  <2> HIDE DEF n, c, d
  <2> QED
    BY <1>3, <1>4, <1>5 DEF ToSet
<1>7. d.key \notin {"$and", "$or", "$not"} /\ d.key \in Fields \cup {IdKey}
  BY <1>6, QueryAssumption
<1>8. Required(c)
  BY <1>1, ConjunctsRequired
<1>9. d.cond \in Criteria /\ "sub" \notin DOMAIN d.cond
  <2> HIDE DEF c, d
  <2> QED
    BY <1>6, <1>7, <1>8 DEF Required
<1>10. ASSUME NEW id \in Matches(filter) PROVE Get(docs, id, d.key) \in Met(Meets, d.cond)
  <2>1. Row(id, docs[id]) \in Meets[c]
    BY DEF Matches, DocMatches
  <2>2. EntryMatch(Meets, Row(id, docs[id]), d)
    <3> HIDE DEF c, d
    <3> QED
      BY <1>6, <1>8, <2>1 DEF Required
  <2>3. Field(Row(id, docs[id]), d.key) \in Meets[d.cond]
    <3> HIDE DEF d
    <3> QED
      BY <1>7, <2>2 DEF EntryMatch
  <2>4. Field(Row(id, docs[id]), d.key) = Get(docs, id, d.key)
    <3> HIDE DEF d
    <3> QED
      BY <1>7 DEF Field, Row, Get
  <2>5. Meets[d.cond] = Met(Meets, d.cond)
    <3> HIDE DEF d
    <3> QED
      BY <1>9, MeetsUnfolds
  <2> QED
    BY <2>3, <2>4, <2>5
<1> HIDE DEF d, c, n
<1> QED
  BY <1>6, <1>9, <1>10 DEF d

-----------------------------------------------------------------------------
(* Bounds and ranges.                                                      *)
Bound == [value : Int, incl : BOOLEAN] \cup {Unbounded}

RangeType == [lo : Bound, hi : Bound]

LowerBounds(ops) ==
  {Unbounded} \cup {[value |-> ops[i].arg, incl |-> ops[i].op # "$gt"] :
                      i \in {k \in DOMAIN ops : ops[k].op \in {"$eq", "$gt", "$gte"}}}

UpperBounds(ops) ==
  {Unbounded} \cup {[value |-> ops[i].arg, incl |-> ops[i].op # "$lt"] :
                      i \in {k \in DOMAIN ops : ops[k].op \in {"$eq", "$lt", "$lte"}}}

(* The lower bound of a condition is that of one of its operators, or none. *)
LEMMA LowerIsBound ==
  ASSUME NEW ops, IsList(ops)
  PROVE  Lower(ops) \in LowerBounds(ops)
<1> DEFINE n == Len(ops)
           Then(v, k) == IF ops[k].op \in {"$eq", "$gt", "$gte"}
                         THEN TightenLower(v, [value |-> ops[k].arg, incl |-> ops[k].op # "$gt"])
                         ELSE v
           V == LowerBounds(ops)
           step == [p \in V \X (1..n) |-> Then(p[1], p[2])]
<1>1. n \in Nat /\ DOMAIN ops = 1..n
  BY DEF IsList
<1>2. \A v \in V, k \in 1..n : step[<<v, k>>] = Then(v, k)
  OBVIOUS
<1>3. ASSUME NEW v \in V, NEW k \in 1..n PROVE Then(v, k) \in V
  <2>1. \A new : TightenLower(v, new) = v \/ TightenLower(v, new) = new
    BY DEF TightenLower
  <2>2. ops[k].op \in {"$eq", "$gt", "$gte"} =>
          [value |-> ops[k].arg, incl |-> ops[k].op # "$gt"] \in V
    BY <1>1 DEF LowerBounds
  <2> HIDE DEF V
  <2> QED
    BY <2>1, <2>2
<1>4. Unbounded \in V
  BY DEF LowerBounds
<1> HIDE DEF step, V
<1>5. PICK f : Recursion(f, n, V, Unbounded, step)
  <2>1. Steps(step, n, V)
    BY <1>2, <1>3 DEF Steps
  <2> HIDE DEF n
  <2> QED
    BY <1>1, <1>4, <2>1, RecursionExists
<1> DEFINE Tight(g, k) ==
             IF k = 0 THEN Unbounded
             ELSE IF ops[k].op \in {"$eq", "$gt", "$gte"}
             THEN TightenLower(g[k - 1], [value |-> ops[k].arg, incl |-> ops[k].op # "$gt"])
             ELSE g[k - 1]
           lo == CHOOSE g : g = [k \in 0..n |-> Tight(g, k)]
<1>6. f = [k \in 0..n |-> Tight(f, k)]
  <2>1. \A k \in 1..n : f[k] = Then(f[k - 1], k)
    <3>1. \A k \in 1..n : k - 1 \in 0..n
      BY <1>1
    <3> HIDE DEF n, Then
    <3> QED
      BY <1>2, <1>5, <3>1 DEF Recursion
  <2>2. \A k \in 0..n : f[k] = Tight(f, k)
    <3>1. \A k \in 0..n : k = 0 \/ (k # 0 /\ k \in 1..n)
      BY <1>1
    <3>2. f[0] = Unbounded
      BY <1>5 DEF Recursion
    <3> HIDE DEF n
    <3> QED
      BY <2>1, <3>1, <3>2
  <2>3. f = [k \in 0..n |-> f[k]]
    BY <1>5 DEF Recursion
  <2> HIDE DEF Tight, n
  <2> QED
    BY <2>2, <2>3
<1>7. lo = [k \in 0..n |-> Tight(lo, k)]
  <2> HIDE DEF Tight
  <2> QED
    BY <1>6
<1>8. Lower(ops) = lo[n]
  BY DEF Lower
<1>9. lo[0] = Unbounded /\ \A k \in 1..n : lo[k] = Then(lo[k - 1], k)
  <2>1. \A k \in 0..n : lo[k] = Tight(lo, k)
    <3> HIDE DEF Tight
    <3> QED
      BY <1>7
  <2>2. 0 \in 0..n /\ \A k \in 1..n : k \in 0..n /\ k # 0
    BY <1>1
  <2> HIDE DEF lo, n
  <2>3. lo[0] = Unbounded
    BY <2>1, <2>2
  <2>4. ASSUME NEW k \in 1..n PROVE lo[k] = Then(lo[k - 1], k)
    <3>1. lo[k] = Tight(lo, k) /\ k # 0
      BY <2>1, <2>2
    <3> QED
      BY <3>1, Zenon
  <2> QED
    BY <2>3, <2>4
<1> HIDE DEF lo, Then
<1> DEFINE T == {k \in Nat : k <= n => lo[k] \in V}
<1>10. 0 \in T
  BY <1>4, <1>9
<1>11. ASSUME NEW k \in Nat, k \in T PROVE k + 1 \in T
  <2> SUFFICES ASSUME k + 1 <= n PROVE lo[k + 1] \in V
    OBVIOUS
  <2>1. k + 1 \in 1..n /\ k + 1 - 1 = k /\ lo[k] \in V
    BY <1>1, <1>11
  <2>2. lo[k + 1] = Then(lo[k], k + 1)
    BY <1>9, <2>1
  <2> HIDE DEF n
  <2> QED
    BY <1>3, <2>1, <2>2
<1>12. n \in T
  <2> HIDE DEF T
  <2>1. Nat \subseteq T
    BY <1>10, <1>11, Induction
  <2> QED
    BY <1>1, <2>1
<1> QED
  BY <1>1, <1>8, <1>12 DEF V

(* The upper bound of a condition is that of one of its operators, or none. *)
LEMMA UpperIsBound ==
  ASSUME NEW ops, IsList(ops)
  PROVE  Upper(ops) \in UpperBounds(ops)
<1> DEFINE n == Len(ops)
           Then(v, k) == IF ops[k].op \in {"$eq", "$lt", "$lte"}
                         THEN TightenUpper(v, [value |-> ops[k].arg, incl |-> ops[k].op # "$lt"])
                         ELSE v
           V == UpperBounds(ops)
           step == [p \in V \X (1..n) |-> Then(p[1], p[2])]
<1>1. n \in Nat /\ DOMAIN ops = 1..n
  BY DEF IsList
<1>2. \A v \in V, k \in 1..n : step[<<v, k>>] = Then(v, k)
  OBVIOUS
<1>3. ASSUME NEW v \in V, NEW k \in 1..n PROVE Then(v, k) \in V
  <2>1. \A new : TightenUpper(v, new) = v \/ TightenUpper(v, new) = new
    BY DEF TightenUpper
  <2>2. ops[k].op \in {"$eq", "$lt", "$lte"} =>
          [value |-> ops[k].arg, incl |-> ops[k].op # "$lt"] \in V
    BY <1>1 DEF UpperBounds
  <2> HIDE DEF V
  <2> QED
    BY <2>1, <2>2
<1>4. Unbounded \in V
  BY DEF UpperBounds
<1> HIDE DEF step, V
<1>5. PICK f : Recursion(f, n, V, Unbounded, step)
  <2>1. Steps(step, n, V)
    BY <1>2, <1>3 DEF Steps
  <2> HIDE DEF n
  <2> QED
    BY <1>1, <1>4, <2>1, RecursionExists
<1> DEFINE Tight(g, k) ==
             IF k = 0 THEN Unbounded
             ELSE IF ops[k].op \in {"$eq", "$lt", "$lte"}
             THEN TightenUpper(g[k - 1], [value |-> ops[k].arg, incl |-> ops[k].op # "$lt"])
             ELSE g[k - 1]
           hi == CHOOSE g : g = [k \in 0..n |-> Tight(g, k)]
<1>6. f = [k \in 0..n |-> Tight(f, k)]
  <2>1. \A k \in 1..n : f[k] = Then(f[k - 1], k)
    <3>1. \A k \in 1..n : k - 1 \in 0..n
      BY <1>1
    <3> HIDE DEF n, Then
    <3> QED
      BY <1>2, <1>5, <3>1 DEF Recursion
  <2>2. \A k \in 0..n : f[k] = Tight(f, k)
    <3>1. \A k \in 0..n : k = 0 \/ (k # 0 /\ k \in 1..n)
      BY <1>1
    <3>2. f[0] = Unbounded
      BY <1>5 DEF Recursion
    <3> HIDE DEF n
    <3> QED
      BY <2>1, <3>1, <3>2
  <2>3. f = [k \in 0..n |-> f[k]]
    BY <1>5 DEF Recursion
  <2> HIDE DEF Tight, n
  <2> QED
    BY <2>2, <2>3
<1>7. hi = [k \in 0..n |-> Tight(hi, k)]
  <2> HIDE DEF Tight
  <2> QED
    BY <1>6
<1>8. Upper(ops) = hi[n]
  BY DEF Upper
<1>9. hi[0] = Unbounded /\ \A k \in 1..n : hi[k] = Then(hi[k - 1], k)
  <2>1. \A k \in 0..n : hi[k] = Tight(hi, k)
    <3> HIDE DEF Tight
    <3> QED
      BY <1>7
  <2>2. 0 \in 0..n /\ \A k \in 1..n : k \in 0..n /\ k # 0
    BY <1>1
  <2> HIDE DEF hi, n
  <2>3. hi[0] = Unbounded
    BY <2>1, <2>2
  <2>4. ASSUME NEW k \in 1..n PROVE hi[k] = Then(hi[k - 1], k)
    <3>1. hi[k] = Tight(hi, k) /\ k # 0
      BY <2>1, <2>2
    <3> QED
      BY <3>1, Zenon
  <2> QED
    BY <2>3, <2>4
<1> HIDE DEF hi, Then
<1> DEFINE T == {k \in Nat : k <= n => hi[k] \in V}
<1>10. 0 \in T
  BY <1>4, <1>9
<1>11. ASSUME NEW k \in Nat, k \in T PROVE k + 1 \in T
  <2> SUFFICES ASSUME k + 1 <= n PROVE hi[k + 1] \in V
    OBVIOUS
  <2>1. k + 1 \in 1..n /\ k + 1 - 1 = k /\ hi[k] \in V
    BY <1>1, <1>11
  <2>2. hi[k + 1] = Then(hi[k], k + 1)
    BY <1>9, <2>1
  <2> HIDE DEF n
  <2> QED
    BY <1>3, <2>1, <2>2
<1>12. n \in T
  <2> HIDE DEF T
  <2>1. Nat \subseteq T
    BY <1>10, <1>11, Induction
  <2> QED
    BY <1>1, <2>1
<1> QED
  BY <1>1, <1>8, <1>12 DEF V

(* A value between two bounds.                                             *)
Inside(w, range) ==
  /\ range.lo = Unbounded \/ range.lo.value < w \/ (range.lo.incl /\ range.lo.value = w)
  /\ range.hi = Unbounded \/ w < range.hi.value \/ (range.hi.incl /\ w = range.hi.value)

(* Bounds that leave nothing between them.                                 *)
CrossedRange(range) ==
  /\ range.lo # Unbounded /\ range.hi # Unbounded
  /\ \/ range.lo.value > range.hi.value
     \/ range.lo.value = range.hi.value /\ ~(range.lo.incl /\ range.hi.incl)

LessThan == {p \in Int \X Int : p[1] < p[2]}

(* A bound that is one has a value.                                        *)
LEMMA BoundTyped ==
  ASSUME NEW range \in RangeType
  PROVE  /\ range.lo # Unbounded => range.lo.value \in Int /\ range.lo.incl \in BOOLEAN
         /\ range.hi # Unbounded => range.hi.value \in Int /\ range.hi.incl \in BOOLEAN
<1>1. range.lo \in Bound /\ range.hi \in Bound
  BY DEF RangeType
<1>2. \A b \in Bound : b # Unbounded => b.value \in Int /\ b.incl \in BOOLEAN
  BY DEF Bound
<1> QED
  BY <1>1, <1>2

(* The range of one value.                                                 *)
LEMMA PointFacts ==
  ASSUME NEW v \in Int
  PROVE  /\ Point(v) \in RangeType /\ ~CrossedRange(Point(v))
         /\ \A w \in Int : Inside(w, Point(v)) <=> w = v
<1> DEFINE b == [value |-> v, incl |-> TRUE]
<1>1. Point(v) = [lo |-> b, hi |-> b]
  BY DEF Point
<1>2. b \in [value : Int, incl : BOOLEAN] /\ b.value = v /\ b.incl = TRUE
  OBVIOUS
<1>3. b # Unbounded /\ b \in Bound
  BY <1>2, QueryAssumption DEF Bound
<1> HIDE DEF b
<1>4. Point(v) \in RangeType
  BY <1>1, <1>3 DEF RangeType
<1>5. Point(v).lo = b /\ Point(v).hi = b
  BY <1>1
<1>6. ~CrossedRange(Point(v))
  BY <1>2, <1>5 DEF CrossedRange
<1>7. \A w \in Int : Inside(w, Point(v)) <=> w = v
  BY <1>2, <1>3, <1>5 DEF Inside
<1> QED
  BY <1>4, <1>6, <1>7

(* Nothing lies between crossed bounds.                                    *)
LEMMA NothingInside ==
  ASSUME NEW range \in RangeType, CrossedRange(range), NEW w \in Int
  PROVE  ~Inside(w, range)
BY BoundTyped DEF CrossedRange, Inside

(* Less-than orders the integers.                                          *)
LEMMA LessThanOrders ==
  ASSUME NEW S, S \subseteq Int
  PROVE  StrictOn(LessThan, S) /\ TotalOn(LessThan, S)
<1>1. \A x, y \in Int : <<x, y>> \in LessThan <=> x < y
  BY DEF LessThan
<1>2. \A x \in S : x \in Int
  OBVIOUS
<1>3. StrictOn(LessThan, S)
  BY <1>1, <1>2 DEF StrictOn
<1>4. TotalOn(LessThan, S)
  BY <1>1, <1>2 DEF TotalOn
<1> QED
  BY <1>3, <1>4

(* An $in list's values, sorted and without repetition.                    *)
LEMMA InListSorted ==
  ASSUME NEW list \in Seq(Int)
  PROVE  LET values == Ranked(ToSet(list), LAMBDA v, w : v < w)
         IN  /\ values \in Seq(Int) /\ ToSet(values) = ToSet(list)
             /\ Ordered(values, LessThan)
<1> DEFINE S == ToSet(list)
           values == Ranked(ToSet(list), LAMBDA v, w : v < w)
<1>1. S \subseteq Int /\ IsFiniteSet(S)
  <2>1. S \subseteq Int
    BY SeqElements
  <2>2. IsFiniteSet(1..Len(list)) /\ DOMAIN list = 1..Len(list)
    BY FS_Interval
  <2>3. list \in Surjection(DOMAIN list, S)
    <3>1. list \in [DOMAIN list -> S] /\ \A x \in S : \E i \in DOMAIN list : list[i] = x
      BY DEF ToSet
    <3> QED
      BY <3>1 DEF Surjection
  <2> HIDE DEF S
  <2> QED
    BY <2>1, <2>2, <2>3, FS_Surjection
<1>2. values = [k \in 1..Cardinality(S) |->
                  CHOOSE x \in S : Cardinality({y \in S : y < x}) = k - 1]
  BY DEF Ranked
<1>3. \A x \in S : {y \in S : y < x} = Lesser(S, LessThan, x)
  BY <1>1 DEF LessThan, Lesser
<1>4. StrictOn(LessThan, S) /\ TotalOn(LessThan, S)
  BY <1>1, LessThanOrders
<1> HIDE DEF values, S
<1>5. ASSUME NEW k \in 1..Cardinality(S)
      PROVE  values[k] \in S /\ Cardinality(Lesser(S, LessThan, values[k])) = k - 1
  <2>1. \E x \in S : Cardinality({y \in S : y < x}) = k - 1
    <3>1. \A m \in 1..Cardinality(S) :
            \E x \in S : Cardinality(Lesser(S, LessThan, x)) = m - 1
      BY <1>1, <1>4, RankExists
    <3>2. PICK x \in S : Cardinality(Lesser(S, LessThan, x)) = k - 1
      BY <3>1
    <3> QED
      BY <1>3, <3>2
  <2>2. values[k] = CHOOSE x \in S : Cardinality({y \in S : y < x}) = k - 1
    BY <1>2
  <2>3. values[k] \in S /\ Cardinality({y \in S : y < values[k]}) = k - 1
    BY <2>1, <2>2
  <2> QED
    BY <1>3, <2>3
<1>6. values \in [1..Cardinality(S) -> S]
  BY <1>2, <1>5
<1>7. values \in Seq(S) /\ ToSet(values) = S /\ Ordered(values, LessThan)
  BY <1>1, <1>4, <1>5, <1>6, RankedOrders
<1>8. values \in Seq(Int)
  <2>1. values \in [1..Cardinality(S) -> Int] /\ Cardinality(S) \in Nat
    BY <1>1, <1>6, FS_CardinalityType
  <2> QED
    BY <2>1
<1> QED
  BY <1>7, <1>8 DEF values, S

(* The ranges of a condition that drives: one value's, those between its   *)
(* bounds, or those of the values of an $in list in increasing order.      *)
LEMMA RangesFacts ==
  ASSUME NEW cond \in Criteria, "sub" \notin DOMAIN cond, Drives(cond)
  PROVE  /\ Ranges(cond) \in Seq(RangeType)
         /\ \/ /\ "direct" \in DOMAIN cond /\ cond.direct \in Int
               /\ Ranges(cond) = <<Point(cond.direct)>>
            \/ /\ DOMAIN cond = {"ops"} /\ Ins(cond) = {}
               /\ Ranges(cond) = <<[lo |-> Lower(cond.ops), hi |-> Upper(cond.ops)]>>
            \/ /\ DOMAIN cond = {"ops"} /\ Ins(cond) # {}
               /\ InValues(cond) \in Seq(Int) /\ Min(Ins(cond)) \in Ins(cond)
               /\ \E values \in Seq(Int) :
                    /\ ToSet(values) = ToSet(InValues(cond)) /\ Ordered(values, LessThan)
                    /\ Ranges(cond) = [i \in 1..Len(values) |-> Point(values[i])]
<1>1. CASE DOMAIN cond = {"direct"} /\ cond.direct \in Int
  <2>1. Ranges(cond) = <<Point(cond.direct)>>
    BY <1>1 DEF Ranges
  <2>2. Point(cond.direct) \in RangeType
    BY <1>1, PointFacts
  <2>3. <<Point(cond.direct)>> \in Seq(RangeType)
    BY <2>2
  <2> QED
    BY <1>1, <2>1, <2>3
<1>2. CASE DOMAIN cond = {"ops"} /\ IsList(cond.ops) /\ \A i \in DOMAIN cond.ops : TypedOp(cond.ops[i])
  <2>0. "direct" \notin DOMAIN cond
    BY <1>2
  <2>1. CASE Ins(cond) = {}
    <3> DEFINE range == [lo |-> Lower(cond.ops), hi |-> Upper(cond.ops)]
    <3>1. Ranges(cond) = <<range>>
      BY <2>0, <2>1 DEF Ranges
    <3>2. Lower(cond.ops) \in Bound
      <4>1. ASSUME NEW b \in LowerBounds(cond.ops), b # Unbounded PROVE b \in Bound
        <5>1. PICK i \in DOMAIN cond.ops :
                /\ cond.ops[i].op \in {"$eq", "$gt", "$gte"}
                /\ b = [value |-> cond.ops[i].arg, incl |-> cond.ops[i].op # "$gt"]
          BY <4>1 DEF LowerBounds
        <5>2. cond.ops[i].arg \in Int
          BY <1>2, <5>1 DEF TypedOp
        <5>3. (cond.ops[i].op # "$gt") \in BOOLEAN
          OBVIOUS
        <5> QED
          BY <5>1, <5>2, <5>3 DEF Bound
      <4>2. Unbounded \in Bound
        BY DEF Bound
      <4> QED
        BY <1>2, <4>1, <4>2, LowerIsBound
    <3>3. Upper(cond.ops) \in Bound
      <4>1. ASSUME NEW b \in UpperBounds(cond.ops), b # Unbounded PROVE b \in Bound
        <5>1. PICK i \in DOMAIN cond.ops :
                /\ cond.ops[i].op \in {"$eq", "$lt", "$lte"}
                /\ b = [value |-> cond.ops[i].arg, incl |-> cond.ops[i].op # "$lt"]
          BY <4>1 DEF UpperBounds
        <5>2. cond.ops[i].arg \in Int
          BY <1>2, <5>1 DEF TypedOp
        <5>3. (cond.ops[i].op # "$lt") \in BOOLEAN
          OBVIOUS
        <5> QED
          BY <5>1, <5>2, <5>3 DEF Bound
      <4>2. Unbounded \in Bound
        BY DEF Bound
      <4> QED
        BY <1>2, <4>1, <4>2, UpperIsBound
    <3>4. range \in RangeType
      BY <3>2, <3>3 DEF RangeType
    <3>5. <<range>> \in Seq(RangeType)
      <4> HIDE DEF range
      <4> QED
        BY <3>4
    <3> QED
      BY <1>2, <2>1, <3>1, <3>5
  <2>2. CASE Ins(cond) # {}
    <3> DEFINE list == InValues(cond)
               values == Ranked(ToSet(list), LAMBDA v, w : v < w)
    <3>1. Min(Ins(cond)) \in Ins(cond)
      <4>1. Ins(cond) \subseteq Nat
        BY <1>2 DEF Ins, IsList
      <4>2. \E i \in Ins(cond) : \A m \in Ins(cond) : i <= m
        BY <2>2, <4>1, Least, Zenon
      <4> QED
        BY <4>2 DEF Min
    <3>2. list \in Seq(Int)
      <4>1. /\ Min(Ins(cond)) \in DOMAIN cond.ops
            /\ cond.ops[Min(Ins(cond))].op = "$in"
        BY <3>1 DEF Ins
      <4>2. cond.ops[Min(Ins(cond))].list # NotArray
        BY <2>0, <4>1 DEF Drives
      <4> QED
        BY <1>2, <4>1, <4>2 DEF TypedOp, InValues
    <3>3. Ranges(cond) = [i \in DOMAIN values |-> Point(values[i])]
      BY <2>0, <2>2 DEF Ranges
    <3> HIDE DEF list
    <3>4. /\ values \in Seq(Int) /\ ToSet(values) = ToSet(list)
          /\ Ordered(values, LessThan)
      BY <3>2, InListSorted
    <3> HIDE DEF values
    <3>5. DOMAIN values = 1..Len(values) /\ Len(values) \in Nat
      BY <3>4
    <3>6. Ranges(cond) = [i \in 1..Len(values) |-> Point(values[i])]
      BY <3>3, <3>5
    <3>7. Ranges(cond) \in Seq(RangeType)
      <4>1. \A i \in 1..Len(values) : Point(values[i]) \in RangeType
        BY <3>4, PointFacts
      <4>2. Ranges(cond) \in [1..Len(values) -> RangeType]
        BY <3>6, <4>1
      <4> QED
        BY <3>5, <4>2
    <3> QED
      BY <1>2, <2>2, <3>1, <3>2, <3>4, <3>6, <3>7 DEF list
  <2> QED
    BY <2>1, <2>2
<1> QED
  BY <1>1, <1>2, CriterionKinds

(* A value that meets the condition lies in one of its ranges.             *)
LEMMA MatchInRange ==
  ASSUME NEW cond \in Criteria, "sub" \notin DOMAIN cond, Drives(cond),
         NEW x \in Int \cup {Missing}, x \in Met(Meets, cond)
  PROVE  \E i \in DOMAIN Ranges(cond) :
           Inside(IF x = Missing THEN Null ELSE x, Ranges(cond)[i])
<1> DEFINE w == IF x = Missing THEN Null ELSE x
<1>0. w \in Int
  BY RankAssumption
<1>1. CASE /\ "direct" \in DOMAIN cond /\ cond.direct \in Int
           /\ Ranges(cond) = <<Point(cond.direct)>>
  <2>1. x # Missing /\ x = cond.direct
    <3>0. "ops" \notin DOMAIN cond
      BY <1>1, CriterionKinds
    <3>1. Met(Meets, cond) = {y \in Presents : y # Missing /\ y = cond.direct}
      BY <1>1, <3>0 DEF Met
    <3> QED
      BY <3>1
  <2>2. Inside(w, Point(cond.direct))
    BY <1>0, <1>1, <2>1, PointFacts
  <2>3. 1 \in DOMAIN Ranges(cond) /\ Ranges(cond)[1] = Point(cond.direct)
    BY <1>1
  <2> QED
    BY <2>2, <2>3
<1>2. CASE /\ DOMAIN cond = {"ops"} /\ Ins(cond) = {}
           /\ Ranges(cond) = <<[lo |-> Lower(cond.ops), hi |-> Upper(cond.ops)]>>
  <2> DEFINE range == [lo |-> Lower(cond.ops), hi |-> Upper(cond.ops)]
  <2>1. IsList(cond.ops) /\ \A i \in DOMAIN cond.ops : TypedOp(cond.ops[i])
    BY <1>2, CriterionKinds
  <2>2. \A i \in DOMAIN cond.ops : OpMatch(Meets, x, cond.ops[i])
    BY <1>2 DEF Met
  <2>3. Lower(cond.ops) = Unbounded \/ Lower(cond.ops).value < w
          \/ (Lower(cond.ops).incl /\ Lower(cond.ops).value = w)
    <3>1. CASE Lower(cond.ops) = Unbounded
      BY <3>1
    <3>2. CASE Lower(cond.ops) # Unbounded
      <4>1. PICK i \in DOMAIN cond.ops :
              /\ cond.ops[i].op \in {"$eq", "$gt", "$gte"}
              /\ Lower(cond.ops) = [value |-> cond.ops[i].arg, incl |-> cond.ops[i].op # "$gt"]
        BY <2>1, <3>2, LowerIsBound DEF LowerBounds
      <4>2. OpMatch(Meets, x, cond.ops[i]) /\ cond.ops[i].arg \in Int
        BY <2>1, <2>2, <4>1 DEF TypedOp
      <4>0. /\ Lower(cond.ops).value = cond.ops[i].arg
            /\ Lower(cond.ops).incl = (cond.ops[i].op # "$gt")
        BY <4>1
      <4>3. CASE cond.ops[i].op = "$eq"
        <5>1. w = cond.ops[i].arg
          BY <4>2, <4>3 DEF OpMatch
        <5> QED
          BY <4>0, <4>3, <5>1
      <4>4. CASE cond.ops[i].op = "$gt"
        <5>1. x # Missing /\ x > cond.ops[i].arg
          BY <4>2, <4>4 DEF OpMatch
        <5> QED
          BY <4>1, <4>2, <5>1
      <4>5. CASE cond.ops[i].op = "$gte"
        <5>1. x # Missing /\ x >= cond.ops[i].arg
          BY <4>2, <4>5 DEF OpMatch
        <5>2. x \in Int /\ w = x
          BY <5>1
        <5>3. cond.ops[i].arg < w \/ cond.ops[i].arg = w
          BY <4>2, <5>1, <5>2
        <5>4. Lower(cond.ops).incl = TRUE
          BY <4>0, <4>5
        <5> HIDE DEF w
        <5> QED
          BY <4>0, <5>3, <5>4
      <4> QED
        BY <4>1, <4>3, <4>4, <4>5
    <3> QED
      BY <3>1, <3>2
  <2>4. Upper(cond.ops) = Unbounded \/ w < Upper(cond.ops).value
          \/ (Upper(cond.ops).incl /\ w = Upper(cond.ops).value)
    <3>1. CASE Upper(cond.ops) = Unbounded
      BY <3>1
    <3>2. CASE Upper(cond.ops) # Unbounded
      <4>1. PICK i \in DOMAIN cond.ops :
              /\ cond.ops[i].op \in {"$eq", "$lt", "$lte"}
              /\ Upper(cond.ops) = [value |-> cond.ops[i].arg, incl |-> cond.ops[i].op # "$lt"]
        BY <2>1, <3>2, UpperIsBound DEF UpperBounds
      <4>2. OpMatch(Meets, x, cond.ops[i]) /\ cond.ops[i].arg \in Int
        BY <2>1, <2>2, <4>1 DEF TypedOp
      <4>0. /\ Upper(cond.ops).value = cond.ops[i].arg
            /\ Upper(cond.ops).incl = (cond.ops[i].op # "$lt")
        BY <4>1
      <4>3. CASE cond.ops[i].op = "$eq"
        <5>1. w = cond.ops[i].arg
          BY <4>2, <4>3 DEF OpMatch
        <5> QED
          BY <4>0, <4>3, <5>1
      <4>4. CASE cond.ops[i].op = "$lt"
        <5>1. x # Missing /\ x < cond.ops[i].arg
          BY <4>2, <4>4 DEF OpMatch
        <5> QED
          BY <4>1, <4>2, <5>1
      <4>5. CASE cond.ops[i].op = "$lte"
        <5>1. x # Missing /\ x <= cond.ops[i].arg
          BY <4>2, <4>5 DEF OpMatch
        <5>2. x \in Int /\ w = x
          BY <5>1
        <5>3. w < cond.ops[i].arg \/ w = cond.ops[i].arg
          BY <4>2, <5>1, <5>2
        <5>4. Upper(cond.ops).incl = TRUE
          BY <4>0, <4>5
        <5> HIDE DEF w
        <5> QED
          BY <4>0, <5>3, <5>4
      <4> QED
        BY <4>1, <4>3, <4>4, <4>5
    <3> QED
      BY <3>1, <3>2
  <2>5. Inside(w, range)
    <3>1. range.lo = Lower(cond.ops) /\ range.hi = Upper(cond.ops)
      OBVIOUS
    <3> HIDE DEF range, w
    <3> QED
      BY <2>3, <2>4, <3>1 DEF Inside
  <2>6. 1 \in DOMAIN Ranges(cond) /\ Ranges(cond)[1] = range
    BY <1>2
  <2> HIDE DEF range
  <2> QED
    BY <2>5, <2>6
<1>3. CASE /\ DOMAIN cond = {"ops"} /\ Ins(cond) # {}
           /\ InValues(cond) \in Seq(Int) /\ Min(Ins(cond)) \in Ins(cond)
           /\ \E values \in Seq(Int) :
                /\ ToSet(values) = ToSet(InValues(cond)) /\ Ordered(values, LessThan)
                /\ Ranges(cond) = [i \in 1..Len(values) |-> Point(values[i])]
  <2>1. PICK values \in Seq(Int) :
          /\ ToSet(values) = ToSet(InValues(cond))
          /\ Ranges(cond) = [i \in 1..Len(values) |-> Point(values[i])]
    BY <1>3
  <2> DEFINE o == cond.ops[Min(Ins(cond))]
  <2>2. OpMatch(Meets, x, o) /\ o.op = "$in"
    <3>1. Min(Ins(cond)) \in DOMAIN cond.ops /\ o.op = "$in"
      BY <1>3 DEF Ins
    <3>2. \A i \in DOMAIN cond.ops : OpMatch(Meets, x, cond.ops[i])
      BY <1>3 DEF Met
    <3> QED
      BY <3>1, <3>2
  <2>3. InList(x, o.list)
    <3> HIDE DEF o
    <3> QED
      BY <2>2 DEF OpMatch
  <2>4. w \in ToSet(values)
    <3>1. ToSet(values) = ToSet(o.list)
      BY <2>1 DEF InValues
    <3> HIDE DEF o
    <3> QED
      BY <2>3, <3>1 DEF InList
  <2>5. PICK i \in 1..Len(values) : values[i] = w
    <3> HIDE DEF w
    <3> QED
      BY <2>4, SeqElements
  <2>6. i \in DOMAIN Ranges(cond) /\ Ranges(cond)[i] = Point(w)
    <3> HIDE DEF w
    <3> QED
      BY <2>1, <2>5
  <2>7. Inside(w, Point(w))
    <3> HIDE DEF w
    <3> QED
      BY <1>0, PointFacts
  <2> HIDE DEF w
  <2> QED
    BY <2>6, <2>7 DEF w
<1> QED
  BY <1>1, <1>2, <1>3, RangesFacts

-----------------------------------------------------------------------------
(* What the index holds of the documents.                                  *)

(* The documents in the order of an index.                                 *)
ByIndex(f) ==
  {p \in (DOMAIN docs) \X (DOMAIN docs) : Before(Entry(docs, p[1], f), Entry(docs, p[2], f))}

(* It is a strict total order, for no two documents have the same entry.   *)
LEMMA ByIndexOrders ==
  ASSUME FieldInv, NEW f \in DOMAIN fields
  PROVE  StrictOn(ByIndex(f), DOMAIN docs) /\ TotalOn(ByIndex(f), DOMAIN docs)
<1> DEFINE E(id) == Entry(docs, id, f)
           R == ByIndex(f)
<1>1. \A id \in DOMAIN docs : E(id) \in EntryType
  BY EntryTyped DEF FieldInv, DocsOK, FieldsOK
<1>2. \A x, y \in DOMAIN docs : <<x, y>> \in R <=> Before(E(x), E(y))
  <2>1. R = {p \in (DOMAIN docs) \X (DOMAIN docs) : Before(E(p[1]), E(p[2]))}
    BY DEF ByIndex
  <2> HIDE DEF E, R
  <2>2. ASSUME NEW x \in DOMAIN docs, NEW y \in DOMAIN docs
        PROVE  <<x, y>> \in R <=> Before(E(x), E(y))
    <3>1. <<x, y>> \in (DOMAIN docs) \X (DOMAIN docs) /\ <<x, y>>[1] = x /\ <<x, y>>[2] = y
      OBVIOUS
    <3> QED
      BY <2>1, <3>1
  <2> QED
    BY <2>2
<1>3. \A x, y \in DOMAIN docs : E(x) = E(y) => x = y
  <2>1. \A x : E(x).id = x
    BY DEF Entry
  <2> HIDE DEF E
  <2> QED
    BY <2>1
<1> HIDE DEF E, R
<1>4. StrictOn(R, DOMAIN docs)
  <2>1. ASSUME NEW x \in DOMAIN docs PROVE <<x, x>> \notin R
    BY <1>1, <1>2, BeforeIsOrder
  <2>2. ASSUME NEW x \in DOMAIN docs, NEW y \in DOMAIN docs, NEW z \in DOMAIN docs,
               <<x, y>> \in R, <<y, z>> \in R
        PROVE  <<x, z>> \in R
    <3>1. Before(E(x), E(y)) /\ Before(E(y), E(z))
      BY <1>2, <2>2
    <3>2. E(x) \in EntryType /\ E(y) \in EntryType /\ E(z) \in EntryType
      BY <1>1
    <3>3. Before(E(x), E(z))
      BY <3>1, <3>2, BeforeIsOrder
    <3> QED
      BY <1>2, <3>3
  <2> QED
    BY <2>1, <2>2 DEF StrictOn
<1>5. TotalOn(R, DOMAIN docs)
  <2> SUFFICES ASSUME NEW x \in DOMAIN docs, NEW y \in DOMAIN docs, x # y
               PROVE  <<x, y>> \in R \/ <<y, x>> \in R
    BY DEF TotalOn
  <2>1. E(x) \in EntryType /\ E(y) \in EntryType /\ E(x) # E(y)
    BY <1>1, <1>3
  <2>2. Before(E(x), E(y)) \/ Before(E(y), E(x))
    BY <2>1, BeforeIsOrder
  <2> QED
    BY <1>2, <2>2
<1> QED
  BY <1>4, <1>5 DEF R

(* Each place holds a document's entry, and each document has a place.     *)
LEMMA PlacesOfIndex ==
  ASSUME FieldInv, NEW f \in DOMAIN fields
  PROVE  /\ fields[f] \in Seq(EntryType) /\ Sorted(fields[f])
         /\ \A k \in 1..Len(fields[f]) :
              /\ fields[f][k].id \in DOMAIN docs
              /\ fields[f][k] = Entry(docs, fields[f][k].id, f)
              /\ fields[f][k].value = IndexValue(docs, fields[f][k].id, f)
              /\ fields[f][k].value \in Int
         /\ \A id \in DOMAIN docs : \E k \in 1..Len(fields[f]) : fields[f][k].id = id
<1> DEFINE entries == fields[f]
<1>1. /\ entries \in Seq(EntryType) /\ Sorted(entries)
      /\ ToSet(entries) = {Entry(docs, id, f) : id \in DOMAIN docs}
  BY DEF FieldInv, FieldsOK, Indexes
<1> HIDE DEF entries
<1>2. \A id : Entry(docs, id, f).id = id /\ Entry(docs, id, f).value = IndexValue(docs, id, f)
  BY DEF Entry
<1>3. ASSUME NEW k \in 1..Len(entries)
      PROVE  /\ entries[k].id \in DOMAIN docs
             /\ entries[k] = Entry(docs, entries[k].id, f)
             /\ entries[k].value = IndexValue(docs, entries[k].id, f)
             /\ entries[k].value \in Int
  <2>1. entries[k] \in ToSet(entries) /\ entries[k] \in EntryType
    BY <1>1, SeqElements
  <2>2. PICK id \in DOMAIN docs : entries[k] = Entry(docs, id, f)
    BY <1>1, <2>1
  <2>3. entries[k].value \in Int
    BY <2>1 DEF EntryType
  <2> QED
    BY <1>2, <2>2, <2>3
<1>4. ASSUME NEW id \in DOMAIN docs PROVE \E k \in 1..Len(entries) : entries[k].id = id
  <2>1. Entry(docs, id, f) \in ToSet(entries)
    BY <1>1
  <2>2. PICK k \in 1..Len(entries) : entries[k] = Entry(docs, id, f)
    BY <1>1, <2>1, SeqElements
  <2> QED
    BY <1>2, <2>2
<1> QED
  BY <1>1, <1>3, <1>4 DEF entries

(* The places whose values lie in a range are those between the two ends   *)
(* the bounds give; the ends cross only when the bounds do.                *)
LEMMA PlacesOfRange ==
  ASSUME NEW entries \in Seq(EntryType), Sorted(entries), NEW range \in RangeType
  PROVE  LET s == LowerIndex(entries, range.lo)
             e == UpperIndex(entries, range.hi)
         IN  /\ s \in 0..Len(entries) /\ e \in 0..Len(entries)
             /\ \A p \in 1..Len(entries) :
                  Inside(entries[p].value, range) <=> s < p /\ p <= e
             /\ s > e => CrossedRange(range)
<1> DEFINE s == LowerIndex(entries, range.lo)
           e == UpperIndex(entries, range.hi)
           lo == range.lo
           hi == range.hi
           v(p) == entries[p].value
<1>0. Len(entries) \in Nat /\ \A p \in 1..Len(entries) : v(p) \in Int
  <2>1. \A p \in 1..Len(entries) : entries[p] \in EntryType
    OBVIOUS
  <2> QED
    BY <2>1 DEF EntryType
<1>1. /\ s \in 0..Len(entries)
      /\ \A p \in 1..Len(entries) :
           s < p <=> lo = Unbounded \/ lo.value < v(p) \/ (lo.incl /\ lo.value = v(p))
  <2>1. CASE lo = Unbounded
    <3>1. s = 0
      BY <2>1 DEF LowerIndex
    <3> HIDE DEF s, lo
    <3> QED
      BY <1>0, <2>1, <3>1
  <2>2. CASE lo # Unbounded
    <3>1. lo.value \in Int /\ lo.incl \in BOOLEAN
      BY <2>2, BoundTyped
    <3> DEFINE a == Cardinality({p \in DOMAIN entries : entries[p].value < lo.value})
               b == Cardinality({p \in DOMAIN entries : entries[p].value <= lo.value})
    <3>2. /\ a \in 0..Len(entries) /\ b \in 0..Len(entries)
          /\ \A p \in 1..Len(entries) : v(p) < lo.value <=> p <= a
          /\ \A p \in 1..Len(entries) : v(p) <= lo.value <=> p <= b
      <4> HIDE DEF lo
      <4> QED
        BY <3>1, RunOfValue
    <3>3. s = IF lo.incl THEN a ELSE b
      BY <2>2 DEF LowerIndex, PartitionPoint
    <3> HIDE DEF s, a, b, lo, v
    <3> QED
      BY <1>0, <2>2, <3>1, <3>2, <3>3
  <2> QED
    BY <2>1, <2>2
<1>2. /\ e \in 0..Len(entries)
      /\ \A p \in 1..Len(entries) :
           p <= e <=> hi = Unbounded \/ v(p) < hi.value \/ (hi.incl /\ v(p) = hi.value)
  <2>1. CASE hi = Unbounded
    <3>1. e = Len(entries)
      BY <2>1 DEF UpperIndex
    <3> HIDE DEF e, hi
    <3> QED
      BY <1>0, <2>1, <3>1
  <2>2. CASE hi # Unbounded
    <3>1. hi.value \in Int /\ hi.incl \in BOOLEAN
      BY <2>2, BoundTyped
    <3> DEFINE a == Cardinality({p \in DOMAIN entries : entries[p].value < hi.value})
               b == Cardinality({p \in DOMAIN entries : entries[p].value <= hi.value})
    <3>2. /\ a \in 0..Len(entries) /\ b \in 0..Len(entries)
          /\ \A p \in 1..Len(entries) : v(p) < hi.value <=> p <= a
          /\ \A p \in 1..Len(entries) : v(p) <= hi.value <=> p <= b
      <4> HIDE DEF hi
      <4> QED
        BY <3>1, RunOfValue
    <3>3. e = IF hi.incl THEN b ELSE a
      BY <2>2 DEF UpperIndex, PartitionPoint
    <3> HIDE DEF e, a, b, hi, v
    <3> QED
      BY <1>0, <2>2, <3>1, <3>2, <3>3
  <2> QED
    BY <2>1, <2>2
<1>3. /\ lo # Unbounded => lo.value \in Int /\ lo.incl \in BOOLEAN
      /\ hi # Unbounded => hi.value \in Int /\ hi.incl \in BOOLEAN
  BY BoundTyped
<1> HIDE DEF s, e
<1>4. \A p \in 1..Len(entries) : Inside(v(p), range) <=> s < p /\ p <= e
  BY <1>1, <1>2 DEF Inside
<1>5. s > e => CrossedRange(range)
  <2> SUFFICES ASSUME s > e PROVE CrossedRange(range)
    OBVIOUS
  <2>1. s \in 1..Len(entries) /\ ~(s < s) /\ ~(s <= e)
    BY <1>0, <1>1, <1>2
  <2>2. v(s) \in Int
    BY <1>0, <2>1
  <2>3. ~(lo = Unbounded \/ lo.value < v(s) \/ (lo.incl /\ lo.value = v(s)))
    BY <1>1, <2>1
  <2>4. ~(hi = Unbounded \/ v(s) < hi.value \/ (hi.incl /\ v(s) = hi.value))
    BY <1>2, <2>1
  <2>5. CrossedRange([lo |-> lo, hi |-> hi])
    <3> HIDE DEF lo, hi, v
    <3> QED
      BY <1>3, <2>2, <2>3, <2>4 DEF CrossedRange
  <2>6. range = [lo |-> lo, hi |-> hi]
    BY DEF RangeType
  <2> QED
    BY <2>5, <2>6
<1> QED
  BY <1>1, <1>2, <1>4, <1>5 DEF s, e

(* A range fetches, in index order, the documents whose values lie in it,  *)
(* unless its bounds are crossed and the slice panics.                     *)
LEMMA RangeFetched ==
  ASSUME FieldInv, NEW f \in DOMAIN fields, NEW range \in RangeType
  PROVE  LET ids == IdsRange(fields[f], range) IN
         \/ ids = Panic /\ CrossedRange(range)
         \/ /\ ids # Panic /\ ids \in Seq(DOMAIN docs)
            /\ ToSet(ids) = {id \in DOMAIN docs : Inside(IndexValue(docs, id, f), range)}
            /\ Ordered(ids, ByIndex(f))
<1> DEFINE entries == fields[f]
           s == LowerIndex(entries, range.lo)
           e == UpperIndex(entries, range.hi)
           q == [k \in 1..(e - s) |-> entries[s + k].id]
           ids == IdsRange(entries, range)
<1>1. /\ entries \in Seq(EntryType) /\ Sorted(entries)
      /\ \A k \in 1..Len(entries) :
           /\ entries[k].id \in DOMAIN docs
           /\ entries[k] = Entry(docs, entries[k].id, f)
           /\ entries[k].value = IndexValue(docs, entries[k].id, f)
           /\ entries[k].value \in Int
      /\ \A id \in DOMAIN docs : \E k \in 1..Len(entries) : entries[k].id = id
  BY PlacesOfIndex
<1> HIDE DEF entries
<1>2. /\ s \in 0..Len(entries) /\ e \in 0..Len(entries) /\ Len(entries) \in Nat
      /\ \A p \in 1..Len(entries) :
           Inside(entries[p].value, range) <=> s < p /\ p <= e
      /\ s > e => CrossedRange(range)
  BY <1>1, PlacesOfRange
<1>3. ids = IF s > e THEN Panic ELSE q
  BY DEF IdsRange
<1> HIDE DEF s, e, ids
<1>4. CASE s > e
  BY <1>2, <1>3, <1>4 DEF ids, entries
<1>5. CASE ~(s > e)
  <2>1. \A k \in 1..(e - s) : s + k \in 1..Len(entries)
    BY <1>2, <1>5
  <2>2. q \in [1..(e - s) -> DOMAIN docs] /\ e - s \in Nat
    BY <1>1, <1>2, <1>5, <2>1
  <2>3. q \in Seq(DOMAIN docs) /\ Len(q) = e - s
    <3> HIDE DEF q
    <3> QED
      BY <2>2
  <2>4. q # Panic
    <3>1. DOMAIN docs \subseteq Int
      BY RankAssumption DEF FieldInv, DocsOK
    <3>2. q \in [1..(e - s) -> Int]
      BY <2>2, <3>1
    <3> HIDE DEF q
    <3>3. q \in Seq(Int)
      BY <2>2, <3>2
    <3> QED
      BY <3>3, QueryAssumption
  <2>5. \A k \in 1..(e - s) : q[k] = entries[s + k].id
    OBVIOUS
  <2> HIDE DEF q
  <2>6. ASSUME NEW id \in ToSet(q)
        PROVE  id \in DOMAIN docs /\ Inside(IndexValue(docs, id, f), range)
    <3>1. PICK k \in 1..(e - s) : q[k] = id
      BY <2>3, SeqElements
    <3>2. s + k \in 1..Len(entries) /\ s < s + k /\ s + k <= e
      BY <1>2, <1>5, <3>1
    <3>3. Inside(entries[s + k].value, range)
      BY <1>2, <3>2
    <3>4. id = entries[s + k].id
      BY <2>5, <3>1
    <3> QED
      BY <1>1, <3>2, <3>3, <3>4
  <2>7. ASSUME NEW id \in DOMAIN docs, Inside(IndexValue(docs, id, f), range)
        PROVE  id \in ToSet(q)
    <3>1. PICK p \in 1..Len(entries) : entries[p].id = id
      BY <1>1
    <3>2. Inside(entries[p].value, range)
      BY <1>1, <2>7, <3>1
    <3>3. s < p /\ p <= e
      BY <1>2, <3>2
    <3>4. p - s \in 1..(e - s) /\ s + (p - s) = p
      BY <1>2, <3>1, <3>3
    <3>5. q[p - s] = id
      BY <2>5, <3>1, <3>4
    <3> QED
      BY <2>3, <3>4, <3>5, SeqElements
  <2>8. Ordered(q, ByIndex(f))
    <3> SUFFICES ASSUME NEW i \in 1..(e - s), NEW j \in 1..(e - s), i < j
                 PROVE  <<q[i], q[j]>> \in ByIndex(f)
      BY <2>3 DEF Ordered
    <3>1. s + i \in 1..Len(entries) /\ s + j \in 1..Len(entries) /\ s + i < s + j
      BY <1>2, <2>1
    <3>2. Before(entries[s + i], entries[s + j])
      BY <1>1, <3>1 DEF Sorted
    <3>3. /\ q[i] \in DOMAIN docs /\ entries[s + i] = Entry(docs, q[i], f)
          /\ q[j] \in DOMAIN docs /\ entries[s + j] = Entry(docs, q[j], f)
      BY <1>1, <2>5, <3>1
    <3>4. Before(Entry(docs, q[i], f), Entry(docs, q[j], f))
      BY <3>2, <3>3
    <3> QED
      BY <3>3, <3>4 DEF ByIndex
  <2>9. ids = q
    BY <1>3, <1>5
  <2> QED
    BY <2>3, <2>4, <2>6, <2>7, <2>8, <2>9 DEF ids, entries
<1> QED
  BY <1>4, <1>5

-----------------------------------------------------------------------------
(* An index-driven stream.                                                 *)

(* The value a document that matches has in the driver's index lies in one *)
(* of the driver's ranges.                                                 *)
LEMMA MatchFetched ==
  ASSUME FieldInv, NEW filter \in Filters, Drivers(filter) # {},
         NEW id \in Matches(filter)
  PROVE  LET d == Driver(filter) IN
         \E i \in DOMAIN Ranges(d.cond) :
           Inside(IndexValue(docs, id, d.key), Ranges(d.cond)[i])
<1> DEFINE d == Driver(filter)
           x == Get(docs, id, d.key)
<1>1. DOMAIN fields \subseteq Fields \cup {IdKey}
  BY DEF FieldInv, FieldsOK
<1>2. /\ d.key \in DOMAIN fields /\ Drives(d.cond)
      /\ d.cond \in Criteria /\ "sub" \notin DOMAIN d.cond
      /\ x \in Met(Meets, d.cond)
  BY <1>1, DriverRequired
<1>3. id \in DOMAIN docs
  BY DEF Matches
<1> HIDE DEF d
<1>4. x \in Int \cup {Missing}
  <2>1. id \in Ids /\ docs[id] \in Bodies
    BY <1>3 DEF FieldInv, DocsOK
  <2>2. CASE d.key = IdKey
    BY <2>1, <2>2, RankAssumption DEF Get
  <2>3. CASE d.key # IdKey
    <3>1. d.key \in Fields
      BY <1>1, <1>2, <2>3
    <3> QED
      BY <2>1, <2>3, <3>1, RankAssumption DEF Get, Bodies
  <2> QED
    BY <2>2, <2>3
<1>5. IndexValue(docs, id, d.key) = IF x = Missing THEN Null ELSE x
  BY DEF IndexValue
<1> HIDE DEF x
<1>6. \E i \in DOMAIN Ranges(d.cond) :
        Inside(IF x = Missing THEN Null ELSE x, Ranges(d.cond)[i])
  BY <1>2, <1>4, MatchInRange
<1> QED
  BY <1>5, <1>6 DEF d

(* Whatever a later range fetches comes later in the index.                *)
LEMMA RangesAscend ==
  ASSUME FieldInv, NEW f \in DOMAIN fields,
         NEW values \in Seq(Int), Ordered(values, LessThan),
         NEW i \in 1..Len(values), NEW j \in 1..Len(values), i < j,
         NEW x \in DOMAIN docs, Inside(IndexValue(docs, x, f), Point(values[i])),
         NEW y \in DOMAIN docs, Inside(IndexValue(docs, y, f), Point(values[j]))
  PROVE  <<x, y>> \in ByIndex(f)
<1>1. values[i] \in Int /\ values[j] \in Int /\ values[i] < values[j]
  BY DEF Ordered, LessThan
<1>2. IndexValue(docs, x, f) \in Int /\ IndexValue(docs, y, f) \in Int
  <2>1. Entry(docs, x, f) \in EntryType /\ Entry(docs, y, f) \in EntryType
    BY EntryTyped DEF FieldInv, DocsOK, FieldsOK
  <2> QED
    BY <2>1 DEF Entry, EntryType
<1>3. IndexValue(docs, x, f) = values[i] /\ IndexValue(docs, y, f) = values[j]
  BY <1>1, <1>2, PointFacts
<1>4. Before(Entry(docs, x, f), Entry(docs, y, f))
  BY <1>1, <1>3 DEF Before, Entry
<1> QED
  BY <1>4 DEF ByIndex

(* An index-driven stream panics only on crossed bounds, which nothing     *)
(* matches; otherwise it holds the matches, in index order.                *)
LEMMA DriverStream ==
  ASSUME FieldInv, NEW filter \in Filters, Drivers(filter) # {}
  PROVE  LET d == Driver(filter) IN
         /\ d.key \in DOMAIN fields
         /\ \/ /\ Stream(filter) = Panic
               /\ Matches(filter) = {} /\ Crossed(d.cond.ops)
            \/ /\ Stream(filter) # Panic /\ Stream(filter) \in Seq(DOMAIN docs)
               /\ ToSet(Stream(filter)) = Matches(filter)
               /\ Ordered(Stream(filter), ByIndex(d.key))
<1> DEFINE d == Driver(filter)
           f == d.key
           ranges == Ranges(d.cond)
           fetched == [i \in DOMAIN ranges |-> IdsRange(fields[f], ranges[i])]
           all == FlattenSeq(fetched)
           D == DOMAIN docs
<1>1. /\ f \in DOMAIN fields /\ Drives(d.cond)
      /\ d.cond \in Criteria /\ "sub" \notin DOMAIN d.cond
  BY DriverRequired DEF FieldInv, FieldsOK
<1>2. Stream(filter) = IF \E i \in DOMAIN fetched : fetched[i] = Panic THEN Panic
                       ELSE Filtered(all, Matches(filter))
  BY DEF Stream
<1>3. \A id \in Matches(filter) :
        \E i \in DOMAIN ranges : Inside(IndexValue(docs, id, f), ranges[i])
  BY MatchFetched
<1>4. /\ ranges \in Seq(RangeType)
      /\ \/ ranges = <<Point(d.cond.direct)>> /\ d.cond.direct \in Int
         \/ ranges = <<[lo |-> Lower(d.cond.ops), hi |-> Upper(d.cond.ops)]>>
         \/ \E values \in Seq(Int) :
              /\ Ordered(values, LessThan)
              /\ ranges = [i \in 1..Len(values) |-> Point(values[i])]
  BY <1>1, RangesFacts
<1>5. Matches(filter) \subseteq D
  BY DEF Matches
<1> HIDE DEF d, f, ranges
<1>6. DOMAIN ranges = 1..Len(ranges) /\ Len(ranges) \in Nat
  BY <1>4
<1>7. \A i \in DOMAIN ranges : fetched[i] = IdsRange(fields[f], ranges[i])
  OBVIOUS
<1>8. ASSUME NEW i \in DOMAIN ranges
      PROVE  \/ fetched[i] = Panic /\ CrossedRange(ranges[i])
             \/ /\ fetched[i] # Panic /\ fetched[i] \in Seq(D)
                /\ ToSet(fetched[i]) = {id \in D : Inside(IndexValue(docs, id, f), ranges[i])}
                /\ Ordered(fetched[i], ByIndex(f))
  <2>1. ranges[i] \in RangeType
    BY <1>4, <1>6
  <2> QED
    BY <1>1, <1>7, <2>1, RangeFetched
<1>9. \A i, j \in DOMAIN ranges : i < j /\ fetched[i] # Panic /\ fetched[j] # Panic =>
        \A x \in ToSet(fetched[i]), y \in ToSet(fetched[j]) : <<x, y>> \in ByIndex(f)
  <2>1. CASE Len(ranges) = 1
    BY <1>6, <2>1
  <2>2. ASSUME NEW values \in Seq(Int), Ordered(values, LessThan),
               ranges = [i \in 1..Len(values) |-> Point(values[i])],
               NEW i \in DOMAIN ranges, NEW j \in DOMAIN ranges, i < j,
               fetched[i] # Panic, fetched[j] # Panic,
               NEW x \in ToSet(fetched[i]), NEW y \in ToSet(fetched[j])
        PROVE  <<x, y>> \in ByIndex(f)
    <3>1. /\ i \in 1..Len(values) /\ ranges[i] = Point(values[i])
          /\ j \in 1..Len(values) /\ ranges[j] = Point(values[j])
      BY <2>2
    <3>2. x \in D /\ Inside(IndexValue(docs, x, f), ranges[i])
      BY <1>8, <2>2
    <3>3. y \in D /\ Inside(IndexValue(docs, y, f), ranges[j])
      BY <1>8, <2>2
    <3> QED
      BY <1>1, <2>2, <3>1, <3>2, <3>3, RangesAscend
  <2>3. \A a : Len(<<a>>) = 1
    OBVIOUS
  <2> HIDE DEF fetched
  <2> QED
    BY <1>4, <2>1, <2>2, <2>3
<1>10. CASE \E i \in DOMAIN fetched : fetched[i] = Panic
  <2>1. PICK i \in DOMAIN ranges : fetched[i] = Panic
    BY <1>10
  <2>2. CrossedRange(ranges[i])
    BY <1>8, <2>1
  <2>3. /\ ranges = <<[lo |-> Lower(d.cond.ops), hi |-> Upper(d.cond.ops)]>>
        /\ i = 1
    <3>1. ~\E v \in Int : ranges[i] = Point(v)
      BY <2>2, PointFacts
    <3>2. CASE ranges = <<Point(d.cond.direct)>> /\ d.cond.direct \in Int
      <4>1. ranges[i] = Point(d.cond.direct)
        BY <3>2
      <4> QED
        BY <3>1, <3>2, <4>1
    <3>3. ASSUME NEW values \in Seq(Int),
                 ranges = [k \in 1..Len(values) |-> Point(values[k])]
          PROVE  FALSE
      <4>1. i \in 1..Len(values)
        BY <3>3
      <4>2. values[i] \in Int /\ ranges[i] = Point(values[i])
        BY <3>3, <4>1
      <4> QED
        BY <3>1, <4>2
    <3>4. ranges = <<[lo |-> Lower(d.cond.ops), hi |-> Upper(d.cond.ops)]>>
      BY <1>4, <3>2, <3>3
    <3> QED
      BY <3>4
  <2> DEFINE range == [lo |-> Lower(d.cond.ops), hi |-> Upper(d.cond.ops)]
  <2>4. DOMAIN ranges = {1} /\ ranges[1] = range
    BY <2>3
  <2>5. Crossed(d.cond.ops)
    <3>1. range.lo = Lower(d.cond.ops) /\ range.hi = Upper(d.cond.ops)
      OBVIOUS
    <3>2. CrossedRange(range)
      BY <2>2, <2>3, <2>4
    <3> HIDE DEF range
    <3> QED
      BY <3>1, <3>2 DEF CrossedRange, Crossed
  <2>6. Matches(filter) = {}
    <3> SUFFICES ASSUME NEW id \in Matches(filter) PROVE FALSE
      OBVIOUS
    <3>1. Inside(IndexValue(docs, id, f), ranges[1])
      BY <1>3, <2>4
    <3>2. IndexValue(docs, id, f) \in Int
      <4>1. Entry(docs, id, f) \in EntryType
        BY <1>1, <1>5, EntryTyped DEF FieldInv, DocsOK, FieldsOK
      <4> QED
        BY <4>1 DEF Entry, EntryType
    <3>3. ranges[1] \in RangeType /\ CrossedRange(ranges[1])
      BY <1>4, <1>6, <2>1, <2>2, <2>3
    <3> QED
      BY <3>1, <3>2, <3>3, NothingInside
  <2>7. Stream(filter) = Panic
    BY <1>2, <1>10
  <2> QED
    BY <1>1, <2>5, <2>6, <2>7 DEF d, f
<1>11. CASE ~\E i \in DOMAIN fetched : fetched[i] = Panic
  <2>1. \A i \in DOMAIN ranges :
          /\ fetched[i] # Panic /\ fetched[i] \in Seq(D)
          /\ ToSet(fetched[i]) = {id \in D : Inside(IndexValue(docs, id, f), ranges[i])}
          /\ Ordered(fetched[i], ByIndex(f))
    BY <1>8, <1>11
  <2>2. fetched \in Seq(Seq(D)) /\ DOMAIN fetched = DOMAIN ranges
    <3>1. fetched \in [1..Len(ranges) -> Seq(D)]
      BY <1>6, <2>1
    <3> HIDE DEF fetched
    <3> QED
      BY <1>6, <3>1
  <2>3. Stream(filter) = Filtered(all, Matches(filter))
    BY <1>2, <1>11
  <2> HIDE DEF fetched, D
  <2>4. /\ all \in Seq(D)
        /\ ToSet(all) = UNION {ToSet(fetched[i]) : i \in DOMAIN fetched}
        /\ Ordered(all, ByIndex(f))
    BY <1>9, <2>1, <2>2, FlattenFacts
  <2>5. Matches(filter) \subseteq ToSet(all)
    <3> SUFFICES ASSUME NEW id \in Matches(filter) PROVE id \in ToSet(all)
      OBVIOUS
    <3>1. PICK i \in DOMAIN ranges : Inside(IndexValue(docs, id, f), ranges[i])
      BY <1>3
    <3>2. id \in ToSet(fetched[i])
      BY <1>5, <2>1, <3>1
    <3> QED
      BY <2>2, <2>4, <3>2
  <2> HIDE DEF all
  <2>6. /\ Stream(filter) \in Seq(D)
        /\ ToSet(Stream(filter)) = Matches(filter)
        /\ Ordered(Stream(filter), ByIndex(f))
    <3> DEFINE M == Matches(filter)
    <3>1. /\ Filtered(all, M) \in Seq(D)
          /\ ToSet(Filtered(all, M)) = ToSet(all) \cap M
          /\ \A R : Ordered(all, R) => Ordered(Filtered(all, M), R)
      BY <2>4, FilteredKeeps
    <3>2. ToSet(all) \cap M = M
      BY <2>5
    <3> HIDE DEF M
    <3>3. Ordered(Filtered(all, M), ByIndex(f))
      BY <2>4, <3>1
    <3>4. Stream(filter) = Filtered(all, M)
      BY <2>3 DEF M
    <3>5. ToSet(Stream(filter)) = M
      BY <3>1, <3>2, <3>4, Zenon
    <3> QED
      BY <3>1, <3>3, <3>4, <3>5 DEF M
  <2>7. Stream(filter) # Panic
    <3>1. D \subseteq Int
      BY RankAssumption DEF FieldInv, DocsOK, D
    <3>2. Stream(filter) \in Seq(Int)
      <4> DEFINE stream == Stream(filter)
      <4>1. stream \in [1..Len(stream) -> D] /\ Len(stream) \in Nat
        <5> HIDE DEF stream
        <5> QED
          BY <2>6 DEF stream
      <4> HIDE DEF stream
      <4>2. stream \in [1..Len(stream) -> Int]
        BY <3>1, <4>1
      <4>3. stream \in Seq(Int)
        BY <4>1, <4>2
      <4> QED
        BY <4>3 DEF stream
    <3> QED
      BY <3>2, QueryAssumption
  <2> QED
    BY <1>1, <2>6, <2>7 DEF d, f, D
<1> QED
  BY <1>10, <1>11

(* A scan visits the matches, each once.                                   *)
LEMMA ScanStream ==
  ASSUME FieldInv, NEW filter \in Filters, Drivers(filter) = {}
  PROVE  /\ Stream(filter) # Panic
         /\ ToSet(Stream(filter)) = Matches(filter) /\ IsInjective(Stream(filter))
<1> DEFINE D == DOMAIN docs
           M == Matches(filter)
           visited == SetToSeq(D)
           stream == Filtered(visited, M)
<1>1. IsFiniteSet(D) /\ D \subseteq Int
  BY RankAssumption DEF FieldInv, DocsOK
<1>2. Stream(filter) = stream
  BY DEF Stream
<1>3. M \subseteq D
  BY DEF Matches
<1>4. /\ visited \in Seq(D) /\ ToSet(visited) = D /\ IsInjective(visited)
  <2> HIDE DEF D
  <2> QED
    BY <1>1, ListsSet
<1> HIDE DEF D, M, visited
<1>5. /\ stream \in Seq(D) /\ ToSet(stream) = ToSet(visited) \cap M
      /\ IsInjective(stream)
  BY <1>4, FilteredKeeps, FilteredInjective
<1> HIDE DEF stream
<1>6. stream \in Seq(Int)
  <2>1. stream \in [1..Len(stream) -> D] /\ Len(stream) \in Nat
    BY <1>5
  <2>2. stream \in [1..Len(stream) -> Int]
    BY <1>1, <2>1
  <2> QED
    BY <2>1, <2>2
<1>7. stream # Panic
  BY <1>6, QueryAssumption
<1>8. ToSet(stream) = M
  BY <1>3, <1>4, <1>5
<1> QED
  BY <1>2, <1>5, <1>7, <1>8 DEF M

(* Whichever indexes exist, after any history of writes and of index       *)
(* creations and drops, a query yields exactly the documents that match,   *)
(* each once, unless crossed bounds, which nothing matches, make it panic. *)
THEOREM QueryPlanMatchesScan == Spec => []PlanMatchesScan
<1>1. FieldInv => PlanMatchesScan
  <2> SUFFICES ASSUME FieldInv, NEW filter \in Filters
               PROVE  LET stream == Stream(filter) IN
                      IF stream = Panic
                      THEN Matches(filter) = {} /\ Crossed(Driver(filter).cond.ops)
                      ELSE ToSet(stream) = Matches(filter) /\ IsInjective(stream)
    BY DEF PlanMatchesScan
  <2>1. CASE Drivers(filter) = {}
    BY <2>1, ScanStream
  <2>2. CASE Drivers(filter) # {}
    <3> DEFINE key == Driver(filter).key
    <3>1. /\ key \in DOMAIN fields
          /\ \/ /\ Stream(filter) = Panic
                /\ Matches(filter) = {} /\ Crossed(Driver(filter).cond.ops)
             \/ /\ Stream(filter) # Panic /\ Stream(filter) \in Seq(DOMAIN docs)
                /\ ToSet(Stream(filter)) = Matches(filter)
                /\ Ordered(Stream(filter), ByIndex(key))
      BY <2>2, DriverStream
    <3>2. StrictOn(ByIndex(key), DOMAIN docs)
      BY <3>1, ByIndexOrders
    <3> HIDE DEF key
    <3>3. Stream(filter) \in Seq(DOMAIN docs) /\ Ordered(Stream(filter), ByIndex(key))
            => IsInjective(Stream(filter))
      BY <3>2, OrderedInjective
    <3> QED
      BY <3>1, <3>3
  <2> QED
    BY <2>1, <2>2
<1> QED
  BY <1>1, FieldInvariant, PTL

(* An index-driven query returns its matches in the order of its index,    *)
(* also when an $in list fetches them value by value.                      *)
THEOREM QueryIndexOrder == Spec => []IndexOrder
<1>1. FieldInv => IndexOrder
  <2> SUFFICES ASSUME FieldInv, NEW filter \in Filters,
                      Drivers(filter) # {}, Stream(filter) # Panic,
                      NEW i \in DOMAIN Stream(filter), NEW j \in DOMAIN Stream(filter), i < j
               PROVE  Before(Entry(docs, Stream(filter)[i], Driver(filter).key),
                             Entry(docs, Stream(filter)[j], Driver(filter).key))
    BY DEF IndexOrder
  <2> DEFINE stream == Stream(filter)
             key == Driver(filter).key
  <2>1. stream \in Seq(DOMAIN docs) /\ Ordered(stream, ByIndex(key))
    BY DriverStream
  <2> HIDE DEF stream, key
  <2>2. i \in 1..Len(stream) /\ j \in 1..Len(stream)
    BY <2>1 DEF stream
  <2>3. <<stream[i], stream[j]>> \in ByIndex(key)
    BY <2>1, <2>2 DEF Ordered
  <2>4. Before(Entry(docs, stream[i], key), Entry(docs, stream[j], key))
    BY <2>3 DEF ByIndex
  <2> QED
    BY <2>4 DEF stream, key
<1> QED
  BY <1>1, FieldInvariant, PTL

-----------------------------------------------------------------------------
(* Sorting.                                                                *)

(* An index lists every document, in its order.                            *)
LEMMA IndexLists ==
  ASSUME FieldInv, NEW f \in DOMAIN fields
  PROVE  LET ids == [k \in 1..Len(fields[f]) |-> fields[f][k].id] IN
         /\ ids \in Seq(DOMAIN docs) /\ Len(ids) = Len(fields[f])
         /\ ToSet(ids) = DOMAIN docs /\ Ordered(ids, ByIndex(f))
<1> DEFINE entries == fields[f]
           ids == [k \in 1..Len(entries) |-> entries[k].id]
<1>1. /\ entries \in Seq(EntryType) /\ Sorted(entries)
      /\ \A k \in 1..Len(entries) :
           /\ entries[k].id \in DOMAIN docs
           /\ entries[k] = Entry(docs, entries[k].id, f)
      /\ \A id \in DOMAIN docs : \E k \in 1..Len(entries) : entries[k].id = id
  BY PlacesOfIndex
<1> HIDE DEF entries
<1>2. /\ ids \in [1..Len(entries) -> DOMAIN docs] /\ Len(entries) \in Nat
      /\ \A k \in 1..Len(entries) : ids[k] = entries[k].id
  BY <1>1
<1> HIDE DEF ids
<1>3. ids \in Seq(DOMAIN docs) /\ Len(ids) = Len(entries)
  BY <1>2
<1>4. ToSet(ids) = DOMAIN docs
  <2>1. ToSet(ids) \subseteq DOMAIN docs
    BY <1>3, SeqElements
  <2>2. ASSUME NEW id \in DOMAIN docs PROVE id \in ToSet(ids)
    <3>1. PICK k \in 1..Len(entries) : ids[k] = id
      BY <1>1, <1>2
    <3> QED
      BY <1>3, <3>1, SeqElements
  <2> QED
    BY <2>1, <2>2
<1>5. Ordered(ids, ByIndex(f))
  <2> SUFFICES ASSUME NEW i \in 1..Len(entries), NEW j \in 1..Len(entries), i < j
               PROVE  <<ids[i], ids[j]>> \in ByIndex(f)
    BY <1>3 DEF Ordered
  <2>1. Before(entries[i], entries[j])
    BY <1>1 DEF Sorted
  <2>2. /\ ids[i] \in DOMAIN docs /\ entries[i] = Entry(docs, ids[i], f)
        /\ ids[j] \in DOMAIN docs /\ entries[j] = Entry(docs, ids[j], f)
    BY <1>1, <1>2
  <2>3. Before(Entry(docs, ids[i], f), Entry(docs, ids[j], f))
    BY <2>1, <2>2
  <2> QED
    BY <2>2, <2>3 DEF ByIndex
<1> QED
  BY <1>3, <1>4, <1>5 DEF ids, entries

(* Sorting the matches gives them in the order of the field's index.       *)
LEMMA MatchesRanked ==
  ASSUME FieldInv, NEW f \in DOMAIN fields, NEW M, M \subseteq DOMAIN docs
  PROVE  LET sorted == Ranked(M, LAMBDA x, y : Before(Entry(docs, x, f), Entry(docs, y, f)))
         IN  /\ sorted \in Seq(DOMAIN docs) /\ ToSet(sorted) = M
             /\ Ordered(sorted, ByIndex(f))
<1> DEFINE E(id) == Entry(docs, id, f)
           R == ByIndex(f)
           sorted == Ranked(M, LAMBDA x, y : Before(Entry(docs, x, f), Entry(docs, y, f)))
<1>1. IsFiniteSet(M)
  BY FS_Subset DEF FieldInv, DocsOK
<1>2. StrictOn(R, M) /\ TotalOn(R, M)
  <2>1. StrictOn(R, DOMAIN docs) /\ TotalOn(R, DOMAIN docs)
    BY ByIndexOrders
  <2>2. \A x \in M : x \in DOMAIN docs
    OBVIOUS
  <2> HIDE DEF R
  <2>3. StrictOn(R, M)
    BY <2>1, <2>2 DEF StrictOn
  <2>4. TotalOn(R, M)
    BY <2>1, <2>2 DEF TotalOn
  <2> QED
    BY <2>3, <2>4
<1>3. sorted = [k \in 1..Cardinality(M) |->
                  CHOOSE x \in M : Cardinality({y \in M : Before(E(y), E(x))}) = k - 1]
  BY DEF Ranked
<1>4. \A x \in M : {y \in M : Before(E(y), E(x))} = Lesser(M, R, x)
  <2>1. \A x, y \in M : <<y, x>> \in R <=> Before(E(y), E(x))
    BY DEF ByIndex
  <2> HIDE DEF E, R
  <2> QED
    BY <2>1 DEF Lesser
<1> HIDE DEF sorted, E, R
<1>5. ASSUME NEW k \in 1..Cardinality(M)
      PROVE  sorted[k] \in M /\ Cardinality(Lesser(M, R, sorted[k])) = k - 1
  <2>1. \A m \in 1..Cardinality(M) :
          \E x \in M : Cardinality(Lesser(M, R, x)) = m - 1
    BY <1>1, <1>2, RankExists
  <2>2. PICK x \in M : Cardinality(Lesser(M, R, x)) = k - 1
    BY <2>1
  <2>3. sorted[k] = CHOOSE z \in M : Cardinality({y \in M : Before(E(y), E(z))}) = k - 1
    BY <1>3
  <2>4. \E z \in M : Cardinality({y \in M : Before(E(y), E(z))}) = k - 1
    BY <1>4, <2>2
  <2>5. sorted[k] \in M /\ Cardinality({y \in M : Before(E(y), E(sorted[k]))}) = k - 1
    BY <2>3, <2>4
  <2> QED
    BY <1>4, <2>5
<1>6. sorted \in [1..Cardinality(M) -> M] /\ Cardinality(M) \in Nat
  BY <1>1, <1>3, <1>5, FS_CardinalityType
<1>7. ToSet(sorted) = M /\ Ordered(sorted, R)
  BY <1>1, <1>2, <1>5, <1>6, RankedOrders
<1>8. sorted \in Seq(DOMAIN docs)
  <2>1. sorted \in [1..Cardinality(M) -> DOMAIN docs]
    BY <1>6
  <2> QED
    BY <1>6, <2>1
<1> QED
  BY <1>7, <1>8 DEF sorted, R

(* Walking the index gives the matches in the order their sort does.       *)
LEMMA WalkIsSort ==
  ASSUME FieldInv, NEW filter, NEW f \in DOMAIN fields, NEW desc \in BOOLEAN
  PROVE  /\ IndexedSort(filter, f, desc) \in Seq(DOMAIN docs)
         /\ IndexedSort(filter, f, desc) = SortedMatches(filter, f, desc)
<1> DEFINE D == DOMAIN docs
           M == Matches(filter)
           R == ByIndex(f)
           n == Len(fields[f])
           ids == [k \in 1..n |-> fields[f][k].id]
           sorted == Ranked(M, LAMBDA x, y : Before(Entry(docs, x, f), Entry(docs, y, f)))
<1>1. M \subseteq D
  BY DEF Matches
<1>2. /\ ids \in Seq(D) /\ Len(ids) = n /\ ToSet(ids) = D /\ Ordered(ids, R)
  BY IndexLists
<1>3. /\ sorted \in Seq(D) /\ ToSet(sorted) = M /\ Ordered(sorted, R)
  <2> HIDE DEF M
  <2> QED
    BY <1>1, MatchesRanked
<1>4. fields[f] \in Seq(EntryType) /\ n \in Nat
  BY PlacesOfIndex
<1>5. StrictOn(R, D)
  BY ByIndexOrders
<1>6. \A k \in 1..n : ids[k] = fields[f][k].id
  OBVIOUS
<1> HIDE DEF D, M, R, ids
<1>7. CASE desc = FALSE
  <2>1. IndexedSort(filter, f, desc) = Filtered(ids, M)
    BY <1>4, <1>7 DEF IndexedSort, ids, M
  <2>2. SortedMatches(filter, f, desc) = sorted
    BY <1>7 DEF SortedMatches, M
  <2> HIDE DEF sorted
  <2>3. /\ Filtered(ids, M) \in Seq(D) /\ ToSet(Filtered(ids, M)) = ToSet(ids) \cap M
        /\ Ordered(Filtered(ids, M), R)
    BY <1>2, FilteredKeeps
  <2>4. ToSet(Filtered(ids, M)) = ToSet(sorted)
    BY <1>1, <1>2, <1>3, <2>3
  <2>5. Filtered(ids, M) = sorted
    BY <1>3, <1>5, <2>3, <2>4, OrderedUnique
  <2> QED
    BY <2>1, <2>2, <2>3, <2>5 DEF D
<1>8. CASE desc = TRUE
  <2> DEFINE back == Reverse(fields[f])
             Q == Converse(R, D)
  <2>1. Len(back) = n /\ back \in Seq(EntryType)
        /\ \A k \in 1..n : back[k] = fields[f][n + 1 - k]
    BY <1>4, ReversedOrdered
  <2>2. /\ Reverse(ids) \in Seq(D) /\ Len(Reverse(ids)) = n /\ ToSet(Reverse(ids)) = D
        /\ \A k \in 1..n : Reverse(ids)[k] = ids[n + 1 - k]
        /\ Ordered(Reverse(ids), Q)
    BY <1>2, ReversedOrdered
  <2>3. [k \in DOMAIN back |-> back[k].id] = Reverse(ids)
    <3>1. DOMAIN back = 1..n /\ DOMAIN Reverse(ids) = 1..n
      BY <2>1, <2>2
    <3> HIDE DEF back, n
    <3>2. \A k \in 1..n : n + 1 - k \in 1..n
      BY <1>4
    <3>3. \A k \in 1..n : back[k].id = Reverse(ids)[k]
      BY <1>6, <2>1, <2>2, <3>2
    <3>4. Reverse(ids) = [k \in 1..n |-> Reverse(ids)[k]]
      BY <2>2, <3>1
    <3> QED
      BY <3>1, <3>3, <3>4
  <2>4. IndexedSort(filter, f, desc) = Filtered(Reverse(ids), M)
    <3>1. IndexedSort(filter, f, desc) = Filtered([k \in DOMAIN back |-> back[k].id], M)
      BY <1>8 DEF IndexedSort, M
    <3> QED
      BY <2>3, <3>1
  <2>5. SortedMatches(filter, f, desc) = Reverse(sorted)
    BY <1>8 DEF SortedMatches, M
  <2> HIDE DEF sorted, back, n
  <2>6. /\ Reverse(sorted) \in Seq(D) /\ ToSet(Reverse(sorted)) = M
        /\ Ordered(Reverse(sorted), Q)
    BY <1>3, ReversedOrdered
  <2>7. /\ Filtered(Reverse(ids), M) \in Seq(D)
        /\ ToSet(Filtered(Reverse(ids), M)) = ToSet(Reverse(ids)) \cap M
        /\ Ordered(Filtered(Reverse(ids), M), Q)
    BY <2>2, FilteredKeeps
  <2>8. StrictOn(Q, D)
    BY <1>5, ConverseStrict
  <2>9. ToSet(Filtered(Reverse(ids), M)) = ToSet(Reverse(sorted))
    BY <1>1, <2>2, <2>6, <2>7
  <2> HIDE DEF Q
  <2>10. Filtered(Reverse(ids), M) = Reverse(sorted)
    BY <2>6, <2>7, <2>8, <2>9, OrderedUnique
  <2> QED
    BY <2>4, <2>5, <2>7, <2>10 DEF D
<1> QED
  BY <1>7, <1>8

-----------------------------------------------------------------------------
(* Pages.                                                                  *)

PageType == [skip : Nat, limit : Nat, want : Nat]

WalkType(X) == [seen : Nat, out : Seq(X), stop : BOOLEAN]

(* So many have been handed on that the walk is over.                      *)
Full(page, m) == (page.want > 0 /\ m >= page.want) \/ (page.limit > 0 /\ m >= page.limit)

(* A walk stays one.                                                       *)
LEMMA EmitTyped ==
  ASSUME NEW X, NEW s \in WalkType(X), NEW id \in X, NEW page \in PageType
  PROVE  Emit(s, id, page) \in WalkType(X)
<1> DEFINE t == Emit(s, id, page)
<1>0. s.seen \in Nat /\ s.out \in Seq(X) /\ s.stop \in BOOLEAN
  BY DEF WalkType
<1>1. CASE s.stop
  BY <1>1 DEF Emit
<1>2. CASE ~s.stop /\ s.seen + 1 <= page.skip
  <2>1. t = [s EXCEPT !.seen = @ + 1]
    BY <1>2 DEF Emit
  <2> QED
    BY <1>0, <2>1 DEF WalkType
<1>3. CASE ~s.stop /\ ~(s.seen + 1 <= page.skip)
  <2> DEFINE full == \/ page.want > 0 /\ Len(s.out) + 1 >= page.want
                     \/ page.limit > 0 /\ Len(s.out) + 1 >= page.limit
  <2>1. t = [seen |-> s.seen + 1, out |-> Append(s.out, id), stop |-> full]
    BY <1>3, Zenon DEF Emit
  <2>2. full \in BOOLEAN
    BY Zenon
  <2> HIDE DEF full
  <2>3. Append(s.out, id) \in Seq(X) /\ s.seen + 1 \in Nat
    BY <1>0
  <2> QED
    BY <2>1, <2>2, <2>3 DEF WalkType
<1> QED
  BY <1>1, <1>2, <1>3

(* Once the walk is over nothing is counted.                               *)
LEMMA EmitOver ==
  ASSUME NEW s, s.stop, NEW id, NEW page
  PROVE  Emit(s, id, page) = s
BY DEF Emit

(* A match among the first `skip` is only counted.                         *)
LEMMA EmitSkips ==
  ASSUME NEW X, NEW s \in WalkType(X), ~s.stop, NEW id, NEW page,
         s.seen + 1 <= page.skip
  PROVE  LET t == Emit(s, id, page) IN
         t.seen = s.seen + 1 /\ t.out = s.out /\ ~t.stop
<1> DEFINE t == Emit(s, id, page)
<1>1. t = [s EXCEPT !.seen = @ + 1]
  BY DEF Emit
<1> HIDE DEF t
<1>2. t.seen = s.seen + 1 /\ t.out = s.out /\ t.stop = s.stop
  BY <1>1 DEF WalkType
<1> QED
  BY <1>2 DEF t

(* A later one is handed on.                                               *)
LEMMA EmitHands ==
  ASSUME NEW s, ~s.stop, NEW id, NEW page, ~(s.seen + 1 <= page.skip)
  PROVE  LET t == Emit(s, id, page) IN
         /\ t.seen = s.seen + 1 /\ t.out = Append(s.out, id)
         /\ t.stop <=> Full(page, Len(s.out) + 1)
<1> DEFINE t == Emit(s, id, page)
           full == \/ page.want > 0 /\ Len(s.out) + 1 >= page.want
                   \/ page.limit > 0 /\ Len(s.out) + 1 >= page.limit
<1>1. t = [seen |-> s.seen + 1, out |-> Append(s.out, id), stop |-> full]
  BY Zenon DEF Emit
<1>2. full <=> Full(page, Len(s.out) + 1)
  BY Zenon DEF Full
<1> HIDE DEF full, t
<1>3. t.seen = s.seen + 1 /\ t.out = Append(s.out, id) /\ t.stop = full
  BY <1>1
<1>4. t.stop <=> Full(page, Len(s.out) + 1)
  BY <1>2, <1>3
<1> QED
  BY <1>3, <1>4 DEF t

(* The walk takes its matches one by one.                                  *)
LEMMA EmittedUnfolds ==
  ASSUME NEW X, NEW q \in Seq(X), NEW page \in PageType
  PROVE  \E walked :
           /\ Emitted(q, page) = walked[Len(q)].out
           /\ walked[0] = Walk
           /\ \A k \in 1..Len(q) : walked[k] = Emit(walked[k - 1], q[k], page)
           /\ \A k \in 0..Len(q) : walked[k] \in WalkType(X)
<1> DEFINE n == Len(q)
           V == WalkType(X)
           step == [p \in V \X (1..n) |-> Emit(p[1], q[p[2]], page)]
<1>1. n \in Nat /\ \A k \in 1..n : q[k] \in X
  OBVIOUS
<1>2. \A v \in V, k \in 1..n : step[<<v, k>>] = Emit(v, q[k], page)
  OBVIOUS
<1>3. ASSUME NEW v \in V, NEW k \in 1..n PROVE Emit(v, q[k], page) \in V
  BY <1>1, EmitTyped
<1>4. Walk \in V
  BY DEF Walk, WalkType
<1> HIDE DEF step, V
<1>5. PICK f : Recursion(f, n, V, Walk, step)
  <2>1. Steps(step, n, V)
    BY <1>2, <1>3 DEF Steps
  <2> HIDE DEF n
  <2> QED
    BY <1>1, <1>4, <2>1, RecursionExists
<1> DEFINE Next1(g, k) == IF k = 0 THEN Walk ELSE Emit(g[k - 1], q[k], page)
           walked == CHOOSE g : g = [k \in 0..n |-> Next1(g, k)]
<1>6. f = [k \in 0..n |-> Next1(f, k)]
  <2>1. \A k \in 1..n : f[k] = Emit(f[k - 1], q[k], page)
    <3>1. \A k \in 1..n : k - 1 \in 0..n
      BY <1>1
    <3> HIDE DEF n
    <3> QED
      BY <1>2, <1>5, <3>1 DEF Recursion
  <2>2. \A k \in 0..n : f[k] = Next1(f, k)
    <3>1. \A k \in 0..n : k = 0 \/ (k # 0 /\ k \in 1..n)
      BY <1>1
    <3>2. f[0] = Walk
      BY <1>5 DEF Recursion
    <3> HIDE DEF n
    <3> QED
      BY <2>1, <3>1, <3>2
  <2>3. f = [k \in 0..n |-> f[k]]
    BY <1>5 DEF Recursion
  <2> HIDE DEF Next1, n
  <2> QED
    BY <2>2, <2>3
<1>7. walked = [k \in 0..n |-> Next1(walked, k)]
  <2> HIDE DEF Next1
  <2> QED
    BY <1>6
<1>8. Emitted(q, page) = walked[n].out
  BY DEF Emitted
<1>9. walked[0] = Walk /\ \A k \in 1..n : walked[k] = Emit(walked[k - 1], q[k], page)
  <2>1. \A k \in 0..n : walked[k] = Next1(walked, k)
    <3> HIDE DEF Next1
    <3> QED
      BY <1>7
  <2>2. 0 \in 0..n /\ \A k \in 1..n : k \in 0..n /\ k # 0
    BY <1>1
  <2> HIDE DEF walked, n
  <2>3. walked[0] = Walk
    BY <2>1, <2>2
  <2>4. ASSUME NEW k \in 1..n PROVE walked[k] = Emit(walked[k - 1], q[k], page)
    <3>1. walked[k] = Next1(walked, k) /\ k # 0
      BY <2>1, <2>2
    <3> QED
      BY <3>1, Zenon
  <2> QED
    BY <2>3, <2>4
<1> HIDE DEF walked
<1> DEFINE T == {k \in Nat : k <= n => walked[k] \in V}
<1>10. 0 \in T
  BY <1>4, <1>9
<1>11. ASSUME NEW k \in Nat, k \in T PROVE k + 1 \in T
  <2> SUFFICES ASSUME k + 1 <= n PROVE walked[k + 1] \in V
    OBVIOUS
  <2>1. k + 1 \in 1..n /\ k + 1 - 1 = k /\ walked[k] \in V
    BY <1>1, <1>11
  <2>2. walked[k + 1] = Emit(walked[k], q[k + 1], page)
    BY <1>9, <2>1
  <2> HIDE DEF n
  <2> QED
    BY <1>3, <2>1, <2>2
<1>12. \A k \in 0..n : walked[k] \in V
  <2>1. Nat \subseteq T
    <3> HIDE DEF T
    <3> QED
      BY <1>10, <1>11, Induction
  <2> QED
    BY <1>1, <2>1
<1> QED
  BY <1>8, <1>9, <1>12 DEF V

(* After k matches s has handed on those after the first `skip`, until the *)
(* walk was over.                                                          *)
Listed(out, k, q, page) ==
  /\ Len(out) = 0 \/ page.skip + Len(out) <= k
  /\ \A i \in 1..Len(out) : out[i] = q[page.skip + i]
  /\ \A i \in 1..(Len(out) - 1) : ~Full(page, i)

Over(out, page) == Len(out) > 0 /\ Full(page, Len(out))

Going(s, k, page) ==
  /\ s.seen = k
  /\ Len(s.out) = IF k <= page.skip THEN 0 ELSE k - page.skip
  /\ Len(s.out) > 0 => ~Full(page, Len(s.out))

HandedOn(s, k, q, page) ==
  /\ Listed(s.out, k, q, page)
  /\ s.stop => Over(s.out, page)
  /\ ~s.stop => Going(s, k, page)

(* It is so at each match.                                                 *)
LEMMA EmitHandsOn ==
  ASSUME NEW X, NEW q \in Seq(X), NEW page \in PageType, NEW s \in WalkType(X),
         NEW k \in Nat, k + 1 \in 1..Len(q), HandedOn(s, k, q, page)
  PROVE  HandedOn(Emit(s, q[k + 1], page), k + 1, q, page)
<1> DEFINE t == Emit(s, q[k + 1], page)
           m == Len(s.out)
<1>0. /\ s.seen \in Nat /\ s.out \in Seq(X) /\ m \in Nat
      /\ q[k + 1] \in X /\ page.skip \in Nat
  BY DEF WalkType, PageType
<1>1. /\ m = 0 \/ page.skip + m <= k
      /\ \A i \in 1..m : s.out[i] = q[page.skip + i]
      /\ \A i \in 1..(m - 1) : ~Full(page, i)
  BY DEF HandedOn, Listed
<1>2. /\ s.stop => Over(s.out, page)
      /\ ~s.stop => Going(s, k, page)
  BY DEF HandedOn
<1>3. CASE s.stop
  <2>1. t = s
    BY <1>3, EmitOver
  <2>2. Listed(s.out, k + 1, q, page)
    BY <1>0, <1>1 DEF Listed
  <2> HIDE DEF t
  <2>3. HandedOn(t, k + 1, q, page)
    BY <1>2, <1>3, <2>1, <2>2 DEF HandedOn
  <2> QED
    BY <2>3 DEF t
<1>4. CASE ~s.stop /\ s.seen + 1 <= page.skip
  <2>1. t.seen = s.seen + 1 /\ t.out = s.out /\ ~t.stop
    BY <1>4, EmitSkips
  <2> HIDE DEF t
  <2>2. s.seen = k /\ m = 0 /\ k + 1 <= page.skip
    BY <1>0, <1>2, <1>4 DEF Going
  <2>3. Listed(t.out, k + 1, q, page)
    BY <2>1, <2>2 DEF Listed
  <2>4. Going(t, k + 1, page)
    BY <2>1, <2>2 DEF Going
  <2>5. HandedOn(t, k + 1, q, page)
    BY <2>1, <2>3, <2>4 DEF HandedOn
  <2> QED
    BY <2>5 DEF t
<1>5. CASE ~s.stop /\ ~(s.seen + 1 <= page.skip)
  <2>1. /\ t.seen = s.seen + 1 /\ t.out = Append(s.out, q[k + 1])
        /\ t.stop <=> Full(page, m + 1)
    BY <1>5, EmitHands
  <2> HIDE DEF t
  <2>2. /\ s.seen = k /\ m + page.skip = k
        /\ m > 0 => ~Full(page, m)
    BY <1>0, <1>2, <1>5 DEF Going
  <2>3. /\ Len(t.out) = m + 1 /\ t.out[m + 1] = q[k + 1]
        /\ \A i \in 1..m : t.out[i] = s.out[i]
    BY <1>0, <2>1
  <2>4. \A i \in 1..(m + 1) : t.out[i] = q[page.skip + i]
    <3> SUFFICES ASSUME NEW i \in 1..(m + 1) PROVE t.out[i] = q[page.skip + i]
      OBVIOUS
    <3>1. CASE i = m + 1
      <4>1. page.skip + i = k + 1
        BY <1>0, <2>2, <3>1
      <4> QED
        BY <2>3, <3>1, <4>1
    <3>2. CASE i # m + 1
      <4>1. i \in 1..m
        BY <1>0, <3>2
      <4> QED
        BY <1>1, <2>3, <4>1
    <3> QED
      BY <3>1, <3>2
  <2>5. \A i \in 1..m : ~Full(page, i)
    <3> SUFFICES ASSUME NEW i \in 1..m PROVE ~Full(page, i)
      OBVIOUS
    <3>1. CASE i = m
      BY <1>0, <2>2, <3>1
    <3>2. CASE i # m
      <4>1. i \in 1..(m - 1)
        BY <1>0, <3>2
      <4> QED
        BY <1>1, <4>1
    <3> QED
      BY <3>1, <3>2
  <2>6. Listed(t.out, k + 1, q, page)
    <3>1. page.skip + (m + 1) <= k + 1 /\ m + 1 - 1 = m
      BY <1>0, <2>2
    <3> QED
      BY <2>3, <2>4, <2>5, <3>1 DEF Listed
  <2>7. t.stop => Over(t.out, page)
    BY <1>0, <2>1, <2>3 DEF Over
  <2>8. ~t.stop => Going(t, k + 1, page)
    <3>1. t.seen = k + 1 /\ m + 1 = IF k + 1 <= page.skip THEN 0 ELSE k + 1 - page.skip
      BY <1>0, <2>1, <2>2
    <3>2. ~t.stop => ~Full(page, m + 1)
      BY <2>1
    <3>3. ~t.stop => ~Full(page, Len(t.out))
      BY <2>3, <3>2
    <3>4. Len(t.out) = IF k + 1 <= page.skip THEN 0 ELSE k + 1 - page.skip
      BY <2>3, <3>1
    <3> QED
      BY <1>0, <3>1, <3>3, <3>4 DEF Going
  <2>9. HandedOn(t, k + 1, q, page)
    BY <2>6, <2>7, <2>8 DEF HandedOn
  <2> QED
    BY <2>9 DEF t
<1> QED
  BY <1>3, <1>4, <1>5

(* What is handed on of any list of matches is the slice of it.            *)
LEMMA EmittedIsSliced ==
  ASSUME NEW X, NEW q \in Seq(X), NEW page \in PageType
  PROVE  Emitted(q, page) = Sliced(q, page)
<1> DEFINE n == Len(q)
<1>0. n \in Nat /\ page.skip \in Nat /\ page.limit \in Nat /\ page.want \in Nat
  BY DEF PageType
<1>1. PICK walked :
        /\ Emitted(q, page) = walked[n].out
        /\ walked[0] = Walk
        /\ \A k \in 1..n : walked[k] = Emit(walked[k - 1], q[k], page)
        /\ \A k \in 0..n : walked[k] \in WalkType(X)
  BY EmittedUnfolds
<1> DEFINE T == {k \in Nat : k <= n => HandedOn(walked[k], k, q, page)}
<1>2. 0 \in T
  <2>1. walked[0].seen = 0 /\ walked[0].out = << >> /\ ~walked[0].stop
    BY <1>1 DEF Walk
  <2>2. Len(<< >>) = 0 /\ 0 <= page.skip
    BY <1>0
  <2> HIDE DEF n
  <2>3. Listed(<< >>, 0, q, page)
    BY <2>2 DEF Listed
  <2>4. Going(walked[0], 0, page)
    BY <2>1, <2>2 DEF Going
  <2>5. HandedOn(walked[0], 0, q, page)
    BY <2>1, <2>3, <2>4 DEF HandedOn
  <2> QED
    BY <2>5
<1>3. ASSUME NEW k \in Nat, k \in T PROVE k + 1 \in T
  <2> SUFFICES ASSUME k + 1 <= n PROVE HandedOn(walked[k + 1], k + 1, q, page)
    OBVIOUS
  <2>1. /\ k + 1 \in 1..n /\ k + 1 - 1 = k /\ k \in 0..n
        /\ HandedOn(walked[k], k, q, page)
    BY <1>0, <1>3
  <2>2. walked[k + 1] = Emit(walked[k], q[k + 1], page) /\ walked[k] \in WalkType(X)
    BY <1>1, <2>1
  <2>3. HandedOn(Emit(walked[k], q[k + 1], page), k + 1, q, page)
    BY <2>1, <2>2, EmitHandsOn
  <2> QED
    BY <2>2, <2>3
<1>4. HandedOn(walked[n], n, q, page)
  <2>1. Nat \subseteq T
    <3> HIDE DEF T
    <3> QED
      BY <1>2, <1>3, Induction
  <2> QED
    BY <1>0, <2>1
<1> DEFINE s == walked[n]
           m == Len(s.out)
           start == IF page.skip <= n THEN page.skip ELSE n
           upto == IF start + page.limit <= n THEN start + page.limit ELSE n
           end == IF page.limit = 0 THEN n ELSE upto
           last == IF page.want = 0 THEN end
                   ELSE IF end <= start + page.want THEN end ELSE start + page.want
<1>5. s.out \in Seq(X) /\ m \in Nat
  <2>1. s \in WalkType(X)
    BY <1>0, <1>1
  <2> QED
    BY <2>1 DEF WalkType
<1>6. Sliced(q, page) = SubSeq(q, start + 1, last)
  BY DEF Sliced
<1> HIDE DEF s
<1>7. /\ m = 0 \/ page.skip + m <= n
      /\ \A i \in 1..m : s.out[i] = q[page.skip + i]
      /\ \A i \in 1..(m - 1) : ~Full(page, i)
  BY <1>4 DEF HandedOn, Listed, s
<1>over. s.stop => m > 0 /\ Full(page, m)
  BY <1>4 DEF HandedOn, Over, s
<1>going. ~s.stop => /\ m = IF n <= page.skip THEN 0 ELSE n - page.skip
                     /\ m > 0 => ~Full(page, m)
  BY <1>4 DEF HandedOn, Going, s
<1>8. m > 1 => ~Full(page, m - 1)
  BY <1>5, <1>7
<1> HIDE DEF n, m
<1>9. last = start + m /\ (m > 0 => start = page.skip)
  <2>1. CASE s.stop
    <3>1. m > 0 /\ page.skip + m <= n /\ Full(page, m)
      BY <1>5, <1>7, <1>over, <2>1
    <3>2. start = page.skip
      BY <1>0, <1>5, <3>1
    <3>3. /\ page.want > 0 => page.want >= m
          /\ page.limit > 0 => page.limit >= m
      BY <1>0, <1>5, <1>8, <3>1 DEF Full
    <3> HIDE DEF start
    <3>4. (page.want > 0 /\ page.want = m) \/ (page.limit > 0 /\ page.limit = m)
      BY <1>0, <1>5, <3>1, <3>3 DEF Full
    <3> QED
      BY <1>0, <1>5, <3>1, <3>2, <3>3, <3>4
  <2>2. CASE ~s.stop
    <3>1. CASE n <= page.skip
      <4>1. m = 0 /\ start = n
        BY <1>0, <1>going, <2>2, <3>1
      <4> HIDE DEF start
      <4> QED
        BY <1>0, <4>1
    <3>2. CASE ~(n <= page.skip)
      <4>1. m = n - page.skip /\ start = page.skip /\ m > 0 /\ ~Full(page, m)
        BY <1>0, <1>going, <2>2, <3>2
      <4>2. /\ page.want > 0 => page.want > m
            /\ page.limit > 0 => page.limit > m
        BY <1>0, <1>5, <4>1 DEF Full
      <4> HIDE DEF start
      <4> QED
        BY <1>0, <1>5, <4>1, <4>2
    <3> QED
      BY <3>1, <3>2
  <2> QED
    BY <1>5, <2>1, <2>2
<1>10. start \in Nat /\ start + m <= n
  BY <1>0, <1>5, <1>7, <1>9
<1> HIDE DEF start, last
<1>11. /\ SubSeq(q, start + 1, last) \in Seq(X)
       /\ Len(SubSeq(q, start + 1, last)) = m
       /\ \A i \in 1..m : SubSeq(q, start + 1, last)[i] = q[start + i]
  <2>1. \A i \in (start + 1)..last : q[i] \in X
    BY <1>0, <1>5, <1>9, <1>10 DEF n
  <2>2. start + 1 \in Int /\ last \in Int /\ last - (start + 1) + 1 = m
    BY <1>5, <1>9, <1>10
  <2>3. /\ SubSeq(q, start + 1, last) \in Seq(X)
        /\ Len(SubSeq(q, start + 1, last)) =
             IF start + 1 <= last THEN last - (start + 1) + 1 ELSE 0
        /\ \A i \in 1..(last - (start + 1) + 1) :
             SubSeq(q, start + 1, last)[i] = q[start + 1 + i - 1]
    BY <2>1, <2>2, SubSeqProperties
  <2>4. Len(SubSeq(q, start + 1, last)) = m
    BY <1>5, <1>9, <1>10, <2>2, <2>3
  <2>5. \A i \in 1..m : start + 1 + i - 1 = start + i
    BY <1>5, <1>10
  <2> QED
    BY <2>2, <2>3, <2>4, <2>5
<1>12. \A i \in 1..m : s.out[i] = SubSeq(q, start + 1, last)[i]
  <2> SUFFICES ASSUME NEW i \in 1..m PROVE s.out[i] = SubSeq(q, start + 1, last)[i]
    OBVIOUS
  <2>1. start = page.skip
    BY <1>5, <1>9
  <2> QED
    BY <1>7, <1>11, <2>1
<1>13. s.out = SubSeq(q, start + 1, last)
  <2>1. Len(s.out) = m
    BY DEF m
  <2> QED
    BY <1>5, <1>11, <1>12, <2>1, SeqEqual
<1> QED
  BY <1>1, <1>6, <1>13 DEF s

(* The same sort, skip and limit return the same documents in the same     *)
(* order whether they walk the field's index or sort the matches.          *)
THEOREM QuerySortAgrees == Spec => []SortAgrees
<1>1. FieldInv => SortAgrees
  <2> SUFFICES ASSUME FieldInv, NEW filter \in SortFilters, NEW f \in DOMAIN fields,
                      NEW desc \in BOOLEAN, NEW page \in Pages
               PROVE  Emitted(IndexedSort(filter, f, desc), page)
                        = Sliced(SortedMatches(filter, f, desc), page)
    BY DEF SortAgrees
  <2>1. page \in PageType
    BY QueryAssumption DEF PageType
  <2>2. /\ IndexedSort(filter, f, desc) \in Seq(DOMAIN docs)
        /\ IndexedSort(filter, f, desc) = SortedMatches(filter, f, desc)
    BY WalkIsSort
  <2> QED
    BY <2>1, <2>2, EmittedIsSliced
<1> QED
  BY <1>1, FieldInvariant, PTL
=============================================================================
