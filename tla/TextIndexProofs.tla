--------------------------- MODULE TextIndexProofs ---------------------------
(***************************************************************************)
(* Proofs about module TextIndex: the arrays of the index stay parallel    *)
(* and its token count is their sum, whatever happens to the posting       *)
(* lists; and the posting lists are exact as long as none has been out of  *)
(* order.                                                                  *)
(***************************************************************************)
EXTENDS TextIndex, StdVecProofs

(* Positions, and frequencies in a posting.                                *)
Positive == Nat \ {0}

Posting == Positive \X Positive

-----------------------------------------------------------------------------
(* Posting lists.                                                          *)

(* The list is exact for the frequencies of its stem in the documents: an  *)
(* entry for each document that has the stem, with its frequency, and no   *)
(* other entry.                                                            *)
ListExact(list, freqs) ==
  /\ list \in Seq(Posting)
  /\ \A p \in 1..Len(list) :
       list[p][1] \in 1..Len(freqs) /\ list[p][2] = freqs[list[p][1]]
  /\ \A i \in 1..Len(freqs) : freqs[i] > 0 => \E p \in 1..Len(list) : list[p][1] = i
  /\ \A p, q \in 1..Len(list) : list[p][1] = list[q][1] => p = q

(* Searching a list for a document.                                        *)
LEMMA SearchList ==
  ASSUME NEW list \in Seq(Posting), NEW key \in Nat
  PROVE  LET p == BinarySearch(DocIdx(list), key) IN
         /\ p \in 0..Len(list)
         /\ p # 0 => list[p][1] = key
         /\ SortedList(list) => (p = 0 <=> \A q \in 1..Len(list) : list[q][1] # key)
<1> DEFINE keys == DocIdx(list)
<1>1. \A p \in 1..Len(list) : list[p] \in Posting /\ list[p][1] \in Nat
  <2>1. \A p \in 1..Len(list) : list[p] \in Posting
    OBVIOUS
  <2> QED
    BY <2>1 DEF Posting, Positive
<1>2. /\ keys \in Seq(Nat) /\ Len(keys) = Len(list)
      /\ \A p \in 1..Len(list) : keys[p] = list[p][1]
  BY <1>1 DEF DocIdx
<1>3. SortedList(list) => \A i, j \in 1..Len(keys) : i < j => keys[i] < keys[j]
  BY <1>2 DEF SortedList
<1> HIDE DEF keys
<1>4. /\ BinarySearch(keys, key) \in 0..Len(keys)
      /\ BinarySearch(keys, key) # 0 => keys[BinarySearch(keys, key)] = key
      /\ (\A i, j \in 1..Len(keys) : i < j => keys[i] < keys[j])
           => (BinarySearch(keys, key) = 0 <=> \A i \in 1..Len(keys) : keys[i] # key)
  BY <1>2, BinarySearchFinds
<1>5. BinarySearch(keys, key) \in 0..Len(list)
  BY <1>2, <1>4
<1>6. BinarySearch(keys, key) # 0 => list[BinarySearch(keys, key)][1] = key
  BY <1>2, <1>4, <1>5
<1>7. SortedList(list) =>
        (BinarySearch(keys, key) = 0 <=> \A q \in 1..Len(list) : list[q][1] # key)
  BY <1>2, <1>3, <1>4
<1> QED
  BY <1>5, <1>6, <1>7 DEF keys

(* Dropping an entry, element by element.                                  *)
DropAt(list, p) == IF p # 0 THEN RemoveAt(list, p) ELSE list

RepointAt(list, p, i) == IF p # 0 THEN [list EXCEPT ![p][1] = i] ELSE list

(* Both keep a list of postings one, in order or not.                      *)
LEMMA ListTypes ==
  ASSUME NEW list \in Seq(Posting), NEW p \in 0..Len(list), NEW i \in Positive
  PROVE  DropAt(list, p) \in Seq(Posting) /\ RepointAt(list, p, i) \in Seq(Posting)
<1>1. DropAt(list, p) \in Seq(Posting)
  <2>1. CASE p = 0
    BY <2>1 DEF DropAt
  <2>2. CASE p # 0
    <3>1. p \in 1..Len(list)
      BY <2>2
    <3> QED
      BY <2>2, <3>1, RemovedAtPlace DEF DropAt
  <2> QED
    BY <2>1, <2>2
<1>2. RepointAt(list, p, i) \in Seq(Posting)
  <2>1. CASE p = 0
    BY <2>1 DEF RepointAt
  <2>2. CASE p # 0
    <3> DEFINE new == [list[p] EXCEPT ![1] = i]
    <3>1. p \in 1..Len(list) /\ list[p] \in Posting
      BY <2>2
    <3>2. new \in Posting
      BY <3>1 DEF Posting
    <3>3. RepointAt(list, p, i) = [list EXCEPT ![p] = new]
      BY <2>2, Zenon DEF RepointAt
    <3> HIDE DEF new
    <3> QED
      BY <3>1, <3>2, <3>3
  <2> QED
    BY <2>1, <2>2
<1> QED
  BY <1>1, <1>2

(* A document is appended.                                                 *)
LEMMA AppendExact ==
  ASSUME NEW freqs \in Seq(Nat), NEW list, ListExact(list, freqs), NEW f \in Nat
  PROVE  ListExact(IF f > 0 THEN Append(list, <<Len(freqs) + 1, f>>) ELSE list,
                   Append(freqs, f))
<1> DEFINE n == Len(freqs)
           m == Len(list)
           e == <<n + 1, f>>
           w == Append(freqs, f)
<1>1. /\ n \in Nat /\ m \in Nat /\ list \in Seq(Posting)
      /\ Len(w) = n + 1 /\ w[n + 1] = f /\ \A i \in 1..n : w[i] = freqs[i]
  BY DEF ListExact
<1>2. /\ \A p \in 1..m : list[p][1] \in 1..n /\ list[p][2] = w[list[p][1]]
      /\ \A i \in 1..n : w[i] > 0 => \E p \in 1..m : list[p][1] = i
      /\ \A p, q \in 1..m : list[p][1] = list[q][1] => p = q
  BY <1>1 DEF ListExact
<1> HIDE DEF w
<1>3. CASE f = 0
  <2>1. \A i \in 1..(n + 1) : w[i] > 0 => i \in 1..n
    BY <1>1, <1>3
  <2> QED
    BY <1>1, <1>2, <1>3, <2>1 DEF ListExact, w
<1>4. CASE f > 0
  <2> DEFINE l == Append(list, e)
  <2>1. e \in Posting /\ e[1] = n + 1 /\ e[2] = f
    BY <1>1, <1>4 DEF Posting, Positive
  <2> HIDE DEF e, n, m
  <2>2. /\ l \in Seq(Posting) /\ Len(l) = m + 1 /\ l[m + 1] = e
        /\ \A p \in 1..m : l[p] = list[p]
    BY <1>1, <2>1 DEF m
  <2> HIDE DEF l
  <2>3. \A p \in 1..(m + 1) : p \in 1..m \/ p = m + 1
    BY <1>1
  <2>4. \A p \in 1..(m + 1) : l[p][1] \in 1..(n + 1) /\ l[p][2] = w[l[p][1]]
    <3> TAKE p \in 1..(m + 1)
    <3>1. CASE p \in 1..m
      <4>1. l[p] = list[p] /\ list[p][1] \in 1..n /\ list[p][2] = w[list[p][1]]
        BY <1>2, <2>2, <3>1
      <4>2. list[p][1] \in 1..(n + 1)
        BY <1>1, <4>1
      <4> QED
        BY <4>1, <4>2
    <3>2. CASE p = m + 1
      <4>1. n + 1 \in 1..(n + 1)
        BY <1>1
      <4> QED
        BY <1>1, <2>1, <2>2, <3>2, <4>1
    <3> QED
      BY <2>3, <3>1, <3>2
  <2>5. \A i \in 1..(n + 1) : w[i] > 0 => \E p \in 1..(m + 1) : l[p][1] = i
    <3> TAKE i \in 1..(n + 1)
    <3> HAVE w[i] > 0
    <3>1. CASE i = n + 1
      <4>1. m + 1 \in 1..(m + 1) /\ l[m + 1][1] = n + 1
        BY <1>1, <2>1, <2>2
      <4> QED
        BY <3>1, <4>1
    <3>2. CASE i # n + 1
      <4>1. i \in 1..n
        BY <1>1, <3>2
      <4>2. PICK p \in 1..m : list[p][1] = i
        BY <1>2, <4>1
      <4> QED
        BY <1>1, <2>2, <4>2
    <3> QED
      BY <3>1, <3>2
  <2>6. \A p, q \in 1..(m + 1) : l[p][1] = l[q][1] => p = q
    <3>1. \A p \in 1..m : l[p][1] # n + 1
      BY <1>1, <1>2, <2>2, SMTT(60)
    <3> QED
      BY <1>2, <2>1, <2>2, <2>3, <3>1, SMTT(60)
  <2>7. ListExact(l, w)
    BY <1>1, <2>2, <2>4, <2>5, <2>6 DEF ListExact
  <2> QED
    BY <1>4, <2>7 DEF l, w, e, n
<1> QED
  BY <1>3, <1>4

(* Exact for the documents other than document i.                          *)
ExactBut(list, freqs, i) ==
  /\ list \in Seq(Posting)
  /\ \A p \in 1..Len(list) :
       list[p][1] \in (1..Len(freqs)) \ {i} /\ list[p][2] = freqs[list[p][1]]
  /\ \A j \in (1..Len(freqs)) \ {i} :
       freqs[j] > 0 => \E p \in 1..Len(list) : list[p][1] = j
  /\ SortedList(list)

Dropping(list, freqs, i) ==
  LET p == BinarySearch(DocIdx(list), i)
  IN  IF freqs[i] > 0 /\ p # 0 THEN RemoveAt(list, p) ELSE list

Repointing(list, freqs, i) ==
  LET p == BinarySearch(DocIdx(list), Len(freqs))
  IN  IF i # Len(freqs) /\ freqs[Len(freqs)] > 0 /\ p # 0
      THEN [list EXCEPT ![p][1] = i] ELSE list

(* The entry of a removed document is found in a list in order.            *)
LEMMA DropExact ==
  ASSUME NEW freqs \in Seq(Nat), NEW list, ListExact(list, freqs), SortedList(list),
         NEW i \in 1..Len(freqs)
  PROVE  ExactBut(Dropping(list, freqs, i), freqs, i)
<1> DEFINE m == Len(list)
           p == BinarySearch(DocIdx(list), i)
<1>1. /\ list \in Seq(Posting) /\ m \in Nat
      /\ \A q \in 1..m : list[q] \in Posting /\ list[q][2] > 0
  <2>1. list \in Seq(Posting) /\ m \in Nat
    BY DEF ListExact
  <2>2. \A q \in 1..m : list[q] \in Posting
    BY <2>1
  <2> QED
    BY <2>1, <2>2 DEF Posting, Positive
<1>2. p \in 0..m /\ (p # 0 => list[p][1] = i)
      /\ (p = 0 <=> \A q \in 1..m : list[q][1] # i)
  <2>1. i \in Nat
    OBVIOUS
  <2> QED
    BY <1>1, <2>1, SearchList
<1>3. /\ \A q \in 1..m : list[q][1] \in 1..Len(freqs) /\ list[q][2] = freqs[list[q][1]]
      /\ \A j \in 1..Len(freqs) : freqs[j] > 0 => \E q \in 1..m : list[q][1] = j
      /\ \A q, r \in 1..m : list[q][1] = list[r][1] => q = r
      /\ \A q, r \in 1..m : q < r => list[q][1] < list[r][1]
  BY <1>1 DEF ListExact, SortedList
<1> HIDE DEF p
<1>4. CASE ~(freqs[i] > 0)
  <2>1. \A q \in 1..m : list[q][1] # i
    BY <1>1, <1>3, <1>4
  <2>2. Dropping(list, freqs, i) = list
    BY <1>4 DEF Dropping
  <2> QED
    BY <1>1, <1>3, <2>1, <2>2 DEF ExactBut
<1>5. CASE freqs[i] > 0
  <2> DEFINE r == RemoveAt(list, p)
             from(k) == IF k < p THEN k ELSE k + 1
  <2>1. p \in 1..m /\ list[p][1] = i
    BY <1>2, <1>3, <1>5
  <2>2. Dropping(list, freqs, i) = r
    BY <1>5, <2>1 DEF Dropping, p
  <2>3. /\ r \in Seq(Posting) /\ Len(r) = m - 1
        /\ \A k \in 1..(m - 1) : r[k] = list[from(k)]
    BY <1>1, <2>1, RemovedAtPlace
  <2> HIDE DEF r
  <2>4. \A k \in 1..(m - 1) : from(k) \in 1..m /\ from(k) # p
    BY <1>1, <2>1
  <2>5. \A k, l \in 1..(m - 1) : k < l => from(k) < from(l)
    BY <1>1, <2>1
  <2>6. \A q \in 1..m : q # p => \E k \in 1..(m - 1) : from(k) = q
    <3> TAKE q \in 1..m
    <3> HAVE q # p
    <3>1. CASE q < p
      <4>1. q \in 1..(m - 1) /\ from(q) = q
        BY <1>1, <2>1, <3>1
      <4> QED
        BY <4>1
    <3>2. CASE ~(q < p)
      <4>1. q - 1 \in 1..(m - 1) /\ from(q - 1) = q
        BY <1>1, <2>1, <3>2
      <4> QED
        BY <4>1
    <3> QED
      BY <3>1, <3>2
  <2> HIDE DEF from, m
  <2>7. \A k \in 1..(m - 1) :
          r[k][1] \in (1..Len(freqs)) \ {i} /\ r[k][2] = freqs[r[k][1]]
    <3> TAKE k \in 1..(m - 1)
    <3>1. from(k) \in 1..m /\ from(k) # p /\ r[k] = list[from(k)]
      BY <2>3, <2>4
    <3>2. list[from(k)][1] # i
      BY <1>3, <2>1, <3>1
    <3>3. list[from(k)][1] \in 1..Len(freqs) /\ list[from(k)][2] = freqs[list[from(k)][1]]
      BY <1>3, <3>1
    <3> QED
      BY <3>1, <3>2, <3>3
  <2>8. ASSUME NEW j \in (1..Len(freqs)) \ {i}, freqs[j] > 0
        PROVE  \E k \in 1..(m - 1) : r[k][1] = j
    <3>1. PICK q \in 1..m : list[q][1] = j
      BY <1>3, <2>8
    <3>2. q # p
      BY <2>1, <2>8, <3>1
    <3>3. PICK k \in 1..(m - 1) : from(k) = q
      BY <2>6, <3>2
    <3> QED
      BY <2>3, <3>1, <3>3
  <2>9. \A k, l \in 1..(m - 1) : k < l => r[k][1] < r[l][1]
    <3> TAKE k, l \in 1..(m - 1)
    <3> HAVE k < l
    <3>1. from(k) \in 1..m /\ from(l) \in 1..m /\ from(k) < from(l)
      BY <2>4, <2>5
    <3> QED
      BY <1>3, <2>3, <3>1, SMTT(60)
  <2>10. DOMAIN r = 1..(m - 1)
    BY <2>3
  <2> QED
    BY <2>2, <2>3, <2>7, <2>8, <2>9, <2>10 DEF ExactBut, SortedList
<1> QED
  BY <1>4, <1>5

(* The moved document's entry is found in a list in order.                 *)
LEMMA RepointExact ==
  ASSUME NEW freqs \in Seq(Nat), NEW i \in 1..Len(freqs),
         NEW list, ExactBut(list, freqs, i)
  PROVE  ListExact(Repointing(list, freqs, i), SwapRemove(freqs, i))
<1> DEFINE n == Len(freqs)
           m == Len(list)
           p == BinarySearch(DocIdx(list), n)
           w == SwapRemove(freqs, i)
<1>1. /\ n \in Nat /\ n >= 1 /\ Len(w) = n - 1
      /\ \A k \in 1..(n - 1) : w[k] = freqs[IF k = i THEN n ELSE k]
  BY SwapRemoved
<1>2. /\ list \in Seq(Posting) /\ m \in Nat
      /\ \A q \in 1..m : list[q] \in Posting /\ list[q][2] > 0 /\ list[q][1] \in Nat
  <2>1. list \in Seq(Posting) /\ m \in Nat
    BY DEF ExactBut
  <2>2. \A q \in 1..m : list[q] \in Posting
    BY <2>1
  <2> QED
    BY <2>1, <2>2 DEF Posting, Positive
<1>3. p \in 0..m /\ (p # 0 => list[p][1] = n)
      /\ (p = 0 <=> \A q \in 1..m : list[q][1] # n)
  BY <1>1, <1>2, SearchList DEF ExactBut
<1>4. /\ \A q \in 1..m : list[q][1] \in (1..n) \ {i} /\ list[q][2] = freqs[list[q][1]]
      /\ \A j \in (1..n) \ {i} : freqs[j] > 0 => \E q \in 1..m : list[q][1] = j
      /\ \A q, r \in 1..m : q < r => list[q][1] < list[r][1]
  BY <1>2 DEF ExactBut, SortedList
<1>5. \A q, r \in 1..m : list[q][1] = list[r][1] => q = r
  <2> TAKE q, r \in 1..m
  <2>1. q < r \/ q = r \/ r < q
    OBVIOUS
  <2> QED
    BY <1>2, <1>4, <2>1
<1> HIDE DEF p, w
<1>6. CASE i = n
  <2>1. Repointing(list, freqs, i) = list
    BY <1>6 DEF Repointing
  <2>2. \A k \in 1..(n - 1) : w[k] = freqs[k] /\ k \in (1..n) \ {i}
    BY <1>1, <1>6
  <2>3. \A q \in 1..m : list[q][1] \in 1..(n - 1) /\ list[q][2] = w[list[q][1]]
    <3> TAKE q \in 1..m
    <3>1. list[q][1] \in 1..(n - 1)
      BY <1>1, <1>4, <1>6
    <3> QED
      BY <1>4, <2>2, <3>1
  <2>4. \A k \in 1..(n - 1) : w[k] > 0 => \E q \in 1..m : list[q][1] = k
    BY <1>4, <2>2
  <2> QED
    BY <1>1, <1>2, <1>5, <2>1, <2>3, <2>4 DEF ListExact, w
<1>7. CASE i # n /\ ~(freqs[n] > 0)
  <2>1. Repointing(list, freqs, i) = list
    BY <1>7 DEF Repointing
  <2>2. \A q \in 1..m : list[q][1] # n
    BY <1>2, <1>4, <1>7
  <2>3. \A q \in 1..m : list[q][1] \in 1..(n - 1) /\ list[q][2] = w[list[q][1]]
    <3> TAKE q \in 1..m
    <3>1. list[q][1] \in 1..(n - 1) /\ list[q][1] # i
      BY <1>1, <1>4, <2>2
    <3> QED
      BY <1>1, <1>4, <3>1
  <2>4. \A k \in 1..(n - 1) : w[k] > 0 => \E q \in 1..m : list[q][1] = k
    <3> TAKE k \in 1..(n - 1)
    <3> HAVE w[k] > 0
    <3>1. k # i /\ k \in 1..n
      BY <1>1, <1>7
    <3> QED
      BY <1>1, <1>4, <3>1
  <2> QED
    BY <1>1, <1>2, <1>5, <2>1, <2>3, <2>4 DEF ListExact, w
<1>8. CASE i # n /\ freqs[n] > 0
  <2> DEFINE new == [list[p] EXCEPT ![1] = i]
             r == [list EXCEPT ![p] = new]
  <2>1. p \in 1..m /\ list[p][1] = n /\ i \in 1..(n - 1)
    <3>1. n \in (1..n) \ {i}
      BY <1>1, <1>8
    <3> QED
      BY <1>1, <1>3, <1>4, <1>8, <3>1
  <2>2. Repointing(list, freqs, i) = r
    <3>1. Repointing(list, freqs, i) = [list EXCEPT ![p][1] = i]
      BY <1>8, <2>1 DEF Repointing, p
    <3> QED
      BY <3>1, Zenon
  <2>3. new \in Posting /\ new[1] = i /\ new[2] = list[p][2]
    <3>1. list[p] \in Posting /\ i \in Positive
      BY <1>1, <1>2, <2>1 DEF Positive
    <3> QED
      BY <3>1, SMTT(60) DEF Posting
  <2> HIDE DEF new
  <2>4. /\ r \in Seq(Posting) /\ Len(r) = m /\ r[p] = new
        /\ \A q \in 1..m : q # p => r[q] = list[q]
    BY <1>2, <2>1, <2>3
  <2> HIDE DEF r, m, n
  <2>5. \A q \in 1..m : r[q][1] \in 1..(n - 1) /\ r[q][2] = w[r[q][1]]
    <3> TAKE q \in 1..m
    <3>1. CASE q = p
      <4>1. list[p][2] = freqs[n] /\ w[i] = freqs[n]
        BY <1>1, <1>4, <2>1
      <4> QED
        BY <2>1, <2>3, <2>4, <3>1, <4>1
    <3>2. CASE q # p
      <4>1. list[q][1] # n
        BY <1>5, <2>1, <3>2
      <4>2. list[q][1] \in 1..(n - 1) /\ list[q][1] # i
        BY <1>1, <1>4, <4>1
      <4>3. w[list[q][1]] = freqs[list[q][1]]
        BY <1>1, <4>2
      <4> QED
        BY <1>4, <2>4, <3>2, <4>2, <4>3
    <3> QED
      BY <3>1, <3>2
  <2>6. \A k \in 1..(n - 1) : w[k] > 0 => \E q \in 1..m : r[q][1] = k
    <3> TAKE k \in 1..(n - 1)
    <3> HAVE w[k] > 0
    <3>1. CASE k = i
      BY <2>1, <2>3, <2>4, <3>1
    <3>2. CASE k # i
      <4>1. k \in (1..n) \ {i} /\ w[k] = freqs[k]
        BY <1>1, <3>2
      <4>2. PICK q \in 1..m : list[q][1] = k
        BY <1>4, <4>1
      <4>3. q # p
        BY <1>1, <2>1, <4>2
      <4> QED
        BY <2>4, <4>2, <4>3
    <3> QED
      BY <3>1, <3>2
  <2>7. \A q, s \in 1..m : r[q][1] = r[s][1] => q = s
    <3>1. \A q \in 1..m : q # p => r[q][1] # i
      BY <1>4, <2>4
    <3> QED
      BY <1>5, <2>3, <2>4, <3>1
  <2> QED
    BY <1>1, <2>2, <2>4, <2>5, <2>6, <2>7 DEF ListExact, w, m
<1> QED
  BY <1>6, <1>7, <1>8

-----------------------------------------------------------------------------
(* The index, as a record, and the texts it is to describe.                *)

TextsOK(texts) ==
  /\ texts = [id \in DOMAIN texts |-> texts[id]]
  /\ DOMAIN texts \subseteq Ids /\ \A id \in DOMAIN texts : texts[id] \in Texts

ArraysOK(ix, texts) ==
  /\ ix.ids \in Seq(Ids) /\ IsInjective(ix.ids) /\ ToSet(ix.ids) = DOMAIN texts
  /\ ix.doc_lens \in Seq(Nat) /\ Len(ix.doc_lens) = Len(ix.ids)
  /\ ix.doc_terms \in Seq(SUBSET Terms) /\ Len(ix.doc_terms) = Len(ix.ids)
  /\ \A i \in 1..Len(ix.ids) :
       /\ ix.doc_lens[i] = Length(texts[ix.ids[i]])
       /\ ix.doc_terms[i] = Stems(texts[ix.ids[i]])
  /\ ix.total_tokens = SumFunction(ix.doc_lens)

ListsTyped(ix) == ix.postings \in [Terms -> Seq(Posting)]

(* The frequencies of a stem in the documents, in index order.             *)
Frequencies(ix, texts, t) == [i \in 1..Len(ix.ids) |-> texts[ix.ids[i]][t]]

ListsExact(ix, texts) ==
  \A t \in Terms : ListExact(ix.postings[t], Frequencies(ix, texts, t))

(* The texts without that of one document, and with that of one more.      *)
Loses(rest, texts, id) ==
  /\ DOMAIN rest = DOMAIN texts \ {id}
  /\ \A d \in DOMAIN rest : rest[d] = texts[d]

Gains(more, texts, id, text) ==
  /\ DOMAIN more = DOMAIN texts \cup {id} /\ more[id] = text
  /\ \A d \in DOMAIN texts : more[d] = texts[d]

(* What a text is made of.                                                 *)
LEMMA TextFacts ==
  ASSUME NEW text \in Texts
  PROVE  /\ Length(text) \in Nat /\ Stems(text) \subseteq Terms
         /\ \A t \in Terms : text[t] \in Nat /\ (t \in Stems(text) <=> text[t] > 0)
<1>1. DOMAIN text = Terms /\ \A t \in Terms : text[t] \in Nat
  BY TextAssumption
<1>2. Length(text) = SumFunctionOnSet(text, Terms)
  BY <1>1, Zenon DEF Length, SumFunction
<1>3. Length(text) \in Nat
  BY <1>1, <1>2, TextAssumption, SumType
<1> QED
  BY <1>1, <1>3 DEF Stems

(* The frequencies are numbers, positive for the stems of the document.    *)
LEMMA FrequencyFacts ==
  ASSUME NEW ix, NEW texts, TextsOK(texts), ArraysOK(ix, texts), NEW t \in Terms
  PROVE  /\ Frequencies(ix, texts, t) \in Seq(Nat)
         /\ Len(Frequencies(ix, texts, t)) = Len(ix.ids)
         /\ \A i \in 1..Len(ix.ids) :
              /\ Frequencies(ix, texts, t)[i] = texts[ix.ids[i]][t]
              /\ Frequencies(ix, texts, t)[i] > 0 <=> t \in ix.doc_terms[i]
<1> DEFINE n == Len(ix.ids)
           F == Frequencies(ix, texts, t)
<1>1. n \in Nat /\ \A i \in 1..n : ix.ids[i] \in DOMAIN texts
  <2>1. ix.ids \in Seq(Ids) /\ ToSet(ix.ids) = DOMAIN texts
    BY DEF ArraysOK
  <2> QED
    BY <2>1, SeqElements
<1>2. \A i \in 1..n : /\ texts[ix.ids[i]][t] \in Nat
                      /\ texts[ix.ids[i]][t] > 0 <=> t \in ix.doc_terms[i]
  <2> TAKE i \in 1..n
  <2>1. texts[ix.ids[i]] \in Texts
    BY <1>1 DEF TextsOK
  <2>2. ix.doc_terms[i] = Stems(texts[ix.ids[i]])
    BY DEF ArraysOK
  <2> QED
    BY <2>1, <2>2, TextFacts
<1>3. F = [i \in 1..n |-> texts[ix.ids[i]][t]]
  BY DEF Frequencies
<1> HIDE DEF F, n
<1>4. F \in Seq(Nat) /\ Len(F) = n /\ \A i \in 1..n : F[i] = texts[ix.ids[i]][t]
  BY <1>1, <1>2, <1>3
<1> QED
  BY <1>2, <1>4 DEF F, n

(* The arrays without a document that has a place in them.                 *)
LEMMA RemovedArrays ==
  ASSUME NEW ix, NEW texts, TextsOK(texts), ArraysOK(ix, texts),
         NEW i \in 1..Len(ix.ids),
         NEW rest, Loses(rest, texts, ix.ids[i])
  PROVE  /\ ArraysOK(RemovedAt(ix, i), rest)
         /\ \A t \in Terms : Frequencies(RemovedAt(ix, i), rest, t) =
                               SwapRemove(Frequencies(ix, texts, t), i)
<1> DEFINE n == Len(ix.ids)
           r == RemovedAt(ix, i)
           from(k) == IF k = i THEN n ELSE k
<1>1. /\ ix.ids \in Seq(Ids) /\ IsInjective(ix.ids) /\ ToSet(ix.ids) = DOMAIN texts
      /\ ix.doc_lens \in Seq(Nat) /\ Len(ix.doc_lens) = n
      /\ ix.doc_terms \in Seq(SUBSET Terms) /\ Len(ix.doc_terms) = n
      /\ \A k \in 1..n : /\ ix.doc_lens[k] = Length(texts[ix.ids[k]])
                          /\ ix.doc_terms[k] = Stems(texts[ix.ids[k]])
      /\ ix.total_tokens = SumFunction(ix.doc_lens)
      /\ n \in Nat
  BY DEF ArraysOK
<1>2. /\ r.ids = SwapRemove(ix.ids, i) /\ r.doc_lens = SwapRemove(ix.doc_lens, i)
      /\ r.doc_terms = SwapRemove(ix.doc_terms, i)
      /\ r.total_tokens = ix.total_tokens - ix.doc_lens[i]
  BY DEF RemovedAt
<1> HIDE DEF r
<1>0. ASSUME NEW S, NEW s \in Seq(S), Len(s) = n
      PROVE  /\ SwapRemove(s, i) \in Seq(S) /\ Len(SwapRemove(s, i)) = n - 1
             /\ \A k \in 1..(n - 1) : SwapRemove(s, i)[k] = s[from(k)]
  <2>1. i \in 1..Len(s)
    BY <1>0
  <2>2. /\ SwapRemove(s, i) \in Seq(S) /\ Len(SwapRemove(s, i)) = Len(s) - 1
        /\ \A k \in 1..(Len(s) - 1) : SwapRemove(s, i)[k] = s[IF k = i THEN Len(s) ELSE k]
    BY <2>1, SwapRemoved
  <2> QED
    BY <1>0, <2>2
<1>3. /\ r.ids \in Seq(Ids) /\ Len(r.ids) = n - 1
      /\ \A k \in 1..(n - 1) : r.ids[k] = ix.ids[from(k)]
  <2> DEFINE s == ix.ids
             T == Ids
  <2>1. s \in Seq(T) /\ Len(s) = n
    BY <1>1
  <2> HIDE DEF s, T, from, n
  <2>2. /\ SwapRemove(s, i) \in Seq(T) /\ Len(SwapRemove(s, i)) = n - 1
        /\ \A k \in 1..(n - 1) : SwapRemove(s, i)[k] = s[from(k)]
    BY <1>0, <2>1
  <2> QED
    BY <1>2, <2>2 DEF s, T
<1>4. ToSet(r.ids) = DOMAIN rest /\ IsInjective(r.ids)
  BY <1>1, <1>2, SwapRemovedSet DEF Loses
<1>5. /\ r.doc_lens \in Seq(Nat) /\ Len(r.doc_lens) = n - 1
      /\ \A k \in 1..(n - 1) : r.doc_lens[k] = ix.doc_lens[from(k)]
  <2> DEFINE s == ix.doc_lens
             T == Nat
  <2>1. s \in Seq(T) /\ Len(s) = n
    BY <1>1
  <2> HIDE DEF s, T, from, n
  <2>2. /\ SwapRemove(s, i) \in Seq(T) /\ Len(SwapRemove(s, i)) = n - 1
        /\ \A k \in 1..(n - 1) : SwapRemove(s, i)[k] = s[from(k)]
    BY <1>0, <2>1
  <2> QED
    BY <1>2, <2>2 DEF s, T
<1>6. /\ r.doc_terms \in Seq(SUBSET Terms) /\ Len(r.doc_terms) = n - 1
      /\ \A k \in 1..(n - 1) : r.doc_terms[k] = ix.doc_terms[from(k)]
  <2> DEFINE s == ix.doc_terms
             T == SUBSET Terms
  <2>1. s \in Seq(T) /\ Len(s) = n
    BY <1>1
  <2> HIDE DEF s, T, from, n
  <2>2. /\ SwapRemove(s, i) \in Seq(T) /\ Len(SwapRemove(s, i)) = n - 1
        /\ \A k \in 1..(n - 1) : SwapRemove(s, i)[k] = s[from(k)]
    BY <1>0, <2>1
  <2> QED
    BY <1>2, <2>2 DEF s, T
<1>7. r.total_tokens = SumFunction(r.doc_lens)
  <2>1. i \in 1..Len(ix.doc_lens)
    BY <1>1
  <2> QED
    BY <1>1, <1>2, <2>1, SumSwapRemoved
<1>8. \A k \in 1..(n - 1) : from(k) \in 1..n
  OBVIOUS
<1>9. \A k \in 1..(n - 1) : rest[r.ids[k]] = texts[ix.ids[from(k)]]
  <2> TAKE k \in 1..(n - 1)
  <2>1. r.ids[k] \in DOMAIN rest
    BY <1>3, <1>4, SeqElements
  <2> QED
    BY <1>3, <2>1 DEF Loses
<1>10. \A k \in 1..(n - 1) : /\ r.doc_lens[k] = Length(rest[r.ids[k]])
                             /\ r.doc_terms[k] = Stems(rest[r.ids[k]])
  <2> TAKE k \in 1..(n - 1)
  <2>1. /\ ix.doc_lens[from(k)] = Length(texts[ix.ids[from(k)]])
        /\ ix.doc_terms[from(k)] = Stems(texts[ix.ids[from(k)]])
    <3> HIDE DEF from
    <3> QED
      BY <1>1, <1>8
  <2>2. rest[r.ids[k]] = texts[ix.ids[from(k)]]
    BY <1>9
  <2>3. r.doc_lens[k] = ix.doc_lens[from(k)] /\ r.doc_terms[k] = ix.doc_terms[from(k)]
    BY <1>5, <1>6
  <2> HIDE DEF from
  <2> QED
    BY <2>1, <2>2, <2>3
<1>11. ArraysOK(r, rest)
  BY <1>3, <1>4, <1>5, <1>6, <1>7, <1>10 DEF ArraysOK
<1>12. ASSUME NEW t \in Terms
       PROVE  Frequencies(r, rest, t) = SwapRemove(Frequencies(ix, texts, t), i)
  <2> DEFINE F == Frequencies(ix, texts, t)
  <2>1. Len(F) = n /\ \A k \in 1..n : F[k] = texts[ix.ids[k]][t]
    BY FrequencyFacts
  <2>2. SwapRemove(F, i) = [k \in 1..(n - 1) |-> F[from(k)]]
    <3> HIDE DEF F
    <3> QED
      BY <2>1 DEF SwapRemove
  <2>3. Frequencies(r, rest, t) = [k \in 1..(n - 1) |-> rest[r.ids[k]][t]]
    BY <1>3 DEF Frequencies
  <2> HIDE DEF F, from, n
  <2>4. \A k \in 1..(n - 1) : F[from(k)] = rest[r.ids[k]][t]
    BY <1>8, <1>9, <2>1
  <2> QED
    BY <2>2, <2>3, <2>4 DEF F
<1> QED
  BY <1>11, <1>12 DEF r

(* The posting lists without it: lists, and exact ones if they were exact  *)
(* and in order.                                                           *)
LEMMA RemovedLists ==
  ASSUME NEW ix, NEW texts, TextsOK(texts), ArraysOK(ix, texts), ListsTyped(ix),
         NEW i \in 1..Len(ix.ids), NEW t \in Terms
  PROVE  LET freqs == Frequencies(ix, texts, t)
             list  == RemovedAt(ix, i).postings[t]
         IN  /\ list \in Seq(Posting)
             /\ ListExact(ix.postings[t], freqs) /\ SortedList(ix.postings[t])
                  => ListExact(list, SwapRemove(freqs, i))
<1> DEFINE n == Len(ix.ids)
           F == Frequencies(ix, texts, t)
           old == ix.postings[t]
           p == BinarySearch(DocIdx(old), i)
           mid == Dropped(ix, i)[t]
           q == BinarySearch(DocIdx(mid), n)
           new == RemovedAt(ix, i).postings[t]
<1>1. /\ F \in Seq(Nat) /\ Len(F) = n /\ n \in Nat /\ n \in 1..n /\ i \in Nat
      /\ F[i] > 0 <=> t \in ix.doc_terms[i]
      /\ F[n] > 0 <=> t \in ix.doc_terms[n]
  <2>1. n \in Nat /\ n \in 1..n /\ i \in Nat
    BY DEF ArraysOK
  <2> QED
    BY <2>1, FrequencyFacts
<1>2. mid = IF t \in ix.doc_terms[i] /\ p # 0 THEN RemoveAt(old, p) ELSE old
  BY DEF Dropped
<1>3. new = IF i # n /\ t \in ix.doc_terms[n] /\ q # 0
            THEN [mid EXCEPT ![q][1] = i] ELSE mid
  BY DEF RemovedAt, Repointed
<1>4. old \in Seq(Posting)
  BY DEF ListsTyped
<1> HIDE DEF F, new, mid
<1>5. mid \in Seq(Posting)
  <2>1. p \in 0..Len(old)
    BY <1>1, <1>4, SearchList
  <2>2. i \in Positive
    BY DEF Positive
  <2>3. DropAt(old, p) \in Seq(Posting)
    <3> HIDE DEF p, old
    <3> QED
      BY <1>4, <2>1, <2>2, ListTypes
  <2> QED
    BY <1>2, <1>4, <2>3 DEF DropAt
<1>6. new \in Seq(Posting)
  <2>1. q \in 0..Len(mid)
    BY <1>1, <1>5, SearchList
  <2>2. i \in Positive
    BY DEF Positive
  <2>3. RepointAt(mid, q, i) \in Seq(Posting)
    <3> HIDE DEF q
    <3> QED
      BY <1>5, <2>1, <2>2, ListTypes
  <2> QED
    BY <1>3, <1>5, <2>3 DEF RepointAt
<1>7. ASSUME ListExact(old, F), SortedList(old)
      PROVE  ListExact(new, SwapRemove(F, i))
  <2>1. mid = Dropping(old, F, i)
    BY <1>1, <1>2 DEF Dropping
  <2>2. new = Repointing(mid, F, i)
    BY <1>1, <1>3 DEF Repointing
  <2>3. i \in 1..Len(F)
    BY <1>1
  <2> HIDE DEF old
  <2>4. ExactBut(mid, F, i)
    BY <1>1, <1>7, <2>1, <2>3, DropExact
  <2> QED
    BY <1>1, <2>2, <2>3, <2>4, RepointExact
<1> QED
  BY <1>6, <1>7 DEF new, F

(* TextIndex::remove, of a document that is indexed or not.                *)
LEMMA WithoutKeeps ==
  ASSUME NEW ix, NEW texts, TextsOK(texts), ArraysOK(ix, texts), ListsTyped(ix),
         NEW id, NEW rest, Loses(rest, texts, id)
  PROVE  LET w == Without(ix, id) IN
         /\ ArraysOK(w, rest) /\ ListsTyped(w)
         /\ ListsExact(ix, texts) /\ Sorted(ix) => ListsExact(w, rest)
<1> DEFINE i == PositionOf(ix.ids, id)
<1>1. /\ i = 0 <=> id \notin DOMAIN texts
      /\ id \in DOMAIN texts => i \in 1..Len(ix.ids) /\ ix.ids[i] = id
  <2>1. ix.ids \in Seq(Ids) /\ IsInjective(ix.ids) /\ ToSet(ix.ids) = DOMAIN texts
    BY DEF ArraysOK
  <2> QED
    BY <2>1, PositionFound
<1>2. Without(ix, id) = IF i = 0 THEN ix ELSE RemovedAt(ix, i)
  BY DEF Without
<1> HIDE DEF i
<1>3. CASE id \notin DOMAIN texts
  <2>1. Without(ix, id) = ix /\ DOMAIN rest = DOMAIN texts
    BY <1>1, <1>2, <1>3 DEF Loses
  <2>2. \A k \in 1..Len(ix.ids) : rest[ix.ids[k]] = texts[ix.ids[k]]
    <3>1. ix.ids \in Seq(Ids) /\ ToSet(ix.ids) = DOMAIN texts
      BY DEF ArraysOK
    <3> QED
      BY <2>1, <3>1, SeqElements DEF Loses
  <2>3. ArraysOK(ix, rest)
    BY <2>1, <2>2 DEF ArraysOK
  <2>4. \A t \in Terms : Frequencies(ix, rest, t) = Frequencies(ix, texts, t)
    BY <2>2 DEF Frequencies
  <2> QED
    BY <2>1, <2>3, <2>4 DEF ListsExact
<1>4. CASE id \in DOMAIN texts
  <2> DEFINE w == RemovedAt(ix, i)
  <2>1. Without(ix, id) = w /\ i \in 1..Len(ix.ids) /\ ix.ids[i] = id
    BY <1>1, <1>2, <1>4
  <2>2. /\ ArraysOK(w, rest)
        /\ \A t \in Terms :
             Frequencies(w, rest, t) = SwapRemove(Frequencies(ix, texts, t), i)
    <3>1. Loses(rest, texts, ix.ids[i])
      BY <2>1
    <3> QED
      BY <2>1, <3>1, RemovedArrays
  <2>3. \A t \in Terms :
          /\ w.postings[t] \in Seq(Posting)
          /\ ListExact(ix.postings[t], Frequencies(ix, texts, t)) /\ SortedList(ix.postings[t])
               => ListExact(w.postings[t], SwapRemove(Frequencies(ix, texts, t), i))
    BY <2>1, RemovedLists
  <2>4. w.postings = [t \in Terms |-> w.postings[t]]
    BY DEF RemovedAt, Repointed
  <2> HIDE DEF w
  <2>5. ListsTyped(w)
    BY <2>3, <2>4 DEF ListsTyped
  <2>6. ListsExact(ix, texts) /\ Sorted(ix) => ListsExact(w, rest)
    BY <2>2, <2>3 DEF ListsExact, Sorted
  <2> QED
    BY <2>1, <2>2, <2>5, <2>6
<1> QED
  BY <1>3, <1>4

(* TextIndex::insert, of a document that is not indexed.                   *)
LEMMA InsertedKeeps ==
  ASSUME NEW ix, NEW texts, TextsOK(texts), ArraysOK(ix, texts), ListsTyped(ix),
         NEW id \in Ids, id \notin DOMAIN texts, NEW text \in Texts,
         NEW more, Gains(more, texts, id, text)
  PROVE  LET w == Inserted(ix, id, text) IN
         /\ ArraysOK(w, more) /\ ListsTyped(w)
         /\ ListsExact(ix, texts) => ListsExact(w, more)
         /\ ListsExact(ix, texts) /\ Sorted(ix) => Sorted(w)
<1> DEFINE n == Len(ix.ids)
           w == Inserted(ix, id, text)
<1>1. /\ ix.ids \in Seq(Ids) /\ IsInjective(ix.ids) /\ ToSet(ix.ids) = DOMAIN texts
      /\ ix.doc_lens \in Seq(Nat) /\ Len(ix.doc_lens) = n
      /\ ix.doc_terms \in Seq(SUBSET Terms) /\ Len(ix.doc_terms) = n
      /\ \A k \in 1..n : /\ ix.doc_lens[k] = Length(texts[ix.ids[k]])
                          /\ ix.doc_terms[k] = Stems(texts[ix.ids[k]])
      /\ ix.total_tokens = SumFunction(ix.doc_lens)
      /\ n \in Nat
  BY DEF ArraysOK
<1>2. Without(ix, id) = ix
  <2>1. PositionOf(ix.ids, id) = 0
    BY <1>1, PositionFound
  <2> QED
    BY <2>1 DEF Without
<1>3. /\ w.ids = Append(ix.ids, id)
      /\ w.doc_lens = Append(ix.doc_lens, Length(text))
      /\ w.doc_terms = Append(ix.doc_terms, Stems(text))
      /\ w.total_tokens = ix.total_tokens + Length(text)
      /\ w.postings = [t \in Terms |->
           IF text[t] > 0 THEN Append(ix.postings[t], <<n + 1, text[t]>>) ELSE ix.postings[t]]
  BY <1>2 DEF Inserted
<1>4. /\ Length(text) \in Nat /\ Stems(text) \subseteq Terms
      /\ \A t \in Terms : text[t] \in Nat
  BY TextFacts
<1> HIDE DEF w
<1>5. /\ w.ids \in Seq(Ids) /\ Len(w.ids) = n + 1 /\ w.ids[n + 1] = id
      /\ \A k \in 1..n : w.ids[k] = ix.ids[k] /\ ix.ids[k] \in DOMAIN texts
  <2>1. \A k \in 1..n : ix.ids[k] \in DOMAIN texts
    BY <1>1, SeqElements
  <2> QED
    BY <1>1, <1>3, <2>1
<1>6. /\ w.doc_lens \in Seq(Nat) /\ Len(w.doc_lens) = n + 1
      /\ w.doc_lens[n + 1] = Length(text)
      /\ \A k \in 1..n : w.doc_lens[k] = ix.doc_lens[k]
  BY <1>1, <1>3, <1>4
<1>7. /\ w.doc_terms \in Seq(SUBSET Terms) /\ Len(w.doc_terms) = n + 1
      /\ w.doc_terms[n + 1] = Stems(text)
      /\ \A k \in 1..n : w.doc_terms[k] = ix.doc_terms[k]
  BY <1>1, <1>3, <1>4
<1>8. \A k \in 1..(n + 1) : k \in 1..n \/ k = n + 1
  BY <1>1
<1>9. w.total_tokens = SumFunction(w.doc_lens)
  BY <1>1, <1>3, <1>4, SumAppended
<1>10. ToSet(w.ids) = DOMAIN more /\ IsInjective(w.ids)
  <2>1. /\ \A k \in 1..(n + 1) : w.ids[k] \in ToSet(w.ids)
        /\ \A x \in ToSet(w.ids) : \E k \in 1..(n + 1) : w.ids[k] = x
        /\ \A x \in DOMAIN texts : \E k \in 1..n : ix.ids[k] = x
    <3> DEFINE new == w.ids
               old == ix.ids
    <3>1. new \in Seq(Ids) /\ Len(new) = n + 1 /\ old \in Seq(Ids) /\ Len(old) = n
      BY <1>1, <1>5
    <3> HIDE DEF new, old, n
    <3>2. \A k \in 1..(n + 1) : new[k] \in ToSet(new)
      BY <3>1, SeqElements
    <3>3. \A x \in ToSet(new) : \E k \in 1..(n + 1) : new[k] = x
      BY <3>1, SeqElements
    <3>4. \A x \in ToSet(old) : \E k \in 1..n : old[k] = x
      BY <3>1, SeqElements
    <3> QED
      BY <1>1, <3>2, <3>3, <3>4 DEF new, old
  <2>2. \A x \in ToSet(w.ids) : x \in DOMAIN more
    BY <1>5, <1>8, <2>1 DEF Gains
  <2>3. \A x \in DOMAIN more : x \in ToSet(w.ids)
    <3> TAKE x \in DOMAIN more
    <3>1. n + 1 \in 1..(n + 1) /\ \A k \in 1..n : k \in 1..(n + 1)
      BY <1>1
    <3>2. CASE x = id
      BY <1>5, <2>1, <3>1, <3>2
    <3>3. CASE x \in DOMAIN texts
      <4>1. PICK k \in 1..n : ix.ids[k] = x
        BY <2>1, <3>3
      <4>2. w.ids[k] = x /\ k \in 1..(n + 1)
        BY <1>5, <3>1, <4>1
      <4> QED
        BY <2>1, <4>2
    <3> QED
      BY <3>2, <3>3 DEF Gains
  <2>4. ToSet(w.ids) = DOMAIN more
    BY <2>2, <2>3
  <2>5. ASSUME NEW k \in 1..(n + 1), NEW l \in 1..(n + 1), w.ids[k] = w.ids[l]
        PROVE  k = l
    <3>1. \A j \in 1..n : w.ids[j] # id
      BY <1>5
    <3>2. \A a, b \in 1..n : ix.ids[a] = ix.ids[b] => a = b
      BY <1>1 DEF IsInjective
    <3> QED
      BY <1>5, <1>8, <2>5, <3>1, <3>2
  <2>6. DOMAIN w.ids = 1..(n + 1)
    BY <1>5
  <2> QED
    BY <2>4, <2>5, <2>6 DEF IsInjective
<1>11. \A k \in 1..(n + 1) : /\ w.doc_lens[k] = Length(more[w.ids[k]])
                             /\ w.doc_terms[k] = Stems(more[w.ids[k]])
  <2> TAKE k \in 1..(n + 1)
  <2>1. CASE k \in 1..n
    <3>1. more[w.ids[k]] = texts[ix.ids[k]]
      BY <1>5, <2>1 DEF Gains
    <3> QED
      BY <1>1, <1>6, <1>7, <2>1, <3>1
  <2>2. CASE k = n + 1
    BY <1>5, <1>6, <1>7, <2>2 DEF Gains
  <2> QED
    BY <1>8, <2>1, <2>2
<1>12. ArraysOK(w, more)
  BY <1>5, <1>6, <1>7, <1>9, <1>10, <1>11 DEF ArraysOK
<1>13. ASSUME NEW t \in Terms
       PROVE  /\ w.postings[t] \in Seq(Posting)
              /\ ListExact(ix.postings[t], Frequencies(ix, texts, t)) =>
                   ListExact(w.postings[t], Frequencies(w, more, t))
              /\ ListExact(ix.postings[t], Frequencies(ix, texts, t))
                   /\ SortedList(ix.postings[t]) => SortedList(w.postings[t])
  <2> DEFINE F == Frequencies(ix, texts, t)
             f == text[t]
             list == ix.postings[t]
             new == IF f > 0 THEN Append(list, <<n + 1, f>>) ELSE list
  <2>1. w.postings[t] = new
    BY <1>3
  <2>2. f \in Nat /\ list \in Seq(Posting)
    BY <1>4 DEF ListsTyped
  <2>3. F \in Seq(Nat) /\ Len(F) = n /\ \A k \in 1..n : F[k] = texts[ix.ids[k]][t]
    BY FrequencyFacts
  <2>4. Frequencies(w, more, t) = Append(F, f)
    <3>1. Frequencies(w, more, t) = [k \in 1..(n + 1) |-> more[w.ids[k]][t]]
      BY <1>5 DEF Frequencies
    <3> HIDE DEF F
    <3>2. \A k \in 1..(n + 1) : more[w.ids[k]][t] = IF k = n + 1 THEN f ELSE F[k]
      <4> TAKE k \in 1..(n + 1)
      <4>1. CASE k \in 1..n
        <5>1. more[w.ids[k]] = texts[ix.ids[k]] /\ k # n + 1
          BY <1>1, <1>5, <4>1 DEF Gains
        <5> QED
          BY <2>3, <4>1, <5>1
      <4>2. CASE k = n + 1
        BY <1>5, <4>2 DEF Gains
      <4> QED
        BY <1>8, <4>1, <4>2
    <3>3. Append(F, f) = [k \in 1..(n + 1) |-> IF k = n + 1 THEN f ELSE F[k]]
      <4>1. F \in Seq(Nat) /\ Len(F) = n /\ f \in Nat
        BY <2>2, <2>3
      <4> DEFINE A == Append(F, f)
      <4> HIDE DEF f, n
      <4>2. /\ A \in Seq(Nat) /\ Len(A) = n + 1 /\ A[n + 1] = f
            /\ \A k \in 1..n : A[k] = F[k]
        BY <4>1
      <4> HIDE DEF A
      <4>3. A = [k \in 1..(n + 1) |-> A[k]]
        BY <4>2
      <4>4. \A k \in 1..(n + 1) : A[k] = IF k = n + 1 THEN f ELSE F[k]
        BY <1>8, <4>2
      <4> QED
        BY <4>3, <4>4 DEF A
    <3> HIDE DEF f
    <3> QED
      BY <3>1, <3>2, <3>3
  <2> HIDE DEF F, f, list
  <2>5. new \in Seq(Posting)
    <3>1. f > 0 => <<n + 1, f>> \in Posting
      BY <1>1, <2>2 DEF Posting, Positive
    <3> QED
      BY <2>2, <3>1
  <2>6. ListExact(list, F) => ListExact(new, Append(F, f))
    BY <2>2, <2>3, AppendExact
  <2>7. ASSUME ListExact(list, F), SortedList(list)
        PROVE  SortedList(new)
    <3>1. CASE ~(f > 0)
      BY <2>7, <3>1
    <3>2. CASE f > 0
      <4> DEFINE m == Len(list)
                 e == <<n + 1, f>>
      <4>1. e \in Posting /\ e[1] = n + 1
        BY <1>1, <2>2, <3>2 DEF Posting, Positive
      <4> HIDE DEF e
      <4>2. /\ DOMAIN Append(list, e) = 1..(m + 1) /\ Append(list, e)[m + 1] = e
            /\ m \in Nat /\ \A p \in 1..m : Append(list, e)[p] = list[p]
        BY <2>2, <4>1
      <4>3. \A p \in 1..m : list[p][1] \in 1..n
        BY <2>3, <2>7 DEF ListExact
      <4>4. \A p, q \in 1..m : p < q => list[p][1] < list[q][1]
        BY <2>2, <2>7 DEF SortedList
      <4> DEFINE l == Append(list, e)
      <4>5. new = l
        BY <3>2 DEF e
      <4> HIDE DEF l, m, new
      <4>6. \A p, q \in 1..(m + 1) : p < q => l[p][1] < l[q][1]
        <5> TAKE p, q \in 1..(m + 1)
        <5> HAVE p < q
        <5>1. p \in 1..m /\ (q \in 1..m \/ q = m + 1)
          BY <4>2
        <5>2. l[p] = list[p]
          BY <4>2, <5>1 DEF l
        <5>3. CASE q \in 1..m
          BY <4>2, <4>4, <5>1, <5>2, <5>3 DEF l
        <5>4. CASE q = m + 1
          <6>1. l[q][1] = n + 1
            BY <4>1, <4>2, <5>4 DEF l
          <6>2. list[p][1] \in 1..n
            BY <4>3, <5>1
          <6> QED
            BY <1>1, <5>2, <6>1, <6>2
        <5> QED
          BY <5>1, <5>3, <5>4
      <4> QED
        BY <4>2, <4>5, <4>6 DEF SortedList, l
    <3> QED
      BY <3>1, <3>2
  <2> QED
    BY <2>1, <2>4, <2>5, <2>6, <2>7 DEF F, list
<1>14. ListsTyped(w)
  <2>1. w.postings = [t \in Terms |-> w.postings[t]]
    BY <1>3
  <2> QED
    BY <1>13, <2>1 DEF ListsTyped
<1>15. ListsExact(ix, texts) => ListsExact(w, more)
  BY <1>13 DEF ListsExact
<1>16. ListsExact(ix, texts) /\ Sorted(ix) => Sorted(w)
  BY <1>13 DEF ListsExact, Sorted
<1> QED
  BY <1>12, <1>14, <1>15, <1>16 DEF w

-----------------------------------------------------------------------------
(* A build of the index.                                                   *)

(* One round of TextIndex::load.                                           *)
LoadStep(f, order, n) ==
  IF n = 0 THEN Empty ELSE Inserted(f[n - 1], order[n], held[order[n]])

(* The table of the indexes after each document exists.                    *)
LEMMA LoadDefined ==
  ASSUME NEW order
  PROVE  \A n \in Nat : \E f : f = [i \in 0..n |-> LoadStep(f, order, i)]
<1> DEFINE Step(f, i) == LoadStep(f, order, i)
           T == {n \in Nat : \E f : f = [i \in 0..n |-> Step(f, i)]}
<1>1. 0 \in T
  <2> DEFINE e == [i \in 0..0 |-> Empty]
  <2>1. \A i \in 0..0 : Step(e, i) = Empty
    BY DEF LoadStep
  <2> HIDE DEF Step
  <2>2. e = [i \in 0..0 |-> Step(e, i)]
    BY <2>1
  <2> QED
    BY <2>2
<1>2. ASSUME NEW n \in Nat, n \in T
      PROVE  n + 1 \in T
  <2>1. PICK g : g = [i \in 0..n |-> Step(g, i)]
    BY <1>2
  <2> DEFINE f == [i \in 0..(n + 1) |-> IF i <= n THEN g[i] ELSE Step(g, i)]
  <2>2. ASSUME NEW i \in 0..(n + 1)
        PROVE  f[i] = Step(f, i)
    <3>1. f[i] = Step(g, i)
      <4> HIDE DEF Step
      <4>1. \A j \in 0..n : g[j] = Step(g, j)
        BY <2>1
      <4>2. i <= n => i \in 0..n
        OBVIOUS
      <4> QED
        BY <4>1, <4>2
    <3>2. CASE i = 0
      BY <3>1, <3>2 DEF LoadStep
    <3>3. CASE i # 0
      <4>1. i - 1 \in 0..n /\ f[i - 1] = g[i - 1]
        <5> HIDE DEF Step
        <5> QED
          BY <3>3
      <4> HIDE DEF f
      <4> QED
        BY <3>1, <3>3, <4>1 DEF LoadStep
    <3> QED
      BY <3>2, <3>3
  <2>3. f = [i \in 0..(n + 1) |-> f[i]]
    OBVIOUS
  <2> HIDE DEF f, Step
  <2>4. f = [i \in 0..(n + 1) |-> Step(f, i)]
    BY <2>2, <2>3
  <2>5. n + 1 \in Nat
    OBVIOUS
  <2> QED
    BY <2>4, <2>5, Zenon
<1>3. Nat \subseteq T
  <2> HIDE DEF T
  <2> QED
    BY <1>1, <1>2, Induction
<1> QED
  BY <1>3

(* An index of no documents.                                               *)
LEMMA EmptyFacts ==
  ASSUME NEW texts, DOMAIN texts = {}
  PROVE  /\ ArraysOK(Empty, texts) /\ ListsTyped(Empty)
         /\ ListsExact(Empty, texts) /\ Sorted(Empty)
<1>1. ToSet(<<>>) = {} /\ IsInjective(<<>>)
  BY DEF ToSet, IsInjective
<1>2. SumFunction(<<>>) = 0
  <2>1. SumFunction(<<>>) = SumFunctionOnSet(<<>>, {})
    <3>1. DOMAIN <<>> = {}
      OBVIOUS
    <3> QED
      BY <3>1, Zenon DEF SumFunction
  <2> QED
    BY <2>1, FS_EmptySet, SumStep
<1>3. ArraysOK(Empty, texts)
  BY <1>1, <1>2 DEF ArraysOK, Empty
<1>4. ListsTyped(Empty)
  BY DEF ListsTyped, Empty
<1>5. \A t \in Terms : Empty.postings[t] = <<>> /\ Frequencies(Empty, texts, t) = <<>>
  BY DEF Empty, Frequencies
<1>6. ListExact(<<>>, <<>>) /\ SortedList(<<>>)
  BY DEF ListExact, SortedList
<1> QED
  BY <1>3, <1>4, <1>5, <1>6 DEF ListsExact, Sorted

(* The texts of the first documents of an order.                           *)
First(order, n) == [d \in {order[k] : k \in 1..n} |-> held[d]]

Exact(ix, texts) ==
  ArraysOK(ix, texts) /\ ListsTyped(ix) /\ ListsExact(ix, texts) /\ Sorted(ix)

(* A build is exact, and leaves every list in order.                       *)
LEMMA LoadedKeeps ==
  ASSUME TextsOK(held), NEW order \in Seq(Ids), IsInjective(order),
         ToSet(order) = DOMAIN held
  PROVE  Exact(Loaded(order), held)
<1> DEFINE n == Len(order)
<1>0. n \in Nat /\ \A k \in 1..n : order[k] \in DOMAIN held
  BY SeqElements
<1>1. PICK f : f = [i \in 0..n |-> LoadStep(f, order, i)] /\ Loaded(order) = f[n]
  <2>1. \E f : f = [i \in 0..n |-> LoadStep(f, order, i)]
    BY <1>0, LoadDefined
  <2>2. Loaded(order) = (CHOOSE f : f = [i \in 0..n |-> LoadStep(f, order, i)])[n]
    BY Zenon DEF Loaded, LoadStep
  <2> QED
    BY <2>1, <2>2, Zenon
<1>2. \A i \in 0..n : f[i] = LoadStep(f, order, i)
  BY <1>1
<1> DEFINE T == {i \in Nat : i <= n => Exact(f[i], First(order, i))}
<1>3. 0 \in T
  <2>1. f[0] = Empty
    BY <1>0, <1>2 DEF LoadStep
  <2>2. DOMAIN First(order, 0) = {}
    BY DEF First
  <2> QED
    BY <2>1, <2>2, EmptyFacts DEF Exact
<1>4. ASSUME NEW i \in Nat, i \in T
      PROVE  i + 1 \in T
  <2> SUFFICES ASSUME i + 1 <= n
               PROVE  Exact(f[i + 1], First(order, i + 1))
    OBVIOUS
  <2> DEFINE id == order[i + 1]
             texts == First(order, i)
             more == First(order, i + 1)
  <2>1. i <= n /\ i + 1 \in 1..n /\ i + 1 \in 0..n /\ i + 1 # 0 /\ i + 1 - 1 = i
    BY <1>0
  <2>2. f[i + 1] = Inserted(f[i], id, held[id])
    BY <1>2, <2>1 DEF LoadStep
  <2>3. Exact(f[i], texts)
    BY <1>4, <2>1
  <2>4. id \in Ids /\ held[id] \in Texts
    BY <1>0, <2>1 DEF TextsOK
  <2>5. TextsOK(texts)
    <3>1. \A k \in 1..i : k \in 1..n
      BY <1>0, <2>1
    <3>2. DOMAIN texts \subseteq DOMAIN held /\ \A d \in DOMAIN texts : texts[d] = held[d]
      BY <1>0, <3>1 DEF First
    <3>3. texts = [d \in DOMAIN texts |-> texts[d]]
      BY DEF First
    <3> HIDE DEF texts
    <3> QED
      BY <3>2, <3>3 DEF TextsOK
  <2>6. id \notin DOMAIN texts
    <3>1. \A k \in 1..i : k \in DOMAIN order /\ k # i + 1
      BY <1>0, <2>1
    <3>2. i + 1 \in DOMAIN order
      BY <1>0, <2>1
    <3> QED
      BY <3>1, <3>2 DEF First, IsInjective
  <2>7. Gains(more, texts, id, held[id])
    <3>1. {order[k] : k \in 1..(i + 1)} = {order[k] : k \in 1..i} \cup {id}
      OBVIOUS
    <3>2. id \in {order[k] : k \in 1..(i + 1)}
      BY <3>1
    <3> QED
      BY <3>1, <3>2 DEF Gains, First
  <2> HIDE DEF texts, more, id
  <2>8. Exact(Inserted(f[i], id, held[id]), more)
    BY <2>3, <2>4, <2>5, <2>6, <2>7, InsertedKeeps DEF Exact
  <2> QED
    BY <2>2, <2>8 DEF more
<1>5. Nat \subseteq T
  <2> HIDE DEF T
  <2> QED
    BY <1>3, <1>4, Induction
<1>6. Exact(f[n], First(order, n))
  BY <1>0, <1>5
<1>7. First(order, n) = held
  <2>1. {order[k] : k \in 1..n} = DOMAIN held
    <3>1. \A d \in DOMAIN held : \E k \in 1..n : order[k] = d
      BY SeqElements
    <3> QED
      BY <1>0, <3>1
  <2>2. held = [d \in DOMAIN held |-> held[d]]
    BY DEF TextsOK
  <2> QED
    BY <2>1, <2>2 DEF First
<1> QED
  BY <1>1, <1>6, <1>7

-----------------------------------------------------------------------------
(* The invariant.                                                          *)

(* What the exactness of the table rests on: unless a list has been out of *)
(* order, every list is in order and as the texts call for it.             *)
TextInv ==
  /\ TextsOK(held)
  /\ ArraysOK(index, held)
  /\ ListsTyped(index)
  /\ unsorted \in BOOLEAN
  /\ unsorted \/ (ListsExact(index, held) /\ Sorted(index))

(* The fields of the index after a call.                                   *)
LEMMA BecomeFields ==
  ASSUME NEW ix, Become(ix), NEW texts
  PROVE  /\ ArraysOK(ix, texts) => ArraysOK(index', texts)
         /\ ListsTyped(ix) => ListsTyped(index')
         /\ ListsExact(ix, texts) => ListsExact(index', texts)
         /\ Sorted(ix) => Sorted(index')
<1>1. /\ index'.ids = ix.ids /\ index'.doc_lens = ix.doc_lens
      /\ index'.doc_terms = ix.doc_terms /\ index'.total_tokens = ix.total_tokens
      /\ index'.postings = ix.postings
  BY DEF Become, index
<1> DEFINE new == index'
<1> HIDE DEF new
<1>2. /\ new.ids = ix.ids /\ new.doc_lens = ix.doc_lens
      /\ new.doc_terms = ix.doc_terms /\ new.total_tokens = ix.total_tokens
      /\ new.postings = ix.postings
  BY <1>1 DEF new
<1>3. ArraysOK(ix, texts) => ArraysOK(new, texts)
  BY <1>2 DEF ArraysOK
<1>4. ListsTyped(ix) => ListsTyped(new)
  BY <1>2 DEF ListsTyped
<1>5. \A t \in Terms : Frequencies(new, texts, t) = Frequencies(ix, texts, t)
  BY <1>2 DEF Frequencies
<1>6. ListsExact(ix, texts) => ListsExact(new, texts)
  BY <1>2, <1>5 DEF ListsExact
<1>7. Sorted(ix) => Sorted(new)
  BY <1>2 DEF Sorted
<1> QED
  BY <1>3, <1>4, <1>6, <1>7 DEF new

(* The texts that stay when a document leaves.                             *)
LEMMA RestFacts ==
  ASSUME NEW texts, TextsOK(texts), NEW id
  PROVE  LET rest == Restrict(texts, DOMAIN texts \ {id})
         IN  Loses(rest, texts, id) /\ TextsOK(rest)
BY DEF Restrict, Loses, TextsOK

(* A write of a text keeps the invariant.                                  *)
LEMMA PutKeeps ==
  ASSUME TextInv, NEW id \in Ids, NEW text \in Texts, Put(id, text)
  PROVE  TextInv'
<1> DEFINE w == Without(index, id)
           rest == Restrict(held, DOMAIN held \ {id})
           r == Inserted(w, id, text)
<1>1. Loses(rest, held, id) /\ TextsOK(rest)
  BY RestFacts DEF TextInv
<1>2. /\ ArraysOK(w, rest) /\ ListsTyped(w)
      /\ unsorted \/ ListsExact(w, rest)
  <2> HIDE DEF rest
  <2> QED
    BY <1>1, WithoutKeeps DEF TextInv
<1>3. Become(r) /\ unsorted' = (unsorted \/ ~Sorted(index'))
      /\ held' = [i \in DOMAIN held \cup {id} |-> IF i = id THEN text ELSE held[i]]
  BY DEF Put
<1>4. Gains(held', rest, id, text) /\ TextsOK(held')
  <2>1. DOMAIN held' = DOMAIN held \cup {id} /\ held'[id] = text
        /\ \A d \in DOMAIN held \ {id} : held'[d] = held[d]
    BY <1>3
  <2>2. held' = [d \in DOMAIN held' |-> held'[d]]
    BY <1>3
  <2>3. Gains(held', rest, id, text)
    BY <1>1, <2>1 DEF Gains, Loses
  <2>4. TextsOK(held')
    BY <2>1, <2>2 DEF TextsOK, TextInv
  <2> QED
    BY <2>3, <2>4
<1>5. id \notin DOMAIN rest
  BY <1>1 DEF Loses
<1> HIDE DEF w, rest
<1>6. /\ ArraysOK(r, held') /\ ListsTyped(r)
      /\ unsorted \/ ListsExact(r, held')
  BY <1>1, <1>2, <1>4, <1>5, InsertedKeeps
<1> HIDE DEF r
<1>7. /\ ArraysOK(index', held') /\ ListsTyped(index')
      /\ unsorted \/ ListsExact(index', held')
  BY <1>3, <1>6, BecomeFields
<1>8. unsorted \in BOOLEAN
  BY DEF TextInv
<1> QED
  BY <1>3, <1>4, <1>7, <1>8 DEF TextInv

(* So does the removal of one.                                             *)
LEMMA DropKeeps ==
  ASSUME TextInv, NEW id \in Ids, Drop(id)
  PROVE  TextInv'
<1> DEFINE w == Without(index, id)
           rest == Restrict(held, DOMAIN held \ {id})
<1>1. Loses(rest, held, id) /\ TextsOK(rest)
  BY RestFacts DEF TextInv
<1>2. /\ ArraysOK(w, rest) /\ ListsTyped(w)
      /\ unsorted \/ ListsExact(w, rest)
  <2> HIDE DEF rest
  <2> QED
    BY <1>1, WithoutKeeps DEF TextInv
<1>3. Become(w) /\ held' = rest /\ unsorted' = (unsorted \/ ~Sorted(index'))
  BY DEF Drop
<1> HIDE DEF w, rest
<1>4. /\ ArraysOK(index', held') /\ ListsTyped(index')
      /\ unsorted \/ ListsExact(index', held')
  BY <1>2, <1>3, BecomeFields
<1>5. unsorted \in BOOLEAN
  BY DEF TextInv
<1> QED
  BY <1>1, <1>3, <1>4, <1>5 DEF TextInv

(* A build makes the index exact, whatever it was before.                  *)
LEMMA LoadKeeps ==
  ASSUME TextInv, Load
  PROVE  TextInv'
<1>1. PICK order \in SetToSeqs(DOMAIN held) : Become(Loaded(order))
  BY DEF Load
<1>2. unsorted' = FALSE /\ held' = held
  BY DEF Load
<1> DEFINE n == Cardinality(DOMAIN held)
           docs == DOMAIN held
<1>3. IsFiniteSet(docs) /\ docs \subseteq Ids
  <2> DEFINE s == ids
  <2>1. s \in Seq(Ids) /\ ToSet(s) = docs
    BY DEF TextInv, ArraysOK, index
  <2>2. /\ \A i \in 1..Len(s) : s[i] \in docs
        /\ \A d \in docs : \E i \in 1..Len(s) : s[i] = d
    BY <2>1, SeqElements
  <2>3. s \in [1..Len(s) -> docs] /\ Len(s) \in Nat
    BY <2>1, <2>2
  <2>4. s \in Surjection(1..Len(s), docs)
    BY <2>2, <2>3 DEF Surjection
  <2>5. docs \subseteq Ids
    BY DEF TextInv, TextsOK
  <2> HIDE DEF s, docs
  <2> QED
    BY <2>3, <2>4, <2>5, FS_NatSurjection DEF ExistsSurjection
<1>4. n \in Nat
  BY <1>3, FS_CardinalityType
<1>5. order \in [1..n -> docs] /\ \A i, j \in 1..n : i # j => order[i] # order[j]
  BY <1>1 DEF SetToSeqs
<1> HIDE DEF n
<1>6. order \in Seq(Ids) /\ DOMAIN order = 1..n /\ IsInjective(order)
  BY <1>3, <1>4, <1>5 DEF IsInjective
<1>7. ToSet(order) = docs
  <2>1. order \in Injection(1..n, docs)
    BY <1>5, <1>6 DEF Injection
  <2>2. Cardinality(1..n) = n
    BY <1>4, FS_Interval
  <2>3. order \in Surjection(1..n, docs)
    BY <1>3, <2>1, <2>2, FS_Injection DEF n
  <2> QED
    BY <1>6, <2>3 DEF Surjection, ToSet
<1>8. Exact(Loaded(order), held)
  BY <1>6, <1>7, LoadedKeeps DEF TextInv
<1>9. Exact(index', held)
  <2> DEFINE ix == Loaded(order)
  <2>1. Become(ix) /\ Exact(ix, held)
    BY <1>1, <1>8
  <2> HIDE DEF ix
  <2> QED
    BY <2>1, BecomeFields DEF Exact
<1> QED
  BY <1>2, <1>9 DEF TextInv, Exact

(* The invariant of the text index.                                        *)
LEMMA TextInvariant == Spec => []TextInv
<1>1. Init => TextInv
  <2> SUFFICES ASSUME Init PROVE TextInv
    OBVIOUS
  <2>1. DOMAIN held = {} /\ TextsOK(held)
    BY DEF Init, TextsOK
  <2>2. index = Empty /\ unsorted = FALSE
    BY DEF Init, index, Empty
  <2> QED
    BY <2>1, <2>2, EmptyFacts DEF TextInv
<1>2. TextInv /\ [Next]_vars => TextInv'
  <2> SUFFICES ASSUME TextInv, [Next]_vars PROVE TextInv'
    OBVIOUS
  <2>1. ASSUME NEW id \in Ids, NEW text \in Texts, Put(id, text) PROVE TextInv'
    BY <2>1, PutKeeps
  <2>2. ASSUME NEW id \in Ids, Drop(id) PROVE TextInv'
    BY <2>2, DropKeeps
  <2>3. CASE Load
    BY <2>3, LoadKeeps
  <2>4. CASE UNCHANGED vars
    <3>1. index' = index /\ held' = held /\ unsorted' = unsorted
      BY <2>4 DEF vars, index
    <3> QED
      BY <3>1 DEF TextInv
  <2> QED
    BY <2>1, <2>2, <2>3, <2>4 DEF Next
<1> QED
  BY <1>1, <1>2, PTL DEF Spec

-----------------------------------------------------------------------------
(* The theorems.                                                           *)

(* Type correctness: in particular the corpus token count stays a number,  *)
(* so that the subtraction in remove_at never wraps.                       *)
THEOREM TextTypeCorrect == Spec => []TypeOK
<1>1. TextInv => TypeOK
  <2> SUFFICES ASSUME TextInv PROVE TypeOK
    OBVIOUS
  <2>1. ids \in Seq(Ids) /\ doc_lens \in Seq(Nat) /\ doc_terms \in Seq(SUBSET Terms)
        /\ total_tokens = SumFunction(doc_lens)
    BY DEF TextInv, ArraysOK, index
  <2>2. total_tokens \in Nat
    BY <2>1, SumAppended
  <2>3. postings \in [Terms -> Seq((Nat \ {0}) \X (Nat \ {0}))]
    BY DEF TextInv, ListsTyped, index, Posting, Positive
  <2> QED
    BY <2>1, <2>2, <2>3 DEF TypeOK, TextInv
<1> QED
  BY <1>1, TextInvariant, PTL

(* The parallel arrays of the index list the documents that hold text,     *)
(* each once, position by position with their lengths and stems, and the   *)
(* token count is the sum of the lengths, whatever order the posting lists *)
(* are in.                                                                 *)
THEOREM TextArraysParallel == Spec => []ArraysParallel
<1>1. TextInv => ArraysParallel
  <2> SUFFICES ASSUME TextInv PROVE ArraysParallel
    OBVIOUS
  <2>1. /\ ids \in Seq(Ids) /\ IsInjective(ids) /\ ToSet(ids) = DOMAIN held
        /\ Len(doc_lens) = Len(ids) /\ Len(doc_terms) = Len(ids)
        /\ total_tokens = SumFunction(doc_lens)
        /\ \A i \in 1..Len(ids) : /\ doc_lens[i] = Length(held[ids[i]])
                                  /\ doc_terms[i] = Stems(held[ids[i]])
    BY DEF TextInv, ArraysOK, index
  <2>2. DOMAIN ids = 1..Len(ids)
    BY <2>1
  <2> QED
    BY <2>1, <2>2 DEF ArraysParallel, IdsExact
<1> QED
  BY <1>1, TextInvariant, PTL

(* Unless a posting list has been out of order since the last build, the   *)
(* posting lists hold exactly what the texts of the moment call for:       *)
(* remove_at finds every entry it is to drop or to repoint.                *)
THEOREM TextExactWhileSorted == Spec => []ExactWhileSorted
<1>1. TextInv => ExactWhileSorted
  <2> SUFFICES ASSUME TextInv, ~unsorted, NEW t \in Terms
               PROVE  /\ ToSet(postings[t]) =
                           {<<i, held[ids[i]][t]>> : i \in {j \in DOMAIN ids : t \in doc_terms[j]}}
                      /\ IsInjective(postings[t])
    BY DEF ExactWhileSorted, PostingsExact
  <2> DEFINE list == postings[t]
             F == Frequencies(index, held, t)
             n == Len(ids)
  <2>1. ListExact(list, F)
    BY DEF TextInv, ListsExact, index
  <2>2. /\ Len(F) = n /\ DOMAIN ids = 1..n
        /\ \A i \in 1..n : F[i] = held[ids[i]][t] /\ (F[i] > 0 <=> t \in doc_terms[i])
    <3>1. TextsOK(held) /\ ArraysOK(index, held) /\ index.ids = ids
          /\ index.doc_terms = doc_terms
      BY DEF TextInv, index
    <3>2. DOMAIN ids = 1..n
      BY <3>1 DEF ArraysOK
    <3> HIDE DEF n
    <3> QED
      BY <3>1, <3>2, FrequencyFacts DEF n
  <2> HIDE DEF list, F, n
  <2>3. list \in Seq(Posting) /\ DOMAIN list = 1..Len(list)
    BY <2>1 DEF ListExact
  <2>4. \A p \in 1..Len(list) : /\ list[p] = <<list[p][1], list[p][2]>> /\ list[p][2] > 0
                                /\ list[p][1] \in 1..n /\ list[p][2] = F[list[p][1]]
    <3>1. \A p \in 1..Len(list) : list[p] \in Posting
      BY <2>3
    <3> QED
      BY <2>1, <2>2, <3>1 DEF ListExact, Posting, Positive
  <2>5. ASSUME NEW x \in ToSet(list)
        PROVE  \E i \in 1..n : t \in doc_terms[i] /\ x = <<i, held[ids[i]][t]>>
    <3>1. PICK p \in 1..Len(list) : list[p] = x
      BY <2>3, SeqElements
    <3> QED
      BY <2>2, <2>4, <3>1
  <2>6. ASSUME NEW i \in 1..n, t \in doc_terms[i]
        PROVE  <<i, held[ids[i]][t]>> \in ToSet(list)
    <3>1. F[i] > 0
      BY <2>2, <2>6
    <3>2. PICK p \in 1..Len(list) : list[p][1] = i
      BY <2>1, <2>2, <3>1 DEF ListExact
    <3>3. list[p] = <<i, held[ids[i]][t]>>
      BY <2>2, <2>4, <3>2
    <3> QED
      BY <2>3, <3>3, SeqElements
  <2>7. ToSet(list) = {<<i, held[ids[i]][t]>> : i \in {j \in DOMAIN ids : t \in doc_terms[j]}}
    BY <2>2, <2>5, <2>6
  <2>8. IsInjective(list)
    BY <2>1, <2>3 DEF ListExact, IsInjective
  <2> QED
    BY <2>7, <2>8 DEF list
<1> QED
  BY <1>1, TextInvariant, PTL

-----------------------------------------------------------------------------
(* Searches.                                                               *)

(* The arrays tell what the texts do: how many documents there are, how    *)
(* long each is, and how many tokens they have in all.                     *)
LEMMA CorpusFacts ==
  ASSUME TextInv
  PROVE  LET n == Len(ids) IN
         /\ ids \in Seq(Ids) /\ IsInjective(ids) /\ n \in Nat /\ DOMAIN ids = 1..n
         /\ \A i \in 1..n : ids[i] \in DOMAIN held
         /\ \A d \in DOMAIN held : \E i \in 1..n : ids[i] = d
         /\ IsFiniteSet(DOMAIN held) /\ Cardinality(DOMAIN held) = n
         /\ \A i \in 1..n : doc_lens[i] = Length(held[ids[i]])
         /\ \A i \in 1..n, t \in Terms :
              /\ held[ids[i]][t] \in Nat /\ doc_lens[i] \in Nat /\ total_tokens \in Nat
              /\ held[ids[i]][t] <= doc_lens[i] /\ doc_lens[i] <= total_tokens
         /\ total_tokens = SumFunction([d \in DOMAIN held |-> Length(held[d])])
<1> DEFINE n == Len(ids)
           docs == DOMAIN held
           lens == [d \in docs |-> Length(held[d])]
<1>1. /\ ids \in Seq(Ids) /\ IsInjective(ids) /\ ToSet(ids) = docs
      /\ doc_lens \in Seq(Nat) /\ Len(doc_lens) = n
      /\ \A i \in 1..n : doc_lens[i] = Length(held[ids[i]])
      /\ total_tokens = SumFunction(doc_lens)
      /\ \A d \in docs : held[d] \in Texts
  BY DEF TextInv, ArraysOK, TextsOK, index
<1>2. n \in Nat /\ DOMAIN ids = 1..n /\ DOMAIN doc_lens = 1..n
      /\ \A i \in 1..n : doc_lens[i] \in Nat
  BY <1>1
<1> HIDE DEF n, docs
<1>3. (\A i \in 1..n : ids[i] \in docs) /\ \A d \in docs : \E i \in 1..n : ids[i] = d
  BY <1>1, <1>2 DEF ToSet
<1>4. IsFiniteSet(1..n) /\ Cardinality(1..n) = n
  BY <1>2, FS_Interval
<1>5. IsFiniteSet(docs) /\ Cardinality(docs) = n
  <2>1. ids \in [1..n -> docs]
    <3>1. ids = [i \in 1..n |-> ids[i]]
      BY <1>1, <1>2
    <3> QED
      BY <1>3, <3>1
  <2>2. ids \in Bijection(1..n, docs)
    BY <1>1, <1>2, <1>3, <2>1 DEF Bijection, Injection, Surjection, IsInjective
  <2> QED
    BY <1>4, <2>2, FS_Bijection DEF ExistsBijection
<1>6. total_tokens = SumFunctionOnSet(doc_lens, 1..n)
  BY <1>1, <1>2, Zenon DEF SumFunction
<1>7. total_tokens \in Nat /\ \A i \in 1..n : doc_lens[i] <= total_tokens
  <2>1. SumFunctionOnSet(doc_lens, 1..n) \in Nat
    BY <1>2, <1>4, SumType
  <2>2. \A i \in 1..n : doc_lens[i] <= SumFunctionOnSet(doc_lens, 1..n)
    BY <1>2, <1>4, SumSame
  <2> QED
    BY <1>6, <2>1, <2>2
<1>8. total_tokens = SumFunction(lens)
  <2>1. \A i \in 1..n : ids[i] \in docs /\ doc_lens[i] = lens[ids[i]] /\ doc_lens[i] \in Nat
    BY <1>1, <1>2, <1>3
  <2>2. SumFunction(lens) = SumFunctionOnSet(lens, docs)
    BY Zenon DEF SumFunction
  <2> HIDE DEF lens
  <2>3. Relabels(ids, 1..n, docs, lens, doc_lens)
    BY <1>1, <1>2, <1>3, <1>4, <2>1 DEF Relabels, IsInjective
  <2>4. SumFunctionOnSet(doc_lens, 1..n) = SumFunctionOnSet(lens, docs)
    BY <2>3, SumRelabel
  <2> QED
    BY <1>6, <2>2, <2>4
<1>9. ASSUME NEW i \in 1..n, NEW t \in Terms
      PROVE  held[ids[i]][t] \in Nat /\ held[ids[i]][t] <= doc_lens[i]
  <2> DEFINE text == held[ids[i]]
  <2>1. text \in Texts /\ doc_lens[i] = Length(text)
    BY <1>1, <1>3
  <2> HIDE DEF text
  <2>2. DOMAIN text = Terms /\ \A s \in Terms : text[s] \in Nat
    BY <2>1, TextAssumption
  <2>3. Length(text) = SumFunctionOnSet(text, Terms)
    BY <2>2, Zenon DEF Length, SumFunction
  <2>4. text[t] <= SumFunctionOnSet(text, Terms)
    BY <2>2, TextAssumption, SumSame
  <2>5. text[t] \in Nat /\ text[t] <= doc_lens[i]
    BY <2>1, <2>2, <2>3, <2>4
  <2> QED
    BY <2>5 DEF text
<1> QED
  BY <1>1, <1>2, <1>3, <1>5, <1>7, <1>8, <1>9 DEF n, docs

(* The length of an exact list is the number of documents with the stem.   *)
LEMMA ListLength ==
  ASSUME TextInv, ~unsorted, NEW t \in Terms
  PROVE  Len(postings[t]) = Cardinality({d \in DOMAIN held : held[d][t] > 0})
<1> DEFINE list == postings[t]
           F == Frequencies(index, held, t)
           n == Len(ids)
           m == Len(list)
           Holding == {d \in DOMAIN held : held[d][t] > 0}
           b == [p \in 1..m |-> ids[list[p][1]]]
<1>1. ListExact(list, F)
  BY DEF TextInv, ListsExact, index
<1>2. F = [i \in 1..n |-> held[ids[i]][t]] /\ n \in Nat
  BY CorpusFacts DEF Frequencies, index
<1> HIDE DEF F
<1>3. Len(F) = n /\ \A i \in 1..n : F[i] = held[ids[i]][t]
  BY <1>2
<1>4. /\ IsInjective(ids) /\ DOMAIN ids = 1..n
      /\ \A i \in 1..n : ids[i] \in DOMAIN held
      /\ \A d \in DOMAIN held : \E i \in 1..n : ids[i] = d
  BY CorpusFacts
<1> HIDE DEF list, n
<1>5. m \in Nat /\ \A p \in 1..m : list[p] \in Posting
  BY <1>1 DEF ListExact
<1>6. \A p \in 1..m : list[p][1] \in 1..n /\ list[p][2] = F[list[p][1]] /\ list[p][2] > 0
  BY <1>1, <1>3, <1>5 DEF ListExact, Posting, Positive
<1> HIDE DEF m
<1>7. \A p \in 1..m : b[p] \in Holding
  BY <1>3, <1>4, <1>6
<1>8. \A p, r \in 1..m : b[p] = b[r] => p = r
  <2> SUFFICES ASSUME NEW p \in 1..m, NEW r \in 1..m, b[p] = b[r]
               PROVE  p = r
    OBVIOUS
  <2>1. list[p][1] = list[r][1]
    BY <1>4, <1>6 DEF IsInjective
  <2> QED
    BY <1>1, <2>1 DEF ListExact, m
<1>9. \A d \in Holding : \E p \in 1..m : b[p] = d
  <2> TAKE d \in Holding
  <2>1. PICK i \in 1..n : ids[i] = d
    BY <1>4
  <2>2. F[i] > 0
    BY <1>3, <2>1
  <2>3. PICK p \in 1..m : list[p][1] = i
    BY <1>1, <1>3, <2>2 DEF ListExact, m
  <2> QED
    BY <2>1, <2>3
<1>10. Cardinality(1..m) = m /\ IsFiniteSet(1..m)
  BY <1>5, FS_Interval
<1>11. DOMAIN b = 1..m
  OBVIOUS
<1>12. b \in [1..m -> Holding]
  BY <1>7
<1> HIDE DEF b, Holding
<1>13. b \in Bijection(1..m, Holding)
  BY <1>8, <1>9, <1>11, <1>12 DEF Bijection, Injection, Surjection, IsInjective
<1>14. Cardinality(Holding) = m
  BY <1>10, <1>13, FS_Bijection DEF ExistsBijection
<1> QED
  BY <1>14 DEF Holding, m, list

(* A stem that a document holds weighs something.                          *)
LEMMA WeightPositive ==
  ASSUME NEW n \in Nat, NEW df \in Nat, NEW total \in Nat, NEW tf \in Nat, NEW dl \in Nat,
         tf > 0, tf <= dl, dl <= total
  PROVE  Weight(n, df, total, tf, dl) \in Nat /\ Weight(n, df, total, tf, dl) > 0
<1> DEFINE rarity == (2000 * (n + 1)) \div (2 * df + 1)
           scale  == 10 * tf * total + 3 * total + 9 * dl * n
<1>1. \A a, c \in Nat : a * c \in Nat
  OBVIOUS
<1>2. \A a \in Nat, c \in Nat \ {0} : a \div c \in Nat
  OBVIOUS
<1>3. rarity \in Nat
  BY <1>2
<1>4. 10 * tf * total \in Nat /\ 9 * dl * n \in Nat
  BY <1>1
<1>5. scale \in Nat \ {0}
  BY <1>4
<1> HIDE DEF rarity, scale
<1>6. rarity * 22 * tf * total \in Nat
  BY <1>1, <1>3
<1>7. (rarity * 22 * tf * total) \div scale \in Nat
  <2> DEFINE a == rarity * 22 * tf * total
  <2> HIDE DEF a
  <2>1. a \div scale \in Nat
    BY <1>2, <1>5, <1>6 DEF a
  <2> QED
    BY <2>1 DEF a
<1>8. Weight(n, df, total, tf, dl) = (rarity * 22 * tf * total) \div scale + 1
  BY DEF Weight, rarity, scale
<1> QED
  BY <1>7, <1>8

(* What a stem deserves to add to the score of document id.                *)
Worth(t, id) ==
  Weight(Cardinality(DOMAIN held),
         Cardinality({d \in DOMAIN held : held[d][t] > 0}),
         SumFunction([d \in DOMAIN held |-> Length(held[d])]),
         held[id][t], Length(held[id]))

(* The entries of a stem's list that name a position.                      *)
Entries(t, i) ==
  [p \in DOMAIN postings[t] |->
     IF postings[t][p][1] = i
     THEN Weight(Len(ids), Len(postings[t]), total_tokens, postings[t][p][2], doc_lens[i])
     ELSE 0]

(* A stem adds what it is worth to the documents that hold it, by its one  *)
(* entry for the document, and nothing to the others.                      *)
LEMMA AddedIs ==
  ASSUME TextInv, ~unsorted, NEW t \in Terms, NEW i \in 1..Len(ids)
  PROVE  /\ SumFunction(Entries(t, i)) =
              IF held[ids[i]][t] > 0 THEN Worth(t, ids[i]) ELSE 0
         /\ held[ids[i]][t] > 0 => Worth(t, ids[i]) \in Nat /\ Worth(t, ids[i]) > 0
<1> DEFINE list == postings[t]
           F == Frequencies(index, held, t)
           n == Len(ids)
           m == Len(list)
           df == Cardinality({d \in DOMAIN held : held[d][t] > 0})
           w == Weight(n, df, total_tokens, held[ids[i]][t], doc_lens[i])
           E == Entries(t, i)
<1>1. ListExact(list, F)
  BY DEF TextInv, ListsExact, index
<1>2. F = [k \in 1..n |-> held[ids[k]][t]] /\ n \in Nat
  BY CorpusFacts DEF Frequencies, index
<1> HIDE DEF F
<1>3. Len(F) = n /\ \A k \in 1..n : F[k] = held[ids[k]][t]
  BY <1>2
<1>4. /\ held[ids[i]][t] \in Nat /\ doc_lens[i] \in Nat /\ total_tokens \in Nat
      /\ held[ids[i]][t] <= doc_lens[i] /\ doc_lens[i] <= total_tokens
      /\ doc_lens[i] = Length(held[ids[i]]) /\ Cardinality(DOMAIN held) = n
      /\ total_tokens = SumFunction([d \in DOMAIN held |-> Length(held[d])])
  BY CorpusFacts
<1>5. m \in Nat /\ DOMAIN list = 1..m /\ \A p \in 1..m : list[p] \in Posting
  BY <1>1 DEF ListExact
<1>6. m = df
  BY ListLength
<1>7. Worth(t, ids[i]) = w
  BY <1>4, Zenon DEF Worth
<1>8. E = [p \in 1..m |-> IF list[p][1] = i
                          THEN Weight(n, df, total_tokens, list[p][2], doc_lens[i]) ELSE 0]
  BY <1>5, <1>6, Zenon DEF Entries
<1> HIDE DEF list, E, n, df
<1>9. \A p \in 1..m : /\ list[p][1] \in 1..n /\ list[p][2] = F[list[p][1]] /\ list[p][2] > 0
                      /\ list[p][1] = i => list[p][2] = held[ids[i]][t]
  BY <1>1, <1>3, <1>5 DEF ListExact, Posting, Positive, n
<1>10. held[ids[i]][t] > 0 => w \in Nat /\ w > 0
  BY <1>2, <1>4, <1>5, <1>6, WeightPositive
<1> HIDE DEF w, m
<1>11. \A p \in 1..m : E[p] = IF list[p][1] = i THEN w ELSE 0
  BY <1>8, <1>9 DEF w
<1>12. DOMAIN E = 1..m /\ IsFiniteSet(1..m)
  BY <1>5, <1>8, FS_Interval
<1>13. SumFunction(E) = SumFunctionOnSet(E, 1..m)
  BY <1>12, Zenon DEF SumFunction
<1>14. CASE held[ids[i]][t] > 0
  <2>1. PICK p \in 1..m : list[p][1] = i
    BY <1>1, <1>3, <1>14 DEF ListExact, m, n
  <2>2. \A r \in (1..m) \ {p} : list[r][1] # i
    BY <1>1, <2>1 DEF ListExact, m
  <2>3. E[p] = w /\ (\A r \in 1..m : E[r] \in Nat) /\ \A r \in (1..m) \ {p} : E[r] = 0
    BY <1>10, <1>11, <1>14, <2>1, <2>2
  <2>4. SumFunctionOnSet(E, 1..m) = w
    BY <1>12, <2>3, SumSingle
  <2> QED
    BY <1>7, <1>10, <1>13, <1>14, <2>4 DEF E
<1>15. CASE ~(held[ids[i]][t] > 0)
  <2>1. \A p \in 1..m : list[p][1] # i
    BY <1>9, <1>15
  <2>2. \A p \in 1..m : E[p] = 0
    BY <1>11, <2>1
  <2>3. SumFunctionOnSet(E, 1..m) = SumFunctionOnSet(E, {})
    <3>1. {} \in SUBSET (1..m) /\ (\A p \in 1..m : E[p] \in Nat) /\ \A p \in (1..m) \ {} : E[p] = 0
      BY <2>2
    <3> DEFINE none == {}
    <3>2. none \in SUBSET (1..m) /\ \A p \in (1..m) \ none : E[p] = 0
      BY <2>2
    <3> HIDE DEF none
    <3>3. SumFunctionOnSet(E, 1..m) = SumFunctionOnSet(E, none)
      BY <1>12, <3>1, <3>2, SumZeros
    <3> QED
      BY <3>3 DEF none
  <2>4. SumFunctionOnSet(E, {}) = 0
    BY FS_EmptySet, SumStep
  <2> QED
    BY <1>13, <1>15, <2>3, <2>4 DEF E
<1> QED
  BY <1>14, <1>15

(* A document's score is its relevance, positive when it has a stem of the *)
(* query.                                                                  *)
LEMMA ScoreIs ==
  ASSUME TextInv, ~unsorted, NEW q \in SUBSET Terms, NEW i \in 1..Len(ids)
  PROVE  /\ Score(q, i) = Relevance(q, ids[i]) /\ Score(q, i) \in Nat
         /\ Score(q, i) > 0 <=> \E t \in q : held[ids[i]][t] > 0
<1> DEFINE id == ids[i]
           R == {s \in q : held[id][s] > 0}
           added == [t \in q |-> SumFunction(Entries(t, i))]
           worth == [t \in R |-> Worth(t, id)]
<1>1. \A t \in q : /\ added[t] = IF held[id][t] > 0 THEN Worth(t, id) ELSE 0
                   /\ held[id][t] > 0 => Worth(t, id) \in Nat /\ Worth(t, id) > 0
  BY AddedIs
<1>2. Score(q, i) = SumFunctionOnSet(added, q)
  <2>1. Score(q, i) = SumFunction(added)
    BY Zenon DEF Score, Entries
  <2>2. DOMAIN added = q
    OBVIOUS
  <2> HIDE DEF added
  <2> QED
    BY <2>1, <2>2, Zenon DEF SumFunction
<1>3. Relevance(q, id) = SumFunctionOnSet(worth, R)
  <2>1. Relevance(q, id) = SumFunction(worth)
    BY Zenon DEF Relevance, Worth
  <2>2. DOMAIN worth = R
    OBVIOUS
  <2> HIDE DEF worth, R
  <2> QED
    BY <2>1, <2>2, Zenon DEF SumFunction
<1>4. IsFiniteSet(q) /\ IsFiniteSet(R)
  BY TextAssumption, FS_Subset
<1>5. \A t \in R : t \in q /\ added[t] = worth[t] /\ added[t] \in Nat /\ added[t] > 0
  BY <1>1
<1>6. \A t \in q : added[t] \in Nat /\ (t \notin R => added[t] = 0)
  BY <1>1
<1>7. R = {} <=> ~\E t \in q : held[id][t] > 0
  OBVIOUS
<1>8. R \in SUBSET q
  OBVIOUS
<1> HIDE DEF added, worth, R
<1>9. SumFunctionOnSet(added, q) = SumFunctionOnSet(added, R)
  BY <1>4, <1>6, <1>8, SumZeros
<1>10. SumFunctionOnSet(added, R) = SumFunctionOnSet(worth, R)
       /\ \A t \in R : added[t] <= SumFunctionOnSet(added, R)
  BY <1>4, <1>5, SumSame
<1>11. SumFunctionOnSet(added, R) \in Nat
  BY <1>4, <1>5, SumType
<1>12. CASE R = {}
  <2>1. SumFunctionOnSet(added, R) = 0
    BY <1>12, FS_EmptySet, SumStep
  <2> QED
    BY <1>2, <1>3, <1>7, <1>9, <1>10, <1>11, <1>12, <2>1
<1>13. CASE R # {}
  <2>1. PICK t \in R : TRUE
    BY <1>13
  <2>2. SumFunctionOnSet(added, R) > 0
    BY <1>5, <1>10, <1>11, <2>1
  <2> QED
    BY <1>2, <1>3, <1>7, <1>9, <1>10, <1>11, <1>13, <2>2
<1> QED
  BY <1>12, <1>13

(* As long as no posting list has been out of order, a search gives the    *)
(* documents with a stem of the query and no others, each with the score   *)
(* that the texts of the moment alone give it, best first, in the bounds   *)
(* of the arrays; and a limit keeps the first (Collection::text_search).   *)
THEOREM TextSearchExact == Spec => []SearchExactWhileSorted
<1>1. ASSUME TextInv PROVE SearchExactWhileSorted
  <2> SUFFICES ASSUME NEW q \in SUBSET Terms, ~unsorted
               PROVE
        LET hits == TextSearch(q, 0) IN
        /\ ~Panics(q)
        /\ ToSet(hits) = {<<id, Relevance(q, id)>> :
                             id \in {d \in DOMAIN held : \E t \in q : held[d][t] > 0}}
        /\ \A a, b \in DOMAIN hits : a < b => hits[a][1] # hits[b][1] /\ hits[a][2] >= hits[b][2]
        /\ \A limit \in Limits \ {0} :
             TextSearch(q, limit) = SubSeq(hits, 1, Min({limit, Len(hits)}))
    BY Zenon DEF SearchExactWhileSorted
  <2> DEFINE n      == Len(ids)
             all    == {<<i, Score(q, i)>> : i \in DOMAIN ids}
             scored == {x \in all : x[2] > 0}
             best   == BestFirst(scored)
             hits   == TextSearch(q, 0)
             listed == Hits(ids, best)
             Has(d) == \E t \in q : held[d][t] > 0
  <2>1. /\ ids \in Seq(Ids) /\ IsInjective(ids) /\ n \in Nat /\ DOMAIN ids = 1..n
        /\ \A i \in 1..n : ids[i] \in DOMAIN held
        /\ \A d \in DOMAIN held : \E i \in 1..n : ids[i] = d
    BY <1>1, CorpusFacts
  <2>2. \A i \in 1..n : /\ Score(q, i) = Relevance(q, ids[i]) /\ Score(q, i) \in Nat
                        /\ Score(q, i) > 0 <=> Has(ids[i])
    BY <1>1, ScoreIs
  <2>3. ~Panics(q)
    <3> SUFFICES ASSUME NEW t \in q
                 PROVE  ToSet(DocIdx(postings[t])) \subseteq DOMAIN ids
      BY DEF Panics
    <3>1. ListExact(postings[t], Frequencies(index, held, t))
      BY <1>1 DEF TextInv, ListsExact, index
    <3>2. Len(Frequencies(index, held, t)) = n
      BY <2>1 DEF Frequencies, index
    <3>3. \A p \in DOMAIN postings[t] : postings[t][p][1] \in 1..n
      BY <3>1, <3>2 DEF ListExact
    <3> QED
      BY <2>1, <3>3 DEF ToSet, DocIdx
  <2> HIDE DEF Has
  <2>4. \A x \in scored : \E i \in 1..n : /\ x = <<i, Score(q, i)>> /\ Has(ids[i])
                                          /\ x[1] = i /\ x[2] = Relevance(q, ids[i])
    BY <2>1, <2>2
  <2>5. \A i \in 1..n : Has(ids[i]) =>
          <<i, Score(q, i)>> \in scored /\ Score(q, i) = Relevance(q, ids[i])
    BY <2>1, <2>2
  <2>6. \A limit : TextSearch(q, limit) = Hits(ids, Cut(best, limit))
    BY Zenon DEF TextSearch, Hits, Truncated, Cut
  <2> HIDE DEF scored, n
  <2>7. ScoredOnce(scored, Len(ids))
    <3>1. ScoredOnce(scored, n)
      BY <2>2, <2>4 DEF ScoredOnce
    <3> QED
      BY <3>1 DEF n
  <2>8. /\ listed \in Seq(Ids \X Int)
        /\ ToSet(listed) = {<<ids[x[1]], x[2]>> : x \in scored}
        /\ \A a, b \in 1..Len(listed) : a < b =>
             listed[a][1] # listed[b][1] /\ listed[a][2] >= listed[b][2]
        /\ \A limit \in Nat : Hits(ids, Cut(best, limit)) = Cut(listed, limit)
    <3>1. ids \in Seq(Ids) /\ IsInjective(ids)
      BY <2>1
    <3>2. ListsBest(listed, Ids, ids, scored)
      BY <2>7, <3>1, HitsListed
    <3> HIDE DEF listed
    <3> QED
      BY <3>2 DEF ListsBest
  <2>9. hits = listed
    BY <2>6 DEF Cut
  <2> HIDE DEF listed, hits, best
  <2>10. ToSet(hits) = {<<id, Relevance(q, id)>> : id \in {d \in DOMAIN held : Has(d)}}
    <3>1. ASSUME NEW x \in scored
          PROVE  \E d \in DOMAIN held : Has(d) /\ <<ids[x[1]], x[2]>> = <<d, Relevance(q, d)>>
      BY <2>1, <2>4
    <3>2. ASSUME NEW d \in DOMAIN held, Has(d)
          PROVE  \E x \in scored : <<ids[x[1]], x[2]>> = <<d, Relevance(q, d)>>
      <4>1. PICK i \in 1..n : ids[i] = d
        BY <2>1
      <4>2. <<i, Score(q, i)>> \in scored /\ Score(q, i) = Relevance(q, d)
        BY <2>5, <3>2, <4>1
      <4> QED
        BY <4>1, <4>2
    <3> QED
      BY <2>8, <2>9, <3>1, <3>2
  <2>11. DOMAIN hits = 1..Len(hits)
    BY <2>8, <2>9
  <2>12. ASSUME NEW limit \in Limits \ {0}
         PROVE  TextSearch(q, limit) = SubSeq(hits, 1, Min({limit, Len(hits)}))
    <3>1. limit \in Nat /\ limit # 0
      BY TextAssumption
    <3>2. TextSearch(q, limit) = Cut(hits, limit)
      BY <2>6, <2>8, <2>9, <3>1
    <3> QED
      BY <3>1, <3>2 DEF Cut
  <2> QED
    BY <2>3, <2>8, <2>9, <2>10, <2>11, <2>12 DEF hits, Has
<1> QED
  BY <1>1, TextInvariant, PTL
=============================================================================
