-------------------------- MODULE VectorIndexProofs --------------------------
(***************************************************************************)
(* Proofs about module VectorIndex: the list of ids and the flat buffer    *)
(* through every history of writes, removes and rebuilds, for any          *)
(* dimension and any number of documents.                                  *)
(*                                                                         *)
(* A slot is dim consecutive floats, so what must be shown of a buffer is  *)
(* about the product of a position and the dimension: one drain of dim     *)
(* floats at (p - 1) * dim takes slot p out whole and moves each later     *)
(* slot down by one.  The ids do not move so, which is why only the        *)
(* removes of the last two positions keep slots and ids together.          *)
(***************************************************************************)
EXTENDS VectorIndex, StdVecProofs

Floats == Vectors \X (1..dim)

(* Slot i of a buffer.                                                     *)
SlotIn(vs, i) == SubSeq(vs, (i - 1) * dim + 1, i * dim)

(* A buffer of n slots.                                                    *)
Packed(vs, n) == vs \in Seq(Floats) /\ Len(vs) = n * dim

-----------------------------------------------------------------------------
(* Slots.                                                                  *)

(* Arithmetic of slots: the i-th ends before those after it begin.         *)
LEMMA SlotBounds ==
  ASSUME NEW i \in Nat \ {0}, NEW n \in Nat, i <= n
  PROVE  /\ i * dim <= n * dim /\ i * dim \in Nat /\ n * dim \in Nat
         /\ (i - 1) * dim = i * dim - dim /\ (i - 1) * dim \in Nat
         /\ (i + 1) * dim = i * dim + dim
<1>1. \A a, b \in Nat : a * b \in Nat
  OBVIOUS
<1>2. (n - i) * dim \in Nat /\ (n - i) * dim = n * dim - i * dim
  BY <1>1, DimAssumption
<1> QED
  BY <1>1, <1>2, DimAssumption

(* A slot, float by float.                                                 *)
LEMMA SlotFloats ==
  ASSUME NEW n \in Nat, NEW vs, Packed(vs, n), NEW i \in 1..n
  PROVE  /\ SlotIn(vs, i) = [k \in 1..dim |-> vs[(i - 1) * dim + k]]
         /\ \A k \in 1..dim : (i - 1) * dim + k \in 1..Len(vs)
<1>1. /\ i * dim <= n * dim /\ i * dim \in Nat /\ n * dim \in Nat
      /\ (i - 1) * dim = i * dim - dim /\ (i - 1) * dim \in Nat
  BY SlotBounds, SMTT(60)
<1> DEFINE from == (i - 1) * dim
           to == i * dim
<1>2. /\ from \in Nat /\ to \in Nat /\ to = from + dim /\ to <= Len(vs)
      /\ vs \in Seq(Floats)
  BY <1>1, DimAssumption DEF Packed
<1> HIDE DEF from, to
<1>3. /\ SubSeq(vs, from + 1, to) = [k \in 1..dim |-> vs[from + k]]
      /\ \A k \in 1..dim : from + k \in 1..Len(vs)
  BY <1>2, DimAssumption
<1> QED
  BY <1>3 DEF SlotIn, from, to

(* Two slots are the same if their floats are.                             *)
LEMMA SameSlot ==
  ASSUME NEW n \in Nat, NEW vs, Packed(vs, n), NEW i \in 1..n,
         NEW m \in Nat, NEW ws, Packed(ws, m), NEW j \in 1..m,
         \A k \in 1..dim : vs[(i - 1) * dim + k] = ws[(j - 1) * dim + k]
  PROVE  SlotIn(vs, i) = SlotIn(ws, j)
<1>1. SlotIn(vs, i) = [k \in 1..dim |-> vs[(i - 1) * dim + k]]
  BY SlotFloats
<1>2. SlotIn(ws, j) = [k \in 1..dim |-> ws[(j - 1) * dim + k]]
  BY SlotFloats
<1>3. [k \in 1..dim |-> vs[(i - 1) * dim + k]] = [k \in 1..dim |-> ws[(j - 1) * dim + k]]
  OBVIOUS
<1> QED
  BY <1>1, <1>2, <1>3

(* Draining slot p takes it out, and moves the later ones down by one.     *)
LEMMA DrainedSlots ==
  ASSUME NEW n \in Nat, NEW vs, Packed(vs, n), NEW p \in 1..n
  PROVE  LET ws == Drain(vs, (p - 1) * dim, dim) IN
         /\ Packed(ws, n - 1)
         /\ \A i \in 1..(n - 1) :
              SlotIn(ws, i) = SlotIn(vs, IF i < p THEN i ELSE i + 1)
<1> DEFINE from == (p - 1) * dim
           ws == Drain(vs, from, dim)
<1>1. /\ from \in Nat /\ from + dim <= n * dim /\ n * dim \in Nat
      /\ n - 1 \in Nat /\ (n - 1) * dim = n * dim - dim
  BY SlotBounds, DimAssumption
<1>2. Len(vs) = n * dim /\ vs \in Seq(Floats) /\ Len(vs) - dim \in Nat
  BY <1>1, DimAssumption DEF Packed
<1> HIDE DEF from
<1>3. \A k \in 1..(Len(vs) - dim) : k \in 1..Len(vs) /\ k + dim \in 1..Len(vs)
  BY <1>2, DimAssumption
<1>4. ws \in Seq(Floats) /\ Len(ws) = Len(vs) - dim
  BY <1>2, <1>3 DEF Drain
<1>5. Packed(ws, n - 1)
  BY <1>1, <1>2, <1>4 DEF Packed
<1>7. \A k \in 1..Len(ws) : ws[k] = vs[IF k <= from THEN k ELSE k + dim]
  BY <1>4 DEF Drain
<1>6. ASSUME NEW i \in 1..(n - 1)
      PROVE  SlotIn(ws, i) = SlotIn(vs, IF i < p THEN i ELSE i + 1)
  <2>1. \A k \in 1..dim : (i - 1) * dim + k \in 1..Len(ws)
    BY <1>1, <1>5, SlotFloats
  <2>2. CASE i < p
    <3>1. i * dim <= from /\ (i - 1) * dim = i * dim - dim /\ i * dim \in Nat
      <4>1. p - 1 \in Nat /\ i <= p - 1 /\ i \in Nat \ {0}
        BY <2>2
      <4> QED
        BY <4>1, SlotBounds DEF from
    <3>2. \A k \in 1..dim : ws[(i - 1) * dim + k] = vs[(i - 1) * dim + k]
      <4> TAKE k \in 1..dim
      <4>1. (i - 1) * dim + k <= from
        BY <1>1, <3>1, DimAssumption
      <4>2. (i - 1) * dim + k \in 1..Len(ws)
        BY <2>1
      <4> QED
        BY <1>7, <4>1, <4>2
    <3> QED
      BY <1>1, <1>5, <2>2, <3>2, SameSlot
  <2>3. CASE ~(i < p)
    <3>1. from <= (i - 1) * dim /\ (i + 1 - 1) * dim = (i - 1) * dim + dim
          /\ (i - 1) * dim \in Nat
      <4>1. p - 1 \in Nat /\ i - 1 \in Nat /\ p - 1 <= i - 1 /\ i \in Nat \ {0}
        BY <2>3
      <4>2. (i - 1) * dim \in Nat /\ (i + 1 - 1) * dim = (i - 1) * dim + dim
        BY <4>1, SlotBounds, DimAssumption
      <4>3. CASE p = 1
        BY <4>2, <4>3, DimAssumption DEF from
      <4>4. CASE p # 1
        <5>1. p - 1 \in Nat \ {0}
          BY <4>1, <4>4
        <5> QED
          BY <4>1, <4>2, <5>1, SlotBounds DEF from
      <4> QED
        BY <4>2, <4>3, <4>4
    <3>2. \A k \in 1..dim : ws[(i - 1) * dim + k] = vs[(i + 1 - 1) * dim + k]
      <4> TAKE k \in 1..dim
      <4>1. /\ ~((i - 1) * dim + k <= from)
            /\ (i - 1) * dim + k + dim = (i + 1 - 1) * dim + k
        BY <1>1, <3>1, DimAssumption
      <4>2. (i - 1) * dim + k \in 1..Len(ws)
        BY <2>1
      <4>3. ws[(i - 1) * dim + k] = vs[(i - 1) * dim + k + dim]
        BY <1>7, <4>1, <4>2
      <4> QED
        BY <4>1, <4>3
    <3>3. i + 1 \in 1..n
      OBVIOUS
    <3> QED
      BY <1>1, <1>5, <2>3, <3>2, <3>3, SameSlot
  <2> QED
    BY <2>2, <2>3
<1> QED
  BY <1>5, <1>6 DEF from

(* A vector written at the end is the last slot, and disturbs none.        *)
LEMMA AppendedSlots ==
  ASSUME NEW n \in Nat, NEW vs, Packed(vs, n), NEW w \in Seq(Floats), Len(w) = dim
  PROVE  /\ Packed(vs \o w, n + 1)
         /\ SlotIn(vs \o w, n + 1) = w
         /\ \A i \in 1..n : SlotIn(vs \o w, i) = SlotIn(vs, i)
<1>1. n * dim \in Nat /\ (n + 1) * dim = n * dim + dim /\ (n + 1 - 1) * dim = n * dim
  <2>1. \A a, b \in Nat : a * b \in Nat
    OBVIOUS
  <2> QED
    BY <2>1, DimAssumption
<1>2. /\ vs \in Seq(Floats) /\ Len(vs) = n * dim
      /\ vs \o w \in Seq(Floats) /\ Len(vs \o w) = n * dim + dim
  BY <1>1, DimAssumption DEF Packed
<1>3. Packed(vs \o w, n + 1)
  BY <1>1, <1>2 DEF Packed
<1>4. SlotIn(vs \o w, n + 1) = w
  <2>1. SlotIn(vs \o w, n + 1) = [k \in 1..dim |-> (vs \o w)[n * dim + k]]
    <3> DEFINE ws == vs \o w
               m  == n + 1
    <3>1. Packed(ws, m) /\ m \in Nat /\ m \in 1..m
      BY <1>3
    <3> HIDE DEF ws, m
    <3>2. SlotIn(ws, m) = [k \in 1..dim |-> ws[(m - 1) * dim + k]]
      BY <3>1, SlotFloats
    <3>3. (m - 1) * dim = n * dim
      BY <1>1 DEF m
    <3>4. SlotIn(ws, m) = [k \in 1..dim |-> ws[n * dim + k]]
      BY <3>2, <3>3
    <3> QED
      BY <3>4 DEF ws, m
  <2>2. \A k \in 1..dim : (vs \o w)[n * dim + k] = w[k]
    BY <1>1, <1>2, DimAssumption
  <2>3. w = [k \in 1..dim |-> w[k]]
    OBVIOUS
  <2> QED
    BY <2>1, <2>2, <2>3
<1>5. ASSUME NEW i \in 1..n
      PROVE  SlotIn(vs \o w, i) = SlotIn(vs, i)
  <2>1. \A k \in 1..dim : (i - 1) * dim + k \in 1..Len(vs)
    BY SlotFloats
  <2>2. \A k \in 1..dim : (vs \o w)[(i - 1) * dim + k] = vs[(i - 1) * dim + k]
    BY <1>2, <2>1
  <2>3. n + 1 \in Nat /\ i \in 1..(n + 1)
    OBVIOUS
  <2> DEFINE ws == vs \o w
             m  == n + 1
  <2>4. Packed(ws, m) /\ m \in Nat /\ i \in 1..m
    BY <1>3, <2>3
  <2>5. \A k \in 1..dim : ws[(i - 1) * dim + k] = vs[(i - 1) * dim + k]
    BY <2>2
  <2> HIDE DEF ws, m
  <2> QED
    <3>1. SlotIn(ws, i) = SlotIn(vs, i)
      BY <2>4, <2>5, SameSlot
    <3> QED
      BY <3>1 DEF ws
<1> QED
  BY <1>3, <1>4, <1>5

(* The coordinates of a vector fill a slot.                                *)
LEMMA CoordinatesFill ==
  ASSUME NEW v \in Vectors
  PROVE  Coordinates(v) \in Seq(Floats) /\ Len(Coordinates(v)) = dim
BY DimAssumption DEF Coordinates, Floats

-----------------------------------------------------------------------------
(* A rebuilt buffer.                                                       *)

(* flatten, the function FlattenSeq takes its answer from, exists.         *)
LEMMA FlattenDefined ==
  ASSUME NEW seqs
  PROVE  \A n \in Nat : \E f : f = [i \in 1..n |-> IF i = 1 THEN seqs[i] ELSE f[i - 1] \o seqs[i]]
<1> DEFINE Step(f, i) == IF i = 1 THEN seqs[i] ELSE f[i - 1] \o seqs[i]
           T == {n \in Nat : \E f : f = [i \in 1..n |-> Step(f, i)]}
<1>1. 0 \in T
  <2> DEFINE e == [i \in {} |-> 0]
  <2>1. e = [i \in 1..0 |-> Step(e, i)]
    OBVIOUS
  <2> QED
    BY <2>1
<1>2. ASSUME NEW n \in Nat, n \in T
      PROVE  n + 1 \in T
  <2>1. PICK g : g = [i \in 1..n |-> Step(g, i)]
    BY <1>2
  <2> DEFINE f == [i \in 1..(n + 1) |-> IF i <= n THEN g[i] ELSE Step(g, i)]
  <2>2. ASSUME NEW i \in 1..(n + 1)
        PROVE  f[i] = Step(f, i)
    <3>1. f[i] = Step(g, i)
      <4>1. \A j \in 1..n : g[j] = Step(g, j)
        BY <2>1
      <4>2. i <= n => i \in 1..n
        OBVIOUS
      <4> HIDE DEF Step
      <4> QED
        BY <4>1, <4>2
    <3>2. CASE i = 1
      BY <3>1, <3>2
    <3>3. CASE i # 1
      <4>1. i - 1 \in 1..n /\ f[i - 1] = g[i - 1]
        BY <3>3
      <4> QED
        BY <3>1, <3>3, <4>1
    <3> QED
      BY <3>2, <3>3
  <2>3. f = [i \in 1..(n + 1) |-> f[i]]
    OBVIOUS
  <2> HIDE DEF f
  <2>4. f = [i \in 1..(n + 1) |-> Step(f, i)]
    BY <2>2, <2>3
  <2>5. \E h : h = [i \in 1..(n + 1) |-> Step(h, i)]
    <3> WITNESS f
    <3> QED
      BY <2>4
  <2>6. n + 1 \in Nat
    OBVIOUS
  <2> HIDE DEF Step
  <2> QED
    BY <2>5, <2>6, Zenon
<1>3. Nat \subseteq T
  <2> HIDE DEF T
  <2> QED
    BY <1>1, <1>2, Induction
<1> QED
  BY <1>3

(* Vectors written one after the other are the slots, in their order.      *)
LEMMA FlattenedSlots ==
  ASSUME NEW seqs \in Seq(Seq(Floats)), \A i \in 1..Len(seqs) : Len(seqs[i]) = dim
  PROVE  /\ Packed(FlattenSeq(seqs), Len(seqs))
         /\ \A i \in 1..Len(seqs) : SlotIn(FlattenSeq(seqs), i) = seqs[i]
<1> DEFINE n == Len(seqs)
<1>1. CASE n = 0
  <2>1. FlattenSeq(seqs) = seqs /\ seqs = <<>>
    BY <1>1 DEF FlattenSeq
  <2>2. Packed(<<>>, 0)
    BY DimAssumption, EmptySeq DEF Packed
  <2> QED
    BY <1>1, <2>1, <2>2
<1>2. CASE n # 0
  <2>1. PICK f : /\ f = [i \in 1..n |-> IF i = 1 THEN seqs[i] ELSE f[i - 1] \o seqs[i]]
                 /\ FlattenSeq(seqs) = f[n]
    <3>1. \E f : f = [i \in 1..n |-> IF i = 1 THEN seqs[i] ELSE f[i - 1] \o seqs[i]]
      <4>1. n \in Nat
        OBVIOUS
      <4> QED
        BY <4>1, FlattenDefined, Zenon
    <3>2. FlattenSeq(seqs) =
            (CHOOSE f : f = [i \in 1..n |-> IF i = 1 THEN seqs[i] ELSE f[i - 1] \o seqs[i]])[n]
      BY <1>2, Zenon DEF FlattenSeq
    <3> QED
      BY <3>1, <3>2, Zenon
  <2>7. \A i \in 1..n : f[i] = IF i = 1 THEN seqs[i] ELSE f[i - 1] \o seqs[i]
    BY <2>1
  <2> DEFINE Whole(j) == Packed(f[j], j) /\ \A i \in 1..j : SlotIn(f[j], i) = seqs[i]
             T == {j \in Nat : j \in 1..n => Whole(j)}
  <2>2. ASSUME NEW j \in Nat, j \in T, j + 1 \in 1..n
        PROVE  Whole(j + 1)
    <3>1. seqs[j + 1] \in Seq(Floats) /\ Len(seqs[j + 1]) = dim
      BY <2>2
    <3>2. CASE j = 0
      <4>1. f[1] = seqs[1]
        BY <1>2, <2>7
      <4>2. Packed(<<>>, 0)
        BY DimAssumption, EmptySeq DEF Packed
      <4>3. <<>> \o seqs[1] = seqs[1]
        BY <3>1, <3>2
      <4>4. Packed(seqs[1], 1) /\ SlotIn(seqs[1], 1) = seqs[1]
        <5> DEFINE e == <<>>
                   w == seqs[1]
                   z == 0
        <5>1. Packed(e, z) /\ w \in Seq(Floats) /\ Len(w) = dim /\ z \in Nat
          BY <3>1, <3>2, <4>2
        <5> HIDE DEF e, w, z
        <5>2. Packed(e \o w, z + 1) /\ SlotIn(e \o w, z + 1) = w
          BY <5>1, AppendedSlots
        <5> QED
          BY <4>3, <5>2 DEF e, w, z
      <4> QED
        BY <3>2, <4>1, <4>4
    <3>3. CASE j # 0
      <4>1. f[j + 1] = f[j] \o seqs[j + 1]
        <5>1. j + 1 # 1 /\ j + 1 - 1 = j
          BY <3>3
        <5>2. f[j + 1] = IF j + 1 = 1 THEN seqs[j + 1] ELSE f[j + 1 - 1] \o seqs[j + 1]
          <6>1. j + 1 \in 1..n
            BY <2>2
          <6> DEFINE i == j + 1
          <6> HIDE DEF i, n
          <6>2. i \in 1..n
            BY <6>1 DEF i
          <6>3. f[i] = IF i = 1 THEN seqs[i] ELSE f[i - 1] \o seqs[i]
            BY <2>7, <6>2
          <6> QED
            BY <6>3 DEF i
        <5> QED
          BY <5>1, <5>2
      <4>2. j \in 1..n /\ Packed(f[j], j) /\ \A i \in 1..j : SlotIn(f[j], i) = seqs[i]
        BY <2>2, <3>3
      <4> DEFINE vs == f[j]
                 w  == seqs[j + 1]
      <4>3. /\ Packed(vs \o w, j + 1) /\ SlotIn(vs \o w, j + 1) = w
            /\ \A i \in 1..j : SlotIn(vs \o w, i) = SlotIn(vs, i)
        <5>1. Packed(vs, j) /\ w \in Seq(Floats) /\ Len(w) = dim
          BY <3>1, <4>2
        <5> HIDE DEF vs, w
        <5> QED
          BY <5>1, AppendedSlots
      <4> QED
        BY <4>1, <4>2, <4>3
    <3> QED
      BY <3>2, <3>3
  <2>3. 0 \in T
    OBVIOUS
  <2>4. \A j \in Nat : j \in T => j + 1 \in T
    BY <2>2
  <2>5. Nat \subseteq T
    <3> HIDE DEF T
    <3> QED
      BY <2>3, <2>4, Induction
  <2>6. Whole(n)
    BY <1>2, <2>5
  <2> QED
    BY <2>1, <2>6
<1> QED
  BY <1>1, <1>2

-----------------------------------------------------------------------------
(* The inductive invariant.                                                *)
HeldOK == DOMAIN held \subseteq Ids /\ held \in [DOMAIN held -> Vectors]

SlotsOK ==
  /\ Packed(vecs, Len(ids))
  /\ \A i \in 1..Len(ids) : \E v \in Vectors : SlotIn(vecs, i) = Coordinates(v)

IdsMatchUntilShift ==
  shifted \/ \A i \in 1..Len(ids) : SlotIn(vecs, i) = Coordinates(held[ids[i]])

IndexInv ==
  /\ ids \in Seq(Ids) /\ HeldOK /\ shifted \in BOOLEAN
  /\ call \in {"put", "drop", "create", "reindex"}
  /\ IdsExact
  /\ SlotsOK
  /\ IdsMatchUntilShift

(* Taking a document out: its id goes, one slot goes, every slot left is   *)
(* the whole of some vector; and when the position was among the last two, *)
(* each id left keeps its slot.                                            *)
LEMMA RemovedFacts ==
  ASSUME IndexInv, NEW id
  PROVE  /\ RemovedIds(id) \in Seq(Ids)
         /\ ToSet(RemovedIds(id)) = ToSet(ids) \ {id} /\ IsInjective(RemovedIds(id))
         /\ Packed(RemovedVecs(id), Len(RemovedIds(id)))
         /\ \A i \in 1..Len(RemovedIds(id)) :
              \E v \in Vectors : SlotIn(RemovedVecs(id), i) = Coordinates(v)
         /\ shifted \/ Shifts(id) \/ \A i \in 1..Len(RemovedIds(id)) :
              SlotIn(RemovedVecs(id), i) = Coordinates(held[RemovedIds(id)[i]])
<1> DEFINE p == PositionOf(ids, id)
           n == Len(ids)
<1>1. /\ ids \in Seq(Ids) /\ IsInjective(ids) /\ Packed(vecs, n) /\ n \in Nat
      /\ \A i \in 1..n : \E v \in Vectors : SlotIn(vecs, i) = Coordinates(v)
      /\ shifted \/ \A i \in 1..n : SlotIn(vecs, i) = Coordinates(held[ids[i]])
  BY DEF IndexInv, IdsExact, SlotsOK, IdsMatchUntilShift
<1>2. /\ p = 0 <=> id \notin ToSet(ids)
      /\ id \in ToSet(ids) => p \in 1..n /\ ids[p] = id
  BY <1>1, PositionFound
<1> HIDE DEF p, n
<1>3. CASE p = 0
  <2>1. RemovedIds(id) = ids /\ RemovedVecs(id) = vecs
    BY <1>3 DEF RemovedIds, RemovedVecs, p
  <2> QED
    BY <1>1, <1>2, <1>3, <2>1 DEF n
<1>4. CASE p # 0
  <2>1. RemovedIds(id) = SwapRemove(ids, p) /\ RemovedVecs(id) = Drain(vecs, (p - 1) * dim, dim)
    BY <1>4 DEF RemovedIds, RemovedVecs, p
  <2>2. p \in 1..Len(ids) /\ ids[p] = id /\ p \in 1..n
    BY <1>2, <1>4 DEF n
  <2>3. /\ RemovedIds(id) \in Seq(Ids) /\ Len(RemovedIds(id)) = n - 1
        /\ \A k \in 1..(n - 1) : RemovedIds(id)[k] = ids[IF k = p THEN n ELSE k]
    <3>1. /\ SwapRemove(ids, p) \in Seq(Ids) /\ Len(SwapRemove(ids, p)) = Len(ids) - 1
          /\ \A k \in 1..(Len(ids) - 1) :
               SwapRemove(ids, p)[k] = ids[IF k = p THEN Len(ids) ELSE k]
      BY <1>1, <2>2, SwapRemoved
    <3> QED
      BY <2>1, <3>1 DEF n
  <2>4. ToSet(RemovedIds(id)) = ToSet(ids) \ {id} /\ IsInjective(RemovedIds(id))
    BY <1>1, <2>1, <2>2, SwapRemovedSet
  <2>5. /\ Packed(RemovedVecs(id), n - 1)
        /\ \A i \in 1..(n - 1) :
             SlotIn(RemovedVecs(id), i) = SlotIn(vecs, IF i < p THEN i ELSE i + 1)
    BY <1>1, <2>1, <2>2, DrainedSlots
  <2>6. \A i \in 1..(n - 1) : (IF i < p THEN i ELSE i + 1) \in 1..n
    BY <1>1
  <2>7. \A i \in 1..(n - 1) : \E v \in Vectors : SlotIn(RemovedVecs(id), i) = Coordinates(v)
    BY <1>1, <2>5, <2>6
  <2>8. shifted \/ Shifts(id) \/ \A i \in 1..(n - 1) :
          SlotIn(RemovedVecs(id), i) = Coordinates(held[RemovedIds(id)[i]])
    <3> SUFFICES ASSUME ~shifted, ~Shifts(id), NEW i \in 1..(n - 1)
                 PROVE  SlotIn(RemovedVecs(id), i) = Coordinates(held[RemovedIds(id)[i]])
      OBVIOUS
    <3>1. p >= n - 1
      BY <1>1, <2>2 DEF Shifts, p, n
    <3>2. (IF i < p THEN i ELSE i + 1) = (IF i = p THEN n ELSE i)
      BY <1>1, <2>2, <3>1
    <3> QED
      BY <1>1, <2>3, <2>5, <2>6, <3>2
  <2> QED
    BY <2>3, <2>4, <2>5, <2>7, <2>8
<1> QED
  BY <1>3, <1>4

(* A document leaves.                                                      *)
LEMMA DropKeeps ==
  ASSUME IndexInv, NEW id \in Ids, Drop(id)
  PROVE  IndexInv'
<1> USE DEF Drop
<1>1. /\ ids' \in Seq(Ids) /\ ToSet(ids') = ToSet(ids) \ {id} /\ IsInjective(ids')
      /\ Packed(vecs', Len(ids'))
      /\ \A i \in 1..Len(ids') : \E v \in Vectors : SlotIn(vecs', i) = Coordinates(v)
      /\ shifted' \/ \A i \in 1..Len(ids') : SlotIn(vecs', i) = Coordinates(held[ids'[i]])
  BY RemovedFacts
<1>2. /\ DOMAIN held' = DOMAIN held \ {id}
      /\ \A j \in DOMAIN held' : held'[j] = held[j]
      /\ HeldOK'
  BY DEF IndexInv, HeldOK, Restrict
<1>3. IdsExact'
  BY <1>1, <1>2 DEF IndexInv, IdsExact
<1>4. \A i \in 1..Len(ids') : ids'[i] \in DOMAIN held'
  BY <1>1, <1>3 DEF IdsExact, ToSet
<1>5. SlotsOK'
  BY <1>1 DEF SlotsOK
<1>6. IdsMatchUntilShift'
  BY <1>1, <1>2, <1>4 DEF IdsMatchUntilShift
<1>7. shifted' \in BOOLEAN /\ call' = "drop"
  BY DEF IndexInv
<1> QED
  BY <1>1, <1>2, <1>3, <1>5, <1>6, <1>7 DEF IndexInv

(* A document is stored: its entry is made anew, at the end.               *)
LEMMA PutKeeps ==
  ASSUME IndexInv, NEW id \in Ids, NEW v \in Vectors, Put(id, v)
  PROVE  IndexInv'
<1> USE DEF Put
<1> DEFINE rs == RemovedIds(id)
           ws == RemovedVecs(id)
           n  == Len(rs)
<1>1. /\ rs \in Seq(Ids) /\ ToSet(rs) = ToSet(ids) \ {id} /\ IsInjective(rs)
      /\ Packed(ws, n) /\ n \in Nat
      /\ \A i \in 1..n : \E u \in Vectors : SlotIn(ws, i) = Coordinates(u)
      /\ shifted' \/ \A i \in 1..n : SlotIn(ws, i) = Coordinates(held[rs[i]])
  <2>1. /\ rs \in Seq(Ids) /\ ToSet(rs) = ToSet(ids) \ {id} /\ IsInjective(rs)
        /\ Packed(ws, n)
        /\ \A i \in 1..n : \E u \in Vectors : SlotIn(ws, i) = Coordinates(u)
        /\ shifted \/ Shifts(id) \/ \A i \in 1..n : SlotIn(ws, i) = Coordinates(held[rs[i]])
    BY RemovedFacts
  <2>2. n \in Nat
    BY <2>1
  <2> QED
    BY <2>1, <2>2
<1>2. ids' = Append(rs, id) /\ vecs' = ws \o Coordinates(v)
  OBVIOUS
<1> HIDE DEF rs, ws
<1>3. /\ ids' \in Seq(Ids) /\ Len(ids') = n + 1 /\ ids'[n + 1] = id
      /\ \A i \in 1..n : ids'[i] = rs[i]
      /\ DOMAIN ids' = 1..(n + 1) /\ DOMAIN rs = 1..n
  BY <1>1, <1>2
<1> HIDE DEF n
<1>4. /\ Packed(vecs', n + 1) /\ SlotIn(vecs', n + 1) = Coordinates(v)
      /\ \A i \in 1..n : SlotIn(vecs', i) = SlotIn(ws, i)
  BY <1>1, <1>2, AppendedSlots, CoordinatesFill
<1>5. /\ DOMAIN held' = DOMAIN held \cup {id}
      /\ \A j \in DOMAIN held' : held'[j] = IF j = id THEN v ELSE held[j]
      /\ HeldOK'
  BY DEF IndexInv, HeldOK
<1>6. \A i \in 1..n : rs[i] # id /\ rs[i] \in DOMAIN held
  BY <1>1, <1>3 DEF IndexInv, IdsExact, ToSet
<1>7. \A i \in 1..(n + 1) : i \in 1..n \/ i = n + 1
  BY <1>1
<1>8. IdsExact'
  <2>1. ToSet(ids') = ToSet(rs) \cup {id}
    <3>1. ToSet(ids') \subseteq ToSet(rs) \cup {id}
      BY <1>3, <1>7 DEF ToSet
    <3>2. ToSet(rs) \subseteq ToSet(ids')
      BY <1>1, <1>3 DEF ToSet
    <3>3. id \in ToSet(ids')
      BY <1>1, <1>3 DEF ToSet
    <3> QED
      BY <3>1, <3>2, <3>3
  <2>2. IsInjective(ids')
    BY <1>1, <1>3, <1>6, <1>7 DEF IsInjective
  <2> QED
    BY <1>1, <1>5, <2>1, <2>2 DEF IndexInv, IdsExact
<1>9. SlotsOK'
  BY <1>1, <1>3, <1>4, <1>7 DEF SlotsOK
<1>10. IdsMatchUntilShift'
  <2> SUFFICES ASSUME ~shifted', NEW i \in 1..(n + 1)
               PROVE  SlotIn(vecs', i) = Coordinates(held'[ids'[i]])
    BY <1>1, <1>3 DEF IdsMatchUntilShift
  <2>1. CASE i \in 1..n
    <3>1. ids'[i] = rs[i] /\ held'[rs[i]] = held[rs[i]]
      BY <1>3, <1>5, <1>6, <2>1
    <3> QED
      BY <1>1, <1>4, <2>1, <3>1
  <2>2. CASE i = n + 1
    BY <1>3, <1>4, <1>5, <2>2
  <2> QED
    BY <1>7, <2>1, <2>2
<1>11. shifted' \in BOOLEAN /\ call' = "put"
  BY DEF IndexInv
<1> QED
  BY <1>3, <1>5, <1>8, <1>9, <1>10, <1>11 DEF IndexInv

(* The index is created anew from the documents, in some order: the order  *)
(* lists them all, and slot i is that of the i-th.                         *)
LEMMA CreateKeeps ==
  ASSUME IndexInv, Create
  PROVE  IndexInv'
<1>1. PICK order \in SetToSeqs(DOMAIN held) :
        /\ ids' = order
        /\ vecs' = FlattenSeq([i \in DOMAIN order |-> Coordinates(held[order[i]])])
  BY DEF Create
<1>2. shifted' = FALSE /\ call' = "create" /\ held' = held
  BY DEF Create
<1> DEFINE n == Cardinality(DOMAIN held)
<1>3. IsFiniteSet(DOMAIN held)
  <2>1. ids \in [1..Len(ids) -> DOMAIN held] /\ Len(ids) \in Nat
        /\ \A d \in DOMAIN held : \E i \in 1..Len(ids) : ids[i] = d
    BY DEF IndexInv, IdsExact, ToSet
  <2>2. ids \in Surjection(1..Len(ids), DOMAIN held)
    BY <2>1 DEF Surjection
  <2> QED
    BY <2>1, <2>2, FS_NatSurjection DEF ExistsSurjection
<1>4. n \in Nat
  BY <1>3, FS_CardinalityType
<1>5. order \in [1..n -> DOMAIN held] /\ \A i, j \in 1..n : i # j => order[i] # order[j]
  BY DEF SetToSeqs
<1> HIDE DEF n
<1>6. /\ order \in Seq(Ids) /\ Len(order) = n /\ DOMAIN order = 1..n
      /\ IsInjective(order)
  BY <1>4, <1>5 DEF IndexInv, HeldOK, IsInjective
<1>7. ToSet(order) = DOMAIN held
  <2>1. order \in Injection(1..n, DOMAIN held)
    BY <1>5, <1>6 DEF Injection
  <2>2. Cardinality(1..n) = n
    BY <1>4, FS_Interval
  <2>3. order \in Surjection(1..n, DOMAIN held)
    BY <1>3, <2>1, <2>2, FS_Injection DEF n
  <2> QED
    BY <1>6, <2>3 DEF Surjection, ToSet
<1> DEFINE seqs == [i \in DOMAIN order |-> Coordinates(held[order[i]])]
<1>8. /\ seqs \in Seq(Seq(Floats)) /\ Len(seqs) = n
      /\ \A i \in 1..n : Len(seqs[i]) = dim /\ seqs[i] = Coordinates(held[order[i]])
  <2>1. \A i \in 1..n : held[order[i]] \in Vectors
    BY <1>5 DEF IndexInv, HeldOK
  <2>2. \A i \in 1..n : /\ Coordinates(held[order[i]]) \in Seq(Floats)
                        /\ Len(Coordinates(held[order[i]])) = dim
    BY <2>1, CoordinatesFill
  <2> QED
    BY <1>4, <1>6, <2>2
<1> HIDE DEF seqs
<1>9. Packed(vecs', n) /\ \A i \in 1..n : SlotIn(vecs', i) = Coordinates(held[order[i]])
  <2>1. /\ Packed(FlattenSeq(seqs), n)
        /\ \A i \in 1..n : SlotIn(FlattenSeq(seqs), i) = seqs[i]
    BY <1>8, FlattenedSlots
  <2> QED
    BY <1>1, <1>8, <2>1 DEF seqs
<1>10. SlotsOK' /\ IdsMatchUntilShift'
  <2>1. \A i \in 1..n : held[order[i]] \in Vectors
    BY <1>5 DEF IndexInv, HeldOK
  <2> QED
    BY <1>1, <1>2, <1>6, <1>9, <2>1 DEF SlotsOK, IdsMatchUntilShift
<1> QED
  BY <1>1, <1>2, <1>6, <1>7, <1>10 DEF IndexInv, IdsExact, HeldOK

(* The invariant of the vector index.                                      *)
LEMMA IndexInvariant == Spec => []IndexInv
<1>1. Init => IndexInv
  <2> SUFFICES ASSUME Init PROVE IndexInv
    OBVIOUS
  <2>1. ids = <<>> /\ vecs = <<>> /\ DOMAIN held = {} /\ ids \in Seq(Ids) /\ Len(ids) = 0
    BY EmptySeq DEF Init
  <2>2. HeldOK
    BY <2>1 DEF HeldOK, Init
  <2>3. SlotsOK /\ IdsMatchUntilShift
    BY <2>1, DimAssumption, EmptySeq DEF SlotsOK, IdsMatchUntilShift, Packed
  <2>4. IdsExact
    BY <2>1 DEF IdsExact, ToSet, IsInjective
  <2> QED
    BY <2>1, <2>2, <2>3, <2>4 DEF IndexInv, Init
<1>2. IndexInv /\ [Next]_vars => IndexInv'
  <2> SUFFICES ASSUME IndexInv, [Next]_vars PROVE IndexInv'
    OBVIOUS
  <2>1. CASE Reindex \/ UNCHANGED vars
    <3>1. UNCHANGED <<ids, vecs, held, shifted>> /\ call' \in {"put", "drop", "create", "reindex"}
      BY <2>1 DEF Reindex, vars, IndexInv
    <3> QED
      BY <3>1 DEF IndexInv, HeldOK, IdsExact, SlotsOK, IdsMatchUntilShift
  <2> QED
    BY <2>1, DropKeeps, PutKeeps, CreateKeeps DEF Next
<1> QED
  BY <1>1, <1>2, PTL DEF Spec

-----------------------------------------------------------------------------
(* The types of the index's state.                                         *)
THEOREM VectorTypeCorrect == Spec => []TypeOK
<1>1. IndexInv => TypeOK
  BY DEF IndexInv, TypeOK, HeldOK, SlotsOK, Packed, Floats
<1> QED
  BY <1>1, IndexInvariant, PTL

(* After any history of inserts, updates, deletes and rebuilds, in any     *)
(* order, the index lists each document that holds a vector once, and no   *)
(* other (VectorIndex::insert, remove and load).                           *)
THEOREM VectorIdsExact == Spec => []IdsExact
<1>1. IndexInv => IdsExact
  BY DEF IndexInv
<1> QED
  BY <1>1, IndexInvariant, PTL

(* However slots and ids have come apart, and for every dimension, the     *)
(* buffer is packed and no drain has ever cut a vector in two              *)
(* (VectorIndex::remove).                                                  *)
THEOREM VectorSlotsWhole == Spec => []SlotsWhole
<1>1. IndexInv => SlotsWhole
  BY DEF IndexInv, SlotsOK, SlotsWhole, Packed, Slot, SlotIn
<1> QED
  BY <1>1, IndexInvariant, PTL

(* Every slot holds the vector of its own document until a remove takes a  *)
(* position before the last two: this one step, and no other, is where     *)
(* swap_remove of the ids and drain of the floats part (vector.rs remove). *)
THEOREM VectorAlignedUntilShift == Spec => []AlignedUntilShift
<1>1. IndexInv => AlignedUntilShift
  BY DEF IndexInv, IdsMatchUntilShift, AlignedUntilShift, Aligned, Slot, SlotIn
<1> QED
  BY <1>1, IndexInvariant, PTL

-----------------------------------------------------------------------------
(* Searches.                                                               *)

(* The module's cut is that of module StdVecProofs.                        *)
LEMMA TruncatedIs == \A s, limit : Truncated(s, limit) = Cut(s, limit)
BY Zenon DEF Truncated, Cut

(* Scores are whole numbers, and those of the documents' own vectors while *)
(* slots and ids agree.                                                    *)
LEMMA ScoreFacts ==
  ASSUME IndexInv, NEW q \in Queries, Len(q) = dim, NEW i \in 1..Len(ids)
  PROVE  /\ Score(q, i) \in Int
         /\ ~shifted => Score(q, i) = Dot(q, Unit[held[ids[i]]])
<1>1. PICK v \in Vectors : /\ Slot(i) = Coordinates(v)
                           /\ ~shifted => Coordinates(v) = Coordinates(held[ids[i]])
  BY DEF IndexInv, SlotsOK, IdsMatchUntilShift, Slot, SlotIn
<1>2. ids[i] \in DOMAIN held /\ held[ids[i]] \in Vectors
  BY DEF IndexInv, IdsExact, HeldOK, ToSet
<1>3. ~shifted => v = held[ids[i]]
  <2>1. 1 \in 1..dim
    BY DimAssumption
  <2>2. \A u \in Vectors : Coordinates(u)[1] = <<u, 1>>
    BY <2>1 DEF Coordinates
  <2> QED
    BY <1>1, <1>2, <2>2
<1>4. /\ Unit[v] = [k \in 1..dim |-> Unit[v][k]]
      /\ \A k \in 1..dim : Unit[v][k] \in Int /\ q[k] \in Int
  <2>1. Unit[v] \in [1..dim -> Int] /\ q \in Seq(Int)
    BY SearchAssumption
  <2> QED
    BY <2>1
<1>5. Score(q, i) = Dot(q, Unit[v])
  <2>1. \A k \in 1..dim : Unit[Slot(i)[k][1]][Slot(i)[k][2]] = Unit[v][k]
    <3> TAKE k \in 1..dim
    <3>1. Slot(i)[k] = <<v, k>>
      BY <1>1 DEF Coordinates
    <3> QED
      BY <3>1
  <2>2. [k \in 1..dim |-> Unit[Slot(i)[k][1]][Slot(i)[k][2]]] = Unit[v]
    BY <1>4, <2>1
  <2> QED
    BY <2>2 DEF Score
<1>6. Dot(q, Unit[v]) \in Int
  <2> DEFINE f == [k \in 1..dim |-> q[k] * Unit[v][k]]
  <2>1. IsFiniteSet(1..dim)
    BY DimAssumption, FS_Interval
  <2>2. DOMAIN f = 1..dim /\ \A k \in 1..dim : f[k] \in Int
    <3>1. \A a, b \in Int : a * b \in Int
      OBVIOUS
    <3> QED
      BY <1>4, <3>1
  <2>3. Dot(q, Unit[v]) = SumFunctionOnSet(f, 1..dim)
    BY <2>2, Zenon DEF Dot, SumFunction
  <2> HIDE DEF f
  <2> QED
    BY <2>1, <2>2, <2>3, SumInt
<1> QED
  BY <1>3, <1>5, <1>6

(* A search of the right length without a limit hits each document of the  *)
(* list once; with one, it hits the first of these.                        *)
LEMMA HitsFacts ==
  ASSUME IndexInv, NEW q \in Queries
  PROVE  LET hits == VectorSearch(q, 0) IN
         /\ hits \in Seq(Ids \X Int)
         /\ Len(q) = dim => ToSet(hits) = {<<ids[i], Score(q, i)>> : i \in 1..Len(ids)}
         /\ \A a, b \in 1..Len(hits) : a < b =>
              hits[a][1] # hits[b][1] /\ hits[a][2] >= hits[b][2]
         /\ \A limit \in Nat : VectorSearch(q, limit) = Cut(hits, limit)
<1> DEFINE hits == VectorSearch(q, 0)
           n == Len(ids)
<1>1. CASE Len(q) # dim
  <2>1. \A limit \in Nat : VectorSearch(q, limit) = <<>>
    BY <1>1 DEF VectorSearch
  <2>2. hits = <<>>
    BY <2>1
  <2> HIDE DEF hits
  <2>3. hits \in Seq(Ids \X Int) /\ Len(hits) = 0
    BY <2>2, EmptySeq
  <2>4. ASSUME NEW limit \in Nat
        PROVE  VectorSearch(q, limit) = Cut(hits, limit)
    <3>1. Cut(hits, limit) \in Seq(Ids \X Int) /\ Len(Cut(hits, limit)) <= Len(hits)
      BY <2>3, CutFacts
    <3>2. Cut(hits, limit) = <<>>
      BY <2>3, <3>1, EmptySeq
    <3> QED
      BY <2>1, <3>2
  <2> QED
    BY <1>1, <2>3, <2>4 DEF hits
<1>2. CASE Len(q) = dim
  <2> DEFINE scored == {<<i, Score(q, i)>> : i \in DOMAIN ids}
             best   == BestFirst(scored)
  <2>1. ids \in Seq(Ids) /\ DOMAIN ids = 1..n /\ IsInjective(ids)
    BY DEF IndexInv, IdsExact
  <2>2. ScoredOnce(scored, n)
    <3>1. \A i \in 1..n : Score(q, i) \in Int
      BY <1>2, ScoreFacts
    <3> HIDE DEF n
    <3> QED
      BY <2>1, <3>1 DEF ScoredOnce
  <2>3. \A limit : VectorSearch(q, limit) = Hits(ids, Cut(best, limit))
    BY <1>2, Zenon DEF VectorSearch, Hits, Truncated, Cut
  <2>4. {<<ids[x[1]], x[2]>> : x \in scored} = {<<ids[i], Score(q, i)>> : i \in 1..n}
    <3>1. \A x \in scored : \E i \in 1..n : x[1] = i /\ x[2] = Score(q, i)
      BY <2>1
    <3>2. \A i \in 1..n : \E x \in scored : x[1] = i /\ x[2] = Score(q, i)
      <4> TAKE i \in 1..n
      <4>1. <<i, Score(q, i)>> \in scored
        BY <2>1
      <4> QED
        BY <4>1
    <3> HIDE DEF scored, n
    <3> QED
      BY <3>1, <3>2
  <2> HIDE DEF scored
  <2> DEFINE all == Hits(ids, best)
  <2>5. /\ all \in Seq(Ids \X Int)
        /\ ToSet(all) = {<<ids[x[1]], x[2]>> : x \in scored}
        /\ \A a, b \in 1..Len(all) : a < b =>
             all[a][1] # all[b][1] /\ all[a][2] >= all[b][2]
        /\ \A limit \in Nat : Hits(ids, Cut(best, limit)) = Cut(all, limit)
    <3>1. ListsBest(all, Ids, ids, scored)
      BY <2>1, <2>2, HitsListed
    <3> HIDE DEF all
    <3> QED
      BY <3>1 DEF ListsBest
  <2>6. hits = all
    BY <2>3 DEF Cut
  <2> HIDE DEF all, hits, n
  <2>7. \A limit \in Nat : VectorSearch(q, limit) = Cut(hits, limit)
    BY <2>3, <2>5, <2>6
  <2>8. ToSet(hits) = {<<ids[i], Score(q, i)>> : i \in 1..n}
    BY <2>4, <2>5, <2>6
  <2> QED
    BY <2>5, <2>6, <2>7, <2>8 DEF hits, n
<1> QED
  BY <1>1, <1>2

(* As long as slots and documents agree, a search of the right length      *)
(* gives each document that holds a vector with the score of its own, best *)
(* first; and always a limit keeps the first hits and no others            *)
(* (Collection::vector_search).                                            *)
THEOREM VectorSearchExact == Spec => []SearchExactUntilShift
<1>1. ASSUME IndexInv PROVE SearchExactUntilShift
  <2> SUFFICES ASSUME NEW q \in Queries
               PROVE  LET hits == VectorSearch(q, 0) IN
                 /\ \A limit \in Limits \ {0} :
                      /\ Len(VectorSearch(q, limit)) = Min({limit, Len(hits)})
                      /\ IsPrefix(VectorSearch(q, limit), hits)
                 /\ Len(q) = dim /\ ~shifted =>
                      /\ ToSet(hits) = {<<id, Dot(q, Unit[held[id]])>> : id \in DOMAIN held}
                      /\ \A a, b \in DOMAIN hits : a < b => hits[a][2] >= hits[b][2]
    BY DEF SearchExactUntilShift
  <2> DEFINE hits == VectorSearch(q, 0)
  <2>1. /\ hits \in Seq(Ids \X Int)
        /\ Len(q) = dim => ToSet(hits) = {<<ids[i], Score(q, i)>> : i \in 1..Len(ids)}
        /\ \A a, b \in 1..Len(hits) : a < b =>
             hits[a][1] # hits[b][1] /\ hits[a][2] >= hits[b][2]
        /\ \A limit \in Nat : VectorSearch(q, limit) = Cut(hits, limit)
    BY <1>1, HitsFacts
  <2> HIDE DEF hits
  <2>2. ASSUME NEW limit \in Limits \ {0}
        PROVE  /\ Len(VectorSearch(q, limit)) = Min({limit, Len(hits)})
               /\ IsPrefix(VectorSearch(q, limit), hits)
    <3>1. limit \in Nat /\ limit # 0
      BY SearchAssumption
    <3>2. VectorSearch(q, limit) = Cut(hits, limit)
      BY <2>1, <3>1
    <3> QED
      BY <2>1, <3>1, <3>2, CutFacts
  <2>3. ASSUME Len(q) = dim, ~shifted
        PROVE  ToSet(hits) = {<<id, Dot(q, Unit[held[id]])>> : id \in DOMAIN held}
    <3>1. ToSet(ids) = DOMAIN held /\ DOMAIN ids = 1..Len(ids)
      BY <1>1 DEF IndexInv, IdsExact
    <3>2. DOMAIN held = {ids[i] : i \in 1..Len(ids)}
      BY <3>1, Zenon DEF ToSet
    <3>3. \A i \in 1..Len(ids) : Score(q, i) = Dot(q, Unit[held[ids[i]]])
      BY <1>1, <2>3, ScoreFacts
    <3>4. ToSet(hits) = {<<ids[i], Dot(q, Unit[held[ids[i]]])>> : i \in 1..Len(ids)}
      BY <2>1, <2>3, <3>3
    <3> QED
      BY <3>2, <3>4
  <2>4. DOMAIN hits = 1..Len(hits)
    BY <2>1
  <2> QED
    BY <2>1, <2>2, <2>3, <2>4 DEF hits
<1> QED
  BY <1>1, IndexInvariant, PTL

-----------------------------------------------------------------------------
(* Rank fusion.                                                            *)

(* What one rank multiplies a product by, that of rank r being left out.   *)
Factor(r, x) == IF x = r THEN 1 ELSE RRF_K + x

Partial(p, r, x) == IF x = 0 THEN 1 ELSE p[x - 1] * Factor(r, x)

(* The partial products, as one function, exist.                           *)
LEMMA ProductDefined ==
  ASSUME NEW r
  PROVE  \A n \in Nat : \E p : p = [x \in 0..n |-> Partial(p, r, x)]
<1> DEFINE T == {n \in Nat : \E p : p = [x \in 0..n |-> Partial(p, r, x)]}
<1>1. 0 \in T
  <2> DEFINE e == [x \in 0..0 |-> 1]
  <2>1. \A x \in 0..0 : Partial(e, r, x) = 1
    BY DEF Partial
  <2>2. e = [x \in 0..0 |-> Partial(e, r, x)]
    <3> HIDE DEF e
    <3>1. e = [x \in 0..0 |-> 1]
      BY DEF e
    <3> QED
      BY <2>1, <3>1
  <2> QED
    BY <2>2
<1>2. ASSUME NEW n \in Nat, n \in T
      PROVE  n + 1 \in T
  <2>1. PICK g : g = [x \in 0..n |-> Partial(g, r, x)]
    BY <1>2
  <2> DEFINE f == [x \in 0..(n + 1) |-> IF x <= n THEN g[x] ELSE Partial(g, r, x)]
  <2>2. ASSUME NEW x \in 0..(n + 1)
        PROVE  f[x] = Partial(f, r, x)
    <3>1. f[x] = Partial(g, r, x)
      <4>1. \A y \in 0..n : g[y] = Partial(g, r, y)
        BY <2>1
      <4> QED
        BY <4>1
    <3>2. CASE x = 0
      BY <3>1, <3>2 DEF Partial
    <3>3. CASE x # 0
      <4>1. x - 1 \in 0..n /\ f[x - 1] = g[x - 1]
        BY <3>3
      <4> HIDE DEF f
      <4> QED
        BY <3>1, <4>1 DEF Partial
    <3> QED
      BY <3>2, <3>3
  <2>3. f = [x \in 0..(n + 1) |-> f[x]]
    OBVIOUS
  <2> HIDE DEF f
  <2>4. f = [x \in 0..(n + 1) |-> Partial(f, r, x)]
    BY <2>2, <2>3
  <2>5. n + 1 \in Nat
    OBVIOUS
  <2> QED
    BY <2>4, <2>5, Zenon
<1>3. Nat \subseteq T
  <2> HIDE DEF T
  <2> QED
    BY <1>1, <1>2, Induction
<1> QED
  BY <1>3

(* A reciprocal is the last of the partial products of its rank.           *)
LEMMA ReciprocalIs ==
  ASSUME NEW r, NEW n \in Nat
  PROVE  \E p : /\ \A x \in 0..n : p[x] = Partial(p, r, x)
                /\ Reciprocal(r, n) = p[n]
<1>1. \E p : p = [x \in 0..n |-> Partial(p, r, x)]
  BY ProductDefined
<1>2. Reciprocal(r, n) = (CHOOSE p : p = [x \in 0..n |-> Partial(p, r, x)])[n]
  BY Zenon DEF Reciprocal, Partial, Factor
<1>3. PICK p : p = [x \in 0..n |-> Partial(p, r, x)] /\ Reciprocal(r, n) = p[n]
  BY <1>1, <1>2, Zenon
<1> QED
  BY <1>3

(* Multiplication, as far as the products need it.                         *)
LEMMA Products ==
  /\ \A a, b \in Nat \ {0} : a * b \in Nat \ {0}
  /\ \A a, b, c, d, e \in Nat : a * b = c * d => (a * e) * b = (c * e) * d
  /\ \A a, c, d, e \in Nat : a * d = c * 1 => (a * e) * d = (c * 1) * e
                                               /\ (a * e) * d = c * e
  /\ \A a, b, c, d \in Nat : a * b = c * d /\ b < d /\ c # 0 => c < a
<1>0. \A a, b \in Nat : a * b \in Nat
  OBVIOUS
<1>1. \A a, b \in Nat \ {0} : a * b \in Nat \ {0}
  OBVIOUS
<1>2. ASSUME NEW a \in Nat, NEW b \in Nat, NEW c \in Nat, NEW d \in Nat, NEW e \in Nat,
             a * b = c * d
      PROVE  (a * e) * b = (c * e) * d
  <2>1. (a * e) * b = (a * b) * e /\ (c * e) * d = (c * d) * e
    OBVIOUS
  <2> QED
    BY <1>2, <2>1
<1>3. ASSUME NEW a \in Nat, NEW c \in Nat, NEW d \in Nat, NEW e \in Nat, a * d = c * 1
      PROVE  (a * e) * d = (c * 1) * e /\ (a * e) * d = c * e
  <2>1. (a * e) * d = (a * d) * e /\ c * 1 = c
    OBVIOUS
  <2> QED
    BY <1>3, <2>1
<1>4. ASSUME NEW a \in Nat, NEW b \in Nat, NEW c \in Nat, NEW d \in Nat,
             a * b = c * d, b < d, c # 0
      PROVE  c < a
  <2> SUFFICES ASSUME a <= c PROVE FALSE
    OBVIOUS
  <2>1. c * d = c * b + c * (d - b)
    OBVIOUS
  <2>2. c * b = a * b + (c - a) * b
    OBVIOUS
  <2>3. (c - a) * b \in Nat /\ c * (d - b) \in Nat \ {0} /\ a * b \in Nat
    <3>1. c - a \in Nat /\ d - b \in Nat \ {0} /\ c \in Nat \ {0}
      BY <1>4
    <3> QED
      BY <1>0, <1>1, <3>1
  <2>4. c * b \in Nat /\ c * d \in Nat
    BY <1>0
  <2> QED
    BY <1>4, <2>1, <2>2, <2>3, <2>4
<1> QED
  BY <1>1, <1>2, <1>3, <1>4

(* The better rank earns more, and every rank something.                   *)
LEMMA ReciprocalFalls ==
  ASSUME NEW n \in Nat, NEW r \in 1..n
  PROVE  /\ Reciprocal(r, n) \in Nat \ {0}
         /\ \A s \in 1..n : r < s => Reciprocal(s, n) < Reciprocal(r, n)
<1> DEFINE Back(i, x) == IF i <= x THEN RRF_K + i ELSE 1
<1>1. ASSUME NEW s \in 1..n, r < s \/ s = r
      PROVE  /\ Reciprocal(r, n) \in Nat \ {0} /\ Reciprocal(s, n) \in Nat \ {0}
             /\ r < s => Reciprocal(r, n) * (RRF_K + r) = Reciprocal(s, n) * (RRF_K + s)
  <2>1. PICK f : (\A x \in 0..n : f[x] = Partial(f, r, x)) /\ Reciprocal(r, n) = f[n]
    BY ReciprocalIs
  <2>2. PICK g : (\A x \in 0..n : g[x] = Partial(g, s, x)) /\ Reciprocal(s, n) = g[n]
    BY ReciprocalIs
  <2> DEFINE Good(x) ==
               /\ f[x] \in Nat \ {0} /\ g[x] \in Nat \ {0}
               /\ r < s => f[x] * Back(r, x) = g[x] * Back(s, x)
             T == {x \in Nat : x <= n => Good(x)}
  <2>3. 0 \in T
    <3>1. f[0] = 1 /\ g[0] = 1
      BY <2>1, <2>2 DEF Partial
    <3>2. Back(r, 0) = 1 /\ Back(s, 0) = 1
      OBVIOUS
    <3> QED
      BY <3>1, <3>2
  <2>4. ASSUME NEW x \in Nat, x \in T, x + 1 <= n
        PROVE  Good(x + 1)
    <3>1. /\ f[x] \in Nat \ {0} /\ g[x] \in Nat \ {0}
          /\ r < s => f[x] * Back(r, x) = g[x] * Back(s, x)
      BY <2>4
    <3>2. f[x + 1] = f[x] * Factor(r, x + 1) /\ g[x + 1] = g[x] * Factor(s, x + 1)
      <4>1. x + 1 \in 0..n /\ x + 1 # 0 /\ x + 1 - 1 = x
        BY <2>4
      <4> QED
        BY <2>1, <2>2, <4>1 DEF Partial
    <3>3. /\ Factor(r, x + 1) \in Nat \ {0} /\ Factor(s, x + 1) \in Nat \ {0}
          /\ Back(r, x) \in Nat /\ Back(s, x) \in Nat
      BY DEF Factor, RRF_K
    <3>4. f[x + 1] \in Nat \ {0} /\ g[x + 1] \in Nat \ {0}
      BY <3>1, <3>2, <3>3, Products
    <3>5. ASSUME r < s
          PROVE  f[x + 1] * Back(r, x + 1) = g[x + 1] * Back(s, x + 1)
      <4>1. CASE x + 1 = r
        <5>1. /\ Factor(r, x + 1) = 1 /\ Factor(s, x + 1) = RRF_K + r
              /\ Back(r, x) = 1 /\ Back(s, x) = 1
              /\ Back(r, x + 1) = RRF_K + r /\ Back(s, x + 1) = 1
          BY <3>5, <4>1 DEF Factor
        <5>2. f[x] = g[x]
          BY <3>1, <3>5, <5>1
        <5>3. RRF_K + r \in Nat
          BY DEF RRF_K
        <5> QED
          BY <3>1, <3>2, <5>1, <5>2, <5>3
      <4>2. CASE x + 1 = s
        <5>1. /\ Factor(r, x + 1) = RRF_K + s /\ Factor(s, x + 1) = 1
              /\ Back(r, x) = RRF_K + r /\ Back(s, x) = 1
              /\ Back(r, x + 1) = RRF_K + r /\ Back(s, x + 1) = RRF_K + s
          BY <3>5, <4>2 DEF Factor
        <5>2. f[x] * (RRF_K + r) = g[x] * 1
          BY <3>1, <3>5, <5>1
        <5>3. RRF_K + r \in Nat /\ RRF_K + s \in Nat
          BY DEF RRF_K
        <5>4. (f[x] * (RRF_K + s)) * (RRF_K + r) = (g[x] * 1) * (RRF_K + s)
          <6> DEFINE a == f[x]
                     c == g[x]
                     d == RRF_K + r
                     e == RRF_K + s
          <6>1. a \in Nat /\ c \in Nat /\ d \in Nat /\ e \in Nat /\ a * d = c * 1
            BY <3>1, <5>2, <5>3
          <6> HIDE DEF a, c, d, e
          <6>2. (a * e) * d = (c * 1) * e
            BY <6>1, Products
          <6> QED
            BY <6>2 DEF a, c, d, e
        <5> QED
          BY <3>2, <5>1, <5>4
      <4>3. CASE x + 1 # r /\ x + 1 # s
        <5>1. /\ Factor(r, x + 1) = RRF_K + (x + 1) /\ Factor(s, x + 1) = RRF_K + (x + 1)
              /\ Back(r, x + 1) = Back(r, x) /\ Back(s, x + 1) = Back(s, x)
          BY <4>3 DEF Factor
        <5>2. f[x] * Back(r, x) = g[x] * Back(s, x)
          BY <3>1, <3>5
        <5> DEFINE a == f[x]
                   b == Back(r, x)
                   c == g[x]
                   d == Back(s, x)
                   e == RRF_K + (x + 1)
        <5>3. a \in Nat /\ b \in Nat /\ c \in Nat /\ d \in Nat /\ e \in Nat /\ a * b = c * d
          BY <3>1, <3>3, <5>1, <5>2
        <5>4. f[x + 1] = a * e /\ g[x + 1] = c * e
          BY <3>2, <5>1
        <5> HIDE DEF a, b, c, d, e
        <5>5. (a * e) * b = (c * e) * d
          BY <5>3, Products
        <5> QED
          BY <5>1, <5>4, <5>5 DEF b, d
      <4> QED
        BY <4>1, <4>2, <4>3
    <3> QED
      BY <3>4, <3>5
  <2>5. Nat \subseteq T
    <3>1. \A x \in Nat : x \in T => x + 1 \in T
      <4> HIDE DEF Good
      <4> QED
        BY <2>4
    <3> HIDE DEF T
    <3> QED
      BY <2>3, <3>1, Induction
  <2>6. Good(n)
    <3> HIDE DEF Good
    <3> QED
      BY <2>5
  <2>7. Back(r, n) = RRF_K + r /\ Back(s, n) = RRF_K + s
    OBVIOUS
  <2> HIDE DEF Back
  <2> QED
    BY <2>1, <2>2, <2>6, <2>7
<1>2. Reciprocal(r, n) \in Nat \ {0}
  BY <1>1
<1>3. ASSUME NEW s \in 1..n, r < s
      PROVE  Reciprocal(s, n) < Reciprocal(r, n)
  <2> DEFINE a == Reciprocal(r, n)
             b == RRF_K + r
             c == Reciprocal(s, n)
             d == RRF_K + s
  <2>1. a * b = c * d /\ a \in Nat /\ c \in Nat /\ c # 0
    BY <1>1, <1>3
  <2>2. b \in Nat /\ d \in Nat /\ b < d
    BY <1>3 DEF RRF_K
  <2> HIDE DEF a, b, c, d
  <2>3. c < a
    BY <2>1, <2>2, Products
  <2> QED
    BY <2>3 DEF a, c
<1> QED
  BY <1>2, <1>3

(* In a ranking without duplicates of some of the documents, a place is a  *)
(* rank among them, and the better place earns the more.                   *)
LEMMA EarnedFacts ==
  ASSUME NEW found, IsFiniteSet(found), NEW ranking \in Seq(Ids), IsInjective(ranking),
         ToSet(ranking) \subseteq found
  PROVE  LET n == Cardinality(found) IN
         /\ \A a : RankIn(ranking, a) \in 0..n /\ Earned(ranking, a, n) \in Nat
         /\ \A a, b : RankIn(ranking, a) = RankIn(ranking, b)
                        => Earned(ranking, a, n) = Earned(ranking, b, n)
         /\ \A a, b : Prefers(ranking, a, b)
                        => Earned(ranking, a, n) > Earned(ranking, b, n)
         /\ \A a, b : ~Prefers(ranking, b, a)
                        => Earned(ranking, a, n) >= Earned(ranking, b, n)
<1> DEFINE n == Cardinality(found)
           R(a) == RankIn(ranking, a)
           E(a) == Earned(ranking, a, n)
<1>1. n \in Nat
  BY FS_CardinalityType
<1>2. Len(ranking) <= n /\ Len(ranking) \in Nat /\ DOMAIN ranking = 1..Len(ranking)
  <2>1. Len(ranking) \in Nat /\ DOMAIN ranking = 1..Len(ranking)
    OBVIOUS
  <2>2. ranking \in Injection(1..Len(ranking), found)
    <3>1. ranking \in [1..Len(ranking) -> found]
      <4>1. \A i \in 1..Len(ranking) : ranking[i] \in found
        BY <2>1 DEF ToSet
      <4> QED
        BY <2>1, <4>1
    <3> QED
      BY <2>1, <3>1 DEF Injection, IsInjective
  <2>3. Cardinality(1..Len(ranking)) <= n
    BY <2>2, FS_Injection
  <2>4. Cardinality(1..Len(ranking)) = Len(ranking)
    BY <2>1, FS_Interval
  <2> QED
    BY <2>1, <2>3, <2>4
<1> HIDE DEF n
<1>3. \A a : R(a) \in 0..n
  <2> TAKE a
  <2>1. R(a) = 0 \/ R(a) \in 1..Len(ranking)
    BY PositionFound DEF RankIn
  <2> QED
    BY <1>1, <1>2, <2>1
<1>4. \A a : /\ R(a) = 0 => E(a) = 0
             /\ R(a) # 0 => E(a) = Reciprocal(R(a), n) /\ R(a) \in 1..n
  BY <1>1, <1>3 DEF Earned
<1> HIDE DEF R, E
<1>5. \A a : E(a) \in Nat /\ (R(a) # 0 => E(a) # 0)
  <2> TAKE a
  <2>1. CASE R(a) = 0
    BY <1>4, <2>1
  <2>2. CASE R(a) # 0
    <3>1. Reciprocal(R(a), n) \in Nat \ {0}
      BY <1>1, <1>4, <2>2, ReciprocalFalls
    <3> QED
      BY <1>4, <2>2, <3>1
  <2> QED
    BY <2>1, <2>2
<1>6. ASSUME NEW a, NEW b, R(a) # 0, R(b) # 0, R(a) < R(b)
      PROVE  E(b) < E(a)
  <2>1. R(a) \in 1..n /\ R(b) \in 1..n /\ E(a) = Reciprocal(R(a), n) /\ E(b) = Reciprocal(R(b), n)
    BY <1>4, <1>6
  <2>2. Reciprocal(R(b), n) < Reciprocal(R(a), n)
    BY <1>1, <1>6, <2>1, ReciprocalFalls
  <2> QED
    BY <2>1, <2>2
<1>7. ASSUME NEW a, NEW b, R(a) = R(b)
      PROVE  E(a) = E(b)
  BY <1>4, <1>7
<1>8. ASSUME NEW a, NEW b, R(a) # 0, R(b) = 0 \/ R(a) < R(b)
      PROVE  E(a) > E(b)
  <2>1. CASE R(b) = 0
    <3>1. E(b) = 0 /\ E(a) \in Nat /\ E(a) # 0
      BY <1>4, <1>5, <1>8, <2>1
    <3> QED
      BY <3>1
  <2>2. CASE R(b) # 0
    <3>1. E(b) < E(a) /\ E(a) \in Nat /\ E(b) \in Nat
      BY <1>5, <1>6, <1>8, <2>2
    <3> QED
      BY <3>1
  <2> QED
    BY <2>1, <2>2
<1>9. ASSUME NEW a, NEW b, ~(R(b) # 0 /\ (R(a) = 0 \/ R(b) < R(a)))
      PROVE  E(a) >= E(b)
  <2>0. E(a) \in Nat /\ E(b) \in Nat
    BY <1>5
  <2>1. CASE R(b) = 0
    BY <1>4, <2>0, <2>1
  <2>2. CASE R(b) # 0 /\ R(a) = R(b)
    BY <1>7, <2>0, <2>2
  <2>3. CASE R(b) # 0 /\ R(a) # R(b)
    <3>1. R(a) # 0 /\ R(a) < R(b)
      BY <1>3, <1>9, <2>3
    <3> QED
      BY <1>6, <2>0, <2>3, <3>1
  <2> QED
    BY <2>1, <2>2, <2>3
<1> QED
  BY <1>3, <1>5, <1>7, <1>8, <1>9 DEF Prefers, R, E, n

(* The fusion of two rankings without duplicates lists the documents of    *)
(* either once, by what they earn and then by their ids.                   *)
LEMMA FusedFacts ==
  ASSUME NEW t \in Seq(Ids), IsInjective(t), NEW v \in Seq(Ids), IsInjective(v)
  PROVE  LET found == ToSet(t) \cup ToSet(v)
             n == Cardinality(found)
             total(a) == Earned(t, a, n) + Earned(v, a, n)
             hits == FusedHits(t, v, 0)
         IN  /\ IsFiniteSet(found)
             /\ hits \in Seq(Ids) /\ ToSet(hits) = found /\ IsInjective(hits)
             /\ \A h, k \in 1..Len(hits) : h < k =>
                  Beats(<<hits[h], total(hits[h])>>, <<hits[k], total(hits[k])>>)
             /\ \A limit \in Nat : FusedHits(t, v, limit) = Cut(hits, limit)
<1> DEFINE found == ToSet(t) \cup ToSet(v)
           n == Cardinality(found)
           total(a) == Earned(t, a, n) + Earned(v, a, n)
           fused == {<<a, total(a)>> : a \in found}
           best == BestFirst(fused)
           hits == Found(best)
<1>1. IsFiniteSet(found) /\ found \subseteq Ids
  <2>1. IsFiniteSet(ToSet(t)) /\ IsFiniteSet(ToSet(v))
    <3>1. ASSUME NEW s \in Seq(Ids) PROVE IsFiniteSet(ToSet(s))
      <4>1. s \in Surjection(1..Len(s), ToSet(s)) /\ Len(s) \in Nat
        BY DEF Surjection, ToSet
      <4> QED
        BY <4>1, FS_Interval, FS_Surjection
    <3> QED
      BY <3>1
  <2>2. ToSet(t) \subseteq Ids /\ ToSet(v) \subseteq Ids
    BY DEF ToSet
  <2> QED
    BY <2>1, <2>2, FS_Union
<1> HIDE DEF found
<1>2. ToSet(t) \subseteq found /\ ToSet(v) \subseteq found
  BY DEF found
<1>3. \A a : total(a) \in Nat
  <2>1. \A a : Earned(t, a, n) \in Nat /\ Earned(v, a, n) \in Nat
    BY <1>1, <1>2, EarnedFacts
  <2> QED
    BY <2>1
<1> HIDE DEF n, total
<1>4. IsFiniteSet(fused) /\ fused \in SUBSET (Int \X Int)
  <2> DEFINE m == [a \in found |-> <<a, total(a)>>]
  <2>1. m \in Surjection(found, fused)
    BY DEF Surjection
  <2>2. IsFiniteSet(fused)
    BY <1>1, <2>1, FS_Surjection
  <2>3. \A a \in found : a \in Int /\ total(a) \in Int
    BY <1>1, <1>3, SearchAssumption
  <2> QED
    BY <2>2, <2>3
<1>5. \A x \in fused : x[1] \in found /\ x = <<x[1], total(x[1])>>
  OBVIOUS
<1>6. \A a \in found : <<a, total(a)>> \in fused
  OBVIOUS
<1> HIDE DEF fused
<1>7. /\ best \in Seq(fused) /\ ToSet(best) = fused /\ IsInjective(best)
      /\ \A h, k \in 1..Len(best) : h < k => Beats(best[h], best[k])
  BY <1>4, BestFirstOrders
<1> HIDE DEF best
<1> DEFINE m == Len(best)
<1>8. m \in Nat /\ DOMAIN best = 1..m /\ \A h \in 1..m : best[h] \in fused
  BY <1>7
<1>9. hits = [h \in 1..m |-> best[h][1]]
  BY <1>8 DEF Found
<1> HIDE DEF m
<1>10. /\ hits \in Seq(Ids) /\ Len(hits) = m /\ DOMAIN hits = 1..m
       /\ \A h \in 1..m : hits[h] = best[h][1] /\ best[h] = <<hits[h], total(hits[h])>>
  <2>1. \A h \in 1..m : best[h][1] \in Ids
    BY <1>1, <1>5, <1>8
  <2>2. hits \in [1..m -> Ids]
    BY <1>9, <2>1
  <2> HIDE DEF hits
  <2>3. hits \in Seq(Ids) /\ Len(hits) = m /\ DOMAIN hits = 1..m
    BY <1>8, <2>2
  <2>4. \A h \in 1..m : hits[h] = best[h][1]
    BY <1>9
  <2> QED
    BY <1>5, <1>8, <2>3, <2>4
<1> HIDE DEF hits
<1>11. IsInjective(hits)
  <2> SUFFICES ASSUME NEW h \in 1..m, NEW k \in 1..m, hits[h] = hits[k]
               PROVE  h = k
    BY <1>10 DEF IsInjective
  <2>1. best[h] = best[k]
    BY <1>10
  <2> QED
    BY <1>7, <1>8, <2>1 DEF IsInjective
<1>12. ToSet(hits) = found
  <2>1. \A h \in 1..m : hits[h] \in found
    BY <1>5, <1>8, <1>10
  <2>2. ASSUME NEW a \in found PROVE \E h \in 1..m : hits[h] = a
    <3>1. PICK h \in 1..m : best[h] = <<a, total(a)>>
      BY <1>6, <1>7, <1>8 DEF ToSet
    <3> QED
      BY <1>10, <3>1
  <2> QED
    BY <1>10, <2>1, <2>2 DEF ToSet
<1>13. \A h, k \in 1..m : h < k =>
         Beats(<<hits[h], total(hits[h])>>, <<hits[k], total(hits[k])>>)
  <2>1. \A h, k \in 1..m : h < k => Beats(best[h], best[k])
    BY <1>7 DEF m
  <2> QED
    BY <1>10, <2>1
<1>14. \A limit \in Nat : FusedHits(t, v, limit) = Cut(hits, limit)
  BY TruncatedIs, Zenon DEF FusedHits, hits, best, fused, total, n, found
<1>15. FusedHits(t, v, 0) = hits
  BY <1>14 DEF Cut
<1> QED
  BY <1>1, <1>10, <1>11, <1>12, <1>13, <1>14, <1>15 DEF found, n, total

(* A hybrid search holds what either ranking holds, once; a document that  *)
(* one ranking prefers and the other does not put back comes first; ties   *)
(* are broken by id; and a limit cuts the fusion, never what goes into it  *)
(* (Collection::hybrid_search), whatever the two rankings are and however  *)
(* many documents they hold.                                               *)
THEOREM HybridSearchFair == Spec => []FusionRespectsBoth
<1>1. ASSUME IndexInv PROVE FusionRespectsBoth
  <2> SUFFICES ASSUME NEW t \in TextRanks, ToSet(t) \subseteq DOMAIN held, NEW q \in Queries
               PROVE
        LET v    == Found(VectorSearch(q, 0))
            hits == HybridSearch(t, q, 0)
        IN  /\ ToSet(hits) = ToSet(t) \cup ToSet(v) /\ IsInjective(hits)
            /\ \A limit \in Limits \ {0} :
                 /\ Len(HybridSearch(t, q, limit)) = Min({limit, Len(hits)})
                 /\ IsPrefix(HybridSearch(t, q, limit), hits)
            /\ \A h, k \in DOMAIN hits :
                 LET a == hits[h]
                     b == hits[k]
                 IN  /\ \/ Prefers(t, a, b) /\ ~Prefers(v, b, a)
                        \/ Prefers(v, a, b) /\ ~Prefers(t, b, a)
                        => h < k
                     /\ /\ RankIn(t, a) = RankIn(v, b)
                        /\ RankIn(t, b) = RankIn(v, a)
                        => (h < k) = (a < b)
    BY Zenon DEF FusionRespectsBoth
  <2> DEFINE v     == Found(VectorSearch(q, 0))
             found == ToSet(t) \cup ToSet(v)
             n     == Cardinality(found)
             hits  == HybridSearch(t, q, 0)
             T(a)  == Earned(t, a, n)
             V(a)  == Earned(v, a, n)
  <2>1. t \in Seq(Ids) /\ IsInjective(t)
    BY SearchAssumption
  <2>2. v \in Seq(Ids) /\ IsInjective(v)
    <3> DEFINE near == VectorSearch(q, 0)
    <3>1. /\ near \in Seq(Ids \X Int)
          /\ \A a, b \in 1..Len(near) : a < b => near[a][1] # near[b][1]
      BY <1>1, HitsFacts
    <3> HIDE DEF near
    <3>2. /\ Len(near) \in Nat /\ v = [h \in 1..Len(near) |-> near[h][1]]
          /\ \A h \in 1..Len(near) : near[h][1] \in Ids
      BY <3>1 DEF Found, near
    <3>3. \A a, b \in 1..Len(near) : near[a][1] = near[b][1] => a = b
      <4> SUFFICES ASSUME NEW a \in 1..Len(near), NEW b \in 1..Len(near), a # b
                   PROVE  near[a][1] # near[b][1]
        OBVIOUS
      <4>1. a < b \/ b < a
        OBVIOUS
      <4> QED
        BY <3>1, <4>1
    <3>4. v \in [1..Len(near) -> Ids]
      BY <3>2
    <3> QED
      BY <3>2, <3>3, <3>4 DEF IsInjective
  <2> HIDE DEF v
  <2>3. hits = FusedHits(t, v, 0)
        /\ \A limit : HybridSearch(t, q, limit) = FusedHits(t, v, limit)
    BY DEF HybridSearch, v
  <2>4. /\ IsFiniteSet(found)
        /\ hits \in Seq(Ids) /\ ToSet(hits) = found /\ IsInjective(hits)
        /\ \A h, k \in 1..Len(hits) : h < k =>
             Beats(<<hits[h], T(hits[h]) + V(hits[h])>>, <<hits[k], T(hits[k]) + V(hits[k])>>)
        /\ \A limit \in Nat : HybridSearch(t, q, limit) = Cut(hits, limit)
    <3> DEFINE F == FusedHits(t, v, 0)
    <3>1. /\ IsFiniteSet(found)
          /\ F \in Seq(Ids) /\ ToSet(F) = found /\ IsInjective(F)
          /\ \A h, k \in 1..Len(F) : h < k =>
               Beats(<<F[h], T(F[h]) + V(F[h])>>, <<F[k], T(F[k]) + V(F[k])>>)
          /\ \A limit \in Nat : FusedHits(t, v, limit) = Cut(F, limit)
      BY <2>1, <2>2, FusedFacts
    <3> HIDE DEF T, V, found
    <3>2. hits = F
      BY <2>3
    <3> HIDE DEF F, hits
    <3> QED
      BY <2>3, <3>1, <3>2
  <2>5. /\ \A a : T(a) \in Nat
        /\ \A a, b : RankIn(t, a) = RankIn(t, b) => T(a) = T(b)
        /\ \A a, b : Prefers(t, a, b) => T(a) > T(b)
        /\ \A a, b : ~Prefers(t, b, a) => T(a) >= T(b)
    <3>1. ToSet(t) \subseteq found
      OBVIOUS
    <3> HIDE DEF found
    <3> QED
      BY <2>1, <2>4, <3>1, EarnedFacts
  <2>6. /\ \A a : V(a) \in Nat
        /\ \A a, b : RankIn(v, a) = RankIn(v, b) => V(a) = V(b)
        /\ \A a, b : Prefers(v, a, b) => V(a) > V(b)
        /\ \A a, b : ~Prefers(v, b, a) => V(a) >= V(b)
    <3>1. ToSet(v) \subseteq found
      OBVIOUS
    <3> HIDE DEF found
    <3> QED
      BY <2>2, <2>4, <3>1, EarnedFacts
  <2>7. \A a, b : RankIn(t, a) = RankIn(v, b) => T(a) = V(b)
    BY DEF Earned
  <2> HIDE DEF hits, found, n
  <2>8. ASSUME NEW limit \in Limits \ {0}
        PROVE  /\ Len(HybridSearch(t, q, limit)) = Min({limit, Len(hits)})
               /\ IsPrefix(HybridSearch(t, q, limit), hits)
    <3>1. limit \in Nat /\ limit # 0
      BY SearchAssumption
    <3>2. HybridSearch(t, q, limit) = Cut(hits, limit)
      BY <2>4, <3>1
    <3> QED
      BY <2>4, <3>1, <3>2, CutFacts
  <2>9. DOMAIN hits = 1..Len(hits) /\ Len(hits) \in Nat /\ \A h \in 1..Len(hits) : hits[h] \in Nat
    <3>1. Ids \subseteq Nat
      BY SearchAssumption
    <3>2. hits \in Seq(Ids)
      BY <2>4
    <3>3. \A h \in 1..Len(hits) : hits[h] \in Ids
      BY <3>2
    <3>4. \A h \in 1..Len(hits) : hits[h] \in Nat
      BY <3>1, <3>3
    <3>5. DOMAIN hits = 1..Len(hits) /\ Len(hits) \in Nat
      BY <3>2
    <3> QED
      BY <3>4, <3>5
  <2>10. ASSUME NEW h \in 1..Len(hits), NEW k \in 1..Len(hits)
         PROVE  LET a == hits[h]
                    b == hits[k]
                IN  /\ (\/ Prefers(t, a, b) /\ ~Prefers(v, b, a)
                        \/ Prefers(v, a, b) /\ ~Prefers(t, b, a)) => h < k
                    /\ (/\ RankIn(t, a) = RankIn(v, b)
                        /\ RankIn(t, b) = RankIn(v, a)) => (h < k) = (a < b)
    <3> DEFINE a == hits[h]
               b == hits[k]
    <3>1. a \in Nat /\ b \in Nat /\ T(a) + V(a) \in Nat /\ T(b) + V(b) \in Nat
      BY <2>5, <2>6, <2>9
    <3>2. T(a) + V(a) > T(b) + V(b) => h < k
      <4>1. CASE h = k
        <5>1. T(a) + V(a) = T(b) + V(b)
          BY <4>1
        <5> QED
          BY <3>1, <5>1
      <4>2. CASE k < h
        <5>1. Beats(<<b, T(b) + V(b)>>, <<a, T(a) + V(a)>>)
          BY <2>4, <4>2
        <5>2. T(b) + V(b) >= T(a) + V(a)
          BY <3>1, <5>1 DEF Beats
        <5> QED
          BY <3>1, <5>2
      <4>3. CASE h < k
        BY <4>3
      <4> QED
        BY <4>1, <4>2, <4>3
    <3>3. T(a) + V(a) = T(b) + V(b) => (h < k) = (a < b)
      <4> HAVE T(a) + V(a) = T(b) + V(b)
      <4>1. CASE h = k
        BY <3>1, <4>1
      <4>2. CASE k < h
        <5>1. Beats(<<b, T(b) + V(b)>>, <<a, T(a) + V(a)>>)
          BY <2>4, <4>2
        <5>2. b < a
          BY <3>1, <5>1 DEF Beats
        <5> QED
          BY <3>1, <4>2, <5>2
      <4>3. CASE h < k
        <5>1. Beats(<<a, T(a) + V(a)>>, <<b, T(b) + V(b)>>)
          BY <2>4, <4>3
        <5>2. a < b
          BY <3>1, <5>1 DEF Beats
        <5> QED
          BY <3>1, <4>3, <5>2
      <4> QED
        BY <4>1, <4>2, <4>3
    <3> HIDE DEF a, b, T, V
    <3>4. Prefers(t, a, b) /\ ~Prefers(v, b, a) => h < k
      BY <2>5, <2>6, <3>2
    <3>5. Prefers(v, a, b) /\ ~Prefers(t, b, a) => h < k
      BY <2>5, <2>6, <3>2
    <3>6. RankIn(t, a) = RankIn(v, b) /\ RankIn(t, b) = RankIn(v, a) => (h < k) = (a < b)
      <4> HAVE RankIn(t, a) = RankIn(v, b) /\ RankIn(t, b) = RankIn(v, a)
      <4>1. T(a) = V(b) /\ T(b) = V(a)
        BY <2>7
      <4>2. T(a) + V(a) = T(b) + V(b)
        BY <2>5, <2>6, <4>1
      <4> QED
        BY <3>3, <4>2
    <3> QED
      BY <3>4, <3>5, <3>6 DEF a, b
  <2>11. ToSet(hits) = ToSet(t) \cup ToSet(v) /\ IsInjective(hits)
    BY <2>4 DEF found
  <2> QED
    BY <2>8, <2>9, <2>10, <2>11 DEF hits, v
<1> QED
  BY <1>1, IndexInvariant, PTL
=============================================================================
