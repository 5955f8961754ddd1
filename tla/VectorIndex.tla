----------------------------- MODULE VectorIndex -----------------------------
(***************************************************************************)
(* The vector index on one field (engine/src/vector.rs): a list of _ids    *)
(* and a flat buffer in which the i-th one owns `dim` consecutive floats.  *)
(*                                                                         *)
(* A coordinate of a stored unit vector is the pair <<v, k>>: the k-th     *)
(* coordinate of vector v.  `held` is what the documents hold, the index's *)
(* reason to be: the calls below are those Collection makes when documents *)
(* are written, removed or rebuilt from.  Searches change nothing: they    *)
(* are operators on the index's state, the hybrid search too, for which    *)
(* the text index's ranking is any list of documents of TextRanks.         *)
(***************************************************************************)
EXTENDS StdVec, SequencesExt

CONSTANTS
  Ids,      \* document identifiers, numbered in the order of their strings
  Vectors,  \* numeric arrays of length dim, up to a positive factor
  dim,      \* the configured dimension
  Unit,     \* vector -> its coordinates, on one integer scale for all
  Queries,  \* query vectors, some of another length than dim
  Limits,   \* limits of a search
  TextRanks \* rankings the text index may give a hybrid search

ASSUME DimAssumption == dim \in Nat \ {0}

ASSUME SearchAssumption ==
  /\ Ids \subseteq Nat \ {0}
  /\ Unit \in [Vectors -> [1..dim -> Int]]
  /\ Queries \subseteq Seq(Int)
  /\ Limits \subseteq Nat
  /\ TextRanks \subseteq Seq(Ids) /\ \A r \in TextRanks : IsInjective(r)

VARIABLES
  ids,      \* document ids; position i owns vector i
  vecs,     \* the flat buffer
  held,     \* _id -> the vector its document holds, for documents with one
  shifted,  \* history: since the last build, some remove moved an id other
            \* than into the slot just before its own
  call      \* the last call

vars == <<ids, vecs, held, shifted, call>>

Coordinates(v) == [k \in 1..dim |-> <<v, k>>]

(* The slice of the buffer that position i owns.                           *)
Slot(i) == SubSeq(vecs, (i - 1) * dim + 1, i * dim)

-----------------------------------------------------------------------------
(* remove: the id leaves by swap_remove, its floats by drain.              *)
RemovedIds(id) ==
  LET p == PositionOf(ids, id)
  IN  IF p = 0 THEN ids ELSE SwapRemove(ids, p)

(* Fault: the position is not scaled by dim.                               *)
RemovedVecsUnscaled(id) ==
  LET p == PositionOf(ids, id)
  IN  IF p = 0 THEN vecs ELSE Drain(vecs, p - 1, dim)

(* Fault: the floats at the end leave, whichever document goes.            *)
RemovedVecsLast(id) ==
  LET p == PositionOf(ids, id)
  IN  IF p = 0 THEN vecs ELSE Drain(vecs, (Len(ids) - 1) * dim, dim)

RemovedVecs(id) ==
  LET p == PositionOf(ids, id)
  IN  IF p = 0 THEN vecs ELSE Drain(vecs, (p - 1) * dim, dim)

Shifts(id) == PositionOf(ids, id) \in 1..(Len(ids) - 2)

(* The document leaves the collection, or its field is no longer a vector. *)
Drop(id) ==
  /\ ids' = RemovedIds(id)
  /\ vecs' = RemovedVecs(id)
  /\ held' = Restrict(held, DOMAIN held \ {id})
  /\ shifted' = (shifted \/ Shifts(id))
  /\ call' = "drop"

(* Fault: the document's old entry is left in.                             *)
PutAppending(id, v) ==
  /\ ids' = Append(ids, id)
  /\ vecs' = vecs \o Coordinates(v)
  /\ held' = [i \in DOMAIN held \cup {id} |-> IF i = id THEN v ELSE held[i]]
  /\ shifted' = shifted
  /\ call' = "put"

(* The document is stored with vector v: remove, then insert.              *)
Put(id, v) ==
  /\ ids' = Append(RemovedIds(id), id)
  /\ vecs' = RemovedVecs(id) \o Coordinates(v)
  /\ held' = [i \in DOMAIN held \cup {id} |-> IF i = id THEN v ELSE held[i]]
  /\ shifted' = (shifted \/ Shifts(id))
  /\ call' = "put"

(* create_vector_index: a new index filled from the documents, in the      *)
(* order the map yields them.                                              *)
Create ==
  /\ \E order \in SetToSeqs(DOMAIN held) :
       /\ ids' = order
       /\ vecs' = FlattenSeq([i \in DOMAIN order |-> Coordinates(held[order[i]])])
  /\ shifted' = FALSE
  /\ call' = "create"
  /\ UNCHANGED held

(* Collection::reindex rebuilds the field and text indexes, not this one.  *)
Reindex == call' = "reindex" /\ UNCHANGED <<ids, vecs, held, shifted>>

Init ==
  /\ ids = <<>> /\ vecs = <<>> /\ held = [i \in {} |-> 0]
  /\ shifted = FALSE /\ call = "create"

Next ==
  \/ \E id \in Ids : Drop(id) \/ \E v \in Vectors : Put(id, v)
  \/ Create
  \/ Reindex

Spec == Init /\ [][Next]_vars

-----------------------------------------------------------------------------
(* search: one dot product per slot, best first, ties in index order.      *)
Dot(q, coordinates) == SumFunction([k \in 1..dim |-> q[k] * coordinates[k]])

Score(q, i) == Dot(q, [k \in 1..dim |-> Unit[Slot(i)[k][1]][Slot(i)[k][2]]])

Truncated(hits, limit) ==
  IF limit = 0 THEN hits ELSE SubSeq(hits, 1, Min({limit, Len(hits)}))

(* Collection::vector_search: the hits as <<_id, score>>.  A query of the  *)
(* wrong length finds nothing.                                             *)
VectorSearch(q, limit) ==
  IF Len(q) # dim THEN <<>>
  ELSE LET scored == {<<i, Score(q, i)>> : i \in DOMAIN ids}
           best   == Truncated(BestFirst(scored), limit)
       IN  [h \in DOMAIN best |-> <<ids[best[h][1]], best[h][2]>>]

-----------------------------------------------------------------------------
(* Collection::hybrid_search: reciprocal-rank fusion.  The reciprocal of   *)
(* RRF_K + r is in units in which those of the ranks 1..n are whole.       *)
RRF_K == 60

Reciprocal(r, n) ==
  LET product[x \in 0..n] ==
        IF x = 0 THEN 1 ELSE product[x - 1] * (IF x = r THEN 1 ELSE RRF_K + x)
  IN  product[n]

Found(hits) == [h \in DOMAIN hits |-> hits[h][1]]

RankIn(ranking, id) == PositionOf(ranking, id)

Earned(ranking, id, n) ==
  LET r == RankIn(ranking, id) IN IF r = 0 THEN 0 ELSE Reciprocal(r, n)

(* Both full rankings are fused, over their union; then the limit cuts.    *)
FusedHits(text_rank, vec_rank, limit) ==
  LET found == ToSet(text_rank) \cup ToSet(vec_rank)
      n     == Cardinality(found)
      fused == {<<id, Earned(text_rank, id, n) + Earned(vec_rank, id, n)>> : id \in found}
  IN  Truncated(Found(BestFirst(fused)), limit)

(* Fault: the two searches are limited, and not only their fusion.         *)
HybridSearchCutEarly(text_rank, q, limit) ==
  FusedHits(Truncated(text_rank, limit), Found(VectorSearch(q, limit)), limit)

HybridSearch(text_rank, q, limit) ==
  FusedHits(text_rank, Found(VectorSearch(q, 0)), limit)

-----------------------------------------------------------------------------
TypeOK ==
  /\ ids \in Seq(Ids)
  /\ vecs \in Seq(Vectors \X (1..dim))
  /\ DOMAIN held \subseteq Ids /\ held \in [DOMAIN held -> Vectors]
  /\ shifted \in BOOLEAN
  /\ call \in {"put", "drop", "create", "reindex"}

(* The index lists exactly the documents that hold a vector, each once, so *)
(* `len` counts them and a search scores each exactly once.                *)
IdsExact == ToSet(ids) = DOMAIN held /\ IsInjective(ids)

(* The flat buffer stays packed and no vector is ever torn: every slot is  *)
(* the whole of some vector, though perhaps not of the slot's document.    *)
SlotsWhole ==
  /\ Len(vecs) = Len(ids) * dim
  /\ \A i \in DOMAIN ids : \E v \in Vectors : Slot(i) = Coordinates(v)

(* Slot i holds the vector of document ids[i], as vector.rs:42-43 has it.  *)
Aligned == \A i \in DOMAIN ids : Slot(i) = Coordinates(held[ids[i]])

(* Slots and documents agree as long as no remove took an entry that was   *)
(* neither the last nor the one before: what SearchExactUntilShift rests on. *)
AlignedUntilShift == shifted \/ Aligned

(* As long as the slots are right, a search gives every document that      *)
(* holds a vector, each with the score of its own vector, best first; and  *)
(* a limit keeps the first of these and nothing else.                      *)
SearchExactUntilShift ==
  \A q \in Queries :
    LET hits == VectorSearch(q, 0) IN
    /\ \A limit \in Limits \ {0} :
         /\ Len(VectorSearch(q, limit)) = Min({limit, Len(hits)})
         /\ IsPrefix(VectorSearch(q, limit), hits)
    /\ Len(q) = dim /\ ~shifted =>
         /\ ToSet(hits) = {<<id, Dot(q, Unit[held[id]])>> : id \in DOMAIN held}
         /\ \A a, b \in DOMAIN hits : a < b => hits[a][2] >= hits[b][2]

(* One ranking prefers a to b, which it may not hold at all.               *)
Prefers(ranking, a, b) ==
  RankIn(ranking, a) # 0 /\ (RankIn(ranking, b) = 0 \/ RankIn(ranking, a) < RankIn(ranking, b))

(* Whatever the two rankings are, misaligned ones included, the fusion     *)
(* holds the documents of either, once; one that a ranking prefers and the *)
(* other does not put back comes first; the two that swap their ranks come *)
(* in the order of their ids; and a limit cuts the fusion, not what goes   *)
(* into it.                                                                *)
FusionRespectsBoth ==
  \A text_rank \in {r \in TextRanks : ToSet(r) \subseteq DOMAIN held}, q \in Queries :
    LET vec_rank == Found(VectorSearch(q, 0))
        hits     == HybridSearch(text_rank, q, 0)
    IN  /\ ToSet(hits) = ToSet(text_rank) \cup ToSet(vec_rank) /\ IsInjective(hits)
        /\ \A limit \in Limits \ {0} :
             /\ Len(HybridSearch(text_rank, q, limit)) = Min({limit, Len(hits)})
             /\ IsPrefix(HybridSearch(text_rank, q, limit), hits)
        /\ \A h, k \in DOMAIN hits :
             LET a == hits[h]
                 b == hits[k]
             IN  /\ \/ Prefers(text_rank, a, b) /\ ~Prefers(vec_rank, b, a)
                    \/ Prefers(vec_rank, a, b) /\ ~Prefers(text_rank, b, a)
                    => h < k
                 /\ /\ RankIn(text_rank, a) = RankIn(vec_rank, b)
                    /\ RankIn(text_rank, b) = RankIn(vec_rank, a)
                    => (h < k) = (a < b)

(* Violated: "ties break by `_id` ascending" (collection.rs:350 and        *)
(* vector.rs:123); the code breaks them by position in the index, which    *)
(* is the order of the last writes.                                        *)
TiesById ==
  \A q \in Queries : LET hits == VectorSearch(q, 0) IN
    \A a, b \in DOMAIN hits : a < b /\ hits[a][2] = hits[b][2] => hits[a][1] < hits[b][1]

(* After reindex, which is to rebuild every index, the vector index agrees *)
(* with the documents whatever it held before.                             *)
ReindexRealigns == [][call' = "reindex" => Aligned']_vars
=============================================================================
