------------------------------ MODULE TextIndex ------------------------------
(***************************************************************************)
(* The BM25 text index on one field (engine/src/text.rs): parallel arrays  *)
(* over the indexed documents and, per stem, a posting list of             *)
(* <<position, tf>> kept "sorted by doc_idx".  A text is the function from *)
(* stems to frequencies that tokenizing and stemming makes of it.          *)
(*                                                                         *)
(* `held` is the text each document holds; the calls are those Collection  *)
(* makes when documents are written, removed or rebuilt from.  `unsorted`  *)
(* remembers whether a posting list has been out of order since the last   *)
(* build.                                                                  *)
(***************************************************************************)
EXTENDS StdVec, SequencesExt

CONSTANTS
  Ids,    \* document identifiers
  Terms,  \* the stems that occur
  Texts,  \* texts: functions from Terms to frequencies
  MaxPostings, \* bound: longest posting list a model lets Put build
  Limits       \* limits of a search

ASSUME TextAssumption ==
  /\ IsFiniteSet(Terms)
  /\ Texts \subseteq [Terms -> Nat]
  /\ MaxPostings \in Nat
  /\ Limits \subseteq Nat

VARIABLES
  ids,           \* document ids; position i owns document i
  doc_lens,      \* their token counts
  doc_terms,     \* their distinct stems
  total_tokens,  \* corpus-wide token count
  postings,      \* stem -> posting list; <<>> for a stem not in the table
  held,          \* _id -> the text its document holds
  unsorted       \* history: some posting list was once out of order

index == [ids |-> ids, doc_lens |-> doc_lens, doc_terms |-> doc_terms,
          total_tokens |-> total_tokens, postings |-> postings]

vars == <<ids, doc_lens, doc_terms, total_tokens, postings, held, unsorted>>

Empty == [ids |-> <<>>, doc_lens |-> <<>>, doc_terms |-> <<>>,
          total_tokens |-> 0, postings |-> [t \in Terms |-> <<>>]]

Stems(text) == {t \in Terms : text[t] > 0}

Length(text) == SumFunction(text)

DocIdx(list) == [p \in DOMAIN list |-> list[p][1]]

-----------------------------------------------------------------------------
(* remove_at, step 1: drop document i's entry from each of its lists, when *)
(* binary search finds it.                                                 *)
Dropped(ix, i) ==
  [t \in Terms |->
     LET list == ix.postings[t]
         p    == BinarySearch(DocIdx(list), i)
     IN  IF t \in ix.doc_terms[i] /\ p # 0 THEN RemoveAt(list, p) ELSE list]

(* Fault: the moved document's entries keep its old position.              *)
RepointedNot(lists, terms, last, i) == lists

(* Step 2: the last document moves to position i; point its entries there. *)
Repointed(lists, terms, last, i) ==
  [t \in Terms |->
     LET p == BinarySearch(DocIdx(lists[t]), last)
     IN  IF i # last /\ t \in terms /\ p # 0
         THEN [lists[t] EXCEPT ![p][1] = i] ELSE lists[t]]

(* Fault: the length subtracted is that of the document that moved in.     *)
RemovedAtAfterSwap(ix, i) ==
  LET lens == SwapRemove(ix.doc_lens, i)
  IN  [ids          |-> SwapRemove(ix.ids, i),
       doc_lens     |-> lens,
       doc_terms    |-> SwapRemove(ix.doc_terms, i),
       total_tokens |-> ix.total_tokens - (IF i <= Len(lens) THEN lens[i] ELSE ix.doc_lens[i]),
       postings     |-> LET last == Len(ix.ids)
                        IN  Repointed(Dropped(ix, i), ix.doc_terms[last], last, i)]

RemovedAt(ix, i) ==
  [ids          |-> SwapRemove(ix.ids, i),
   doc_lens     |-> SwapRemove(ix.doc_lens, i),
   doc_terms    |-> SwapRemove(ix.doc_terms, i),
   total_tokens |-> ix.total_tokens - ix.doc_lens[i],
   postings     |-> LET last == Len(ix.ids)
                    IN  Repointed(Dropped(ix, i), ix.doc_terms[last], last, i)]

(* TextIndex::remove: a no-op when the document is not indexed.            *)
Without(ix, id) ==
  LET i == PositionOf(ix.ids, id)
  IN  IF i = 0 THEN ix ELSE RemovedAt(ix, i)

(* TextIndex::insert: replace the document's entry by one at the end.      *)
Inserted(ix, id, text) ==
  LET b == Without(ix, id)
      i == Len(b.ids) + 1
  IN  [ids          |-> Append(b.ids, id),
       doc_lens     |-> Append(b.doc_lens, Length(text)),
       doc_terms    |-> Append(b.doc_terms, Stems(text)),
       total_tokens |-> b.total_tokens + Length(text),
       postings     |-> [t \in Terms |->
                           IF text[t] > 0
                           THEN Append(b.postings[t], <<i, text[t]>>)
                           ELSE b.postings[t]]]

(* TextIndex::load, from the documents in the given order.                 *)
Loaded(order) ==
  LET after[n \in 0..Len(order)] ==
        IF n = 0 THEN Empty ELSE Inserted(after[n - 1], order[n], held[order[n]])
  IN  after[Len(order)]

-----------------------------------------------------------------------------
SortedList(list) ==
  \A p, q \in DOMAIN list : p < q => list[p][1] < list[q][1]

Sorted(ix) == \A t \in Terms : SortedList(ix.postings[t])

Become(ix) ==
  /\ ids' = ix.ids
  /\ doc_lens' = ix.doc_lens
  /\ doc_terms' = ix.doc_terms
  /\ total_tokens' = ix.total_tokens
  /\ postings' = ix.postings

(* The document is stored with this text: deindexed, then indexed.         *)
Put(id, text) ==
  /\ Become(Inserted(Without(index, id), id, text))
  /\ \A t \in Terms : Len(postings'[t]) <= MaxPostings
  /\ held' = [i \in DOMAIN held \cup {id} |-> IF i = id THEN text ELSE held[i]]
  /\ unsorted' = (unsorted \/ ~Sorted(index'))

(* The document leaves the collection, or its field no longer holds text.  *)
Drop(id) ==
  /\ Become(Without(index, id))
  /\ held' = Restrict(held, DOMAIN held \ {id})
  /\ unsorted' = (unsorted \/ ~Sorted(index'))

(* create_text_index and reindex: a fresh pass over the documents.         *)
Load ==
  /\ \E order \in SetToSeqs(DOMAIN held) : Become(Loaded(order))
  /\ unsorted' = FALSE
  /\ UNCHANGED held

Init ==
  /\ ids = <<>> /\ doc_lens = <<>> /\ doc_terms = <<>> /\ total_tokens = 0
  /\ postings = [t \in Terms |-> <<>>]
  /\ held = [i \in {} |-> 0]
  /\ unsorted = FALSE

Next ==
  \/ \E id \in Ids : Drop(id) \/ \E text \in Texts : Put(id, text)
  \/ Load

Spec == Init /\ [][Next]_vars

-----------------------------------------------------------------------------
(* search: what one stem adds to a document's BM25 score, in thousandths,  *)
(* with the code's k1 = 1.2 and b = 0.75, of n documents of which df hold  *)
(* the stem.  The rarity of a stem stands without its logarithm, and a     *)
(* weight is rounded up, so that it is positive as the code's is.          *)
Weight(n, df, total, tf, dl) ==
  LET rarity == (2000 * (n + 1)) \div (2 * df + 1)
      scale  == 10 * tf * total + 3 * total + 9 * dl * n
  IN  (rarity * 22 * tf * total) \div scale + 1

(* An entry past the arrays, in the list of a stem of the query, is an     *)
(* index out of bounds.                                                    *)
Panics(q) ==
  ids # <<>> /\ \E t \in q : ~(ToSet(DocIdx(postings[t])) \subseteq DOMAIN ids)

(* score[i]: every entry of the lists of the query's stems that names i.   *)
Score(q, i) ==
  LET Added(t) == SumFunction([p \in DOMAIN postings[t] |->
                    IF postings[t][p][1] = i
                    THEN Weight(Len(ids), Len(postings[t]), total_tokens,
                                postings[t][p][2], doc_lens[i])
                    ELSE 0])
  IN  SumFunction([t \in q |-> Added(t)])

Truncated(hits, limit) ==
  IF limit = 0 THEN hits ELSE SubSeq(hits, 1, Min({limit, Len(hits)}))

(* Collection::text_search for the stems of a query: the hits of positive  *)
(* score as <<_id, score>>, best first, ties in index order.               *)
TextSearch(q, limit) ==
  LET scored == {<<i, Score(q, i)>> : i \in DOMAIN ids}
      best   == Truncated(BestFirst({x \in scored : x[2] > 0}), limit)
  IN  [h \in DOMAIN best |-> <<ids[best[h][1]], best[h][2]>>]

-----------------------------------------------------------------------------
TypeOK ==
  /\ ids \in Seq(Ids)
  /\ doc_lens \in Seq(Nat)
  /\ doc_terms \in Seq(SUBSET Terms)
  /\ total_tokens \in Nat
  /\ postings \in [Terms -> Seq((Nat \ {0}) \X (Nat \ {0}))]
  /\ unsorted \in BOOLEAN

(* The index lists exactly the documents that hold text, each once.        *)
IdsExact == ToSet(ids) = DOMAIN held /\ IsInjective(ids)

(* The parallel arrays stay parallel through every swap_remove: they list  *)
(* the documents that hold text, and position i describes the text of      *)
(* document ids[i].  The corpus token count is their sum, so that the      *)
(* subtraction in remove_at never wraps.                                   *)
ArraysParallel ==
  /\ IdsExact
  /\ total_tokens = SumFunction(doc_lens)
  /\ Len(doc_lens) = Len(ids) /\ Len(doc_terms) = Len(ids)
  /\ \A i \in DOMAIN ids :
       /\ doc_lens[i] = Length(held[ids[i]])
       /\ doc_terms[i] = Stems(held[ids[i]])

(* Each list has exactly the entries the documents call for.               *)
PostingsExact ==
  \A t \in Terms :
    /\ ToSet(postings[t]) =
         {<<i, held[ids[i]][t]>> : i \in {j \in DOMAIN ids : t \in doc_terms[j]}}
    /\ IsInjective(postings[t])

(* The table is exact as long as no list has been out of order: what       *)
(* SearchExactWhileSorted rests on.                                        *)
ExactWhileSorted == unsorted \/ PostingsExact

(* The score a document deserves, from the texts alone.                    *)
Relevance(q, id) ==
  LET docs == DOMAIN held
      total == SumFunction([d \in docs |-> Length(held[d])])
      Holding(t) == {d \in docs : held[d][t] > 0}
  IN  SumFunction([t \in {s \in q : held[id][s] > 0} |->
        Weight(Cardinality(docs), Cardinality(Holding(t)), total, held[id][t], Length(held[id]))])

(* As long as no list has been out of order, a search gives exactly the    *)
(* documents with a stem of the query, each with the score its text and    *)
(* the corpus of the moment give it, best first, and no panic: nothing of  *)
(* the texts that were replaced or deleted, in the lists, the lengths or   *)
(* the token total, counts.  A limit keeps the first of these.             *)
SearchExactWhileSorted ==
  \A q \in SUBSET Terms \ {{}} : ~unsorted =>
    LET hits == TextSearch(q, 0) IN
    /\ ~Panics(q)
    /\ ToSet(hits) = {<<id, Relevance(q, id)>> :
                         id \in {d \in DOMAIN held : \E t \in q : held[d][t] > 0}}
    /\ \A a, b \in DOMAIN hits : a < b => hits[a][1] # hits[b][1] /\ hits[a][2] >= hits[b][2]
    /\ \A limit \in Limits \ {0} :
         TextSearch(q, limit) = SubSeq(hits, 1, Min({limit, Len(hits)}))

(* "Posting lists stay sorted by doc index" (text.rs:17-18, 442-443).      *)
PostingsSorted == Sorted(index)

(* No search panics, whatever the documents have been.                     *)
SearchInBounds == \A t \in Terms : ~Panics({t})
=============================================================================
