-------------------------- MODULE CollectionProofs ---------------------------
(***************************************************************************)
(* Proofs about Collection and about the Transaction and the               *)
(* ServerCommands that extend it, for every value of their constants:      *)
(* their type invariants, that the three index layers stay in lockstep     *)
(* with the documents through every write path and through a commit that   *)
(* stops half-way, what follows from that about single steps, that the     *)
(* buffer of a batch is well formed, that a batch implements AtomicBatch,  *)
(* and that the server's answers tell what its commands did.               *)
(*                                                                         *)
(* The inductive invariant is the conjunction of one part per layer.  The  *)
(* heart of it is WriteKeepsStore: every write path ends in Write(gone,    *)
(* new), and Write keeps the layers in step provided that what it          *)
(* overwrites it also takes out.  The rest shows that each call meets      *)
(* that condition.                                                         *)
(*                                                                         *)
(* That of a batch adds the shape of the buffer, what each phase implies,  *)
(* and Replayed: while the commit loop runs, the documents are those of    *)
(* begin() with the ops before `pos` applied.  Replayed is what the        *)
(* refinement needs of the loop: wherever it ends, the caller sees some of *)
(* the staged writes, each one whole.                                      *)
(*                                                                         *)
(* A server command adds nothing to the invariant: it is a call of the     *)
(* collection, and its answer is compared with what that call wrote.  For  *)
(* an insert, the identifiers that are new and that the request did not    *)
(* name are those the counter drew, and sorting them by the number drawn   *)
(* gives them back in the order of the documents.                          *)
(***************************************************************************)
EXTENDS Transaction, ServerCommands, StdVecProofs, FiniteSetTheorems, SequenceTheorems, TLAPS

-----------------------------------------------------------------------------
(* The invariant of a collection.                                          *)

DocsOK ==
  /\ DOMAIN docs \subseteq Ids /\ docs \in [DOMAIN docs -> Docs]
  /\ KeyIsId

IndexesOK ==
  /\ IdKey \in DOMAIN indexes /\ DOMAIN indexes \subseteq IndexedFields
  /\ indexes \in [DOMAIN indexes -> SUBSET ((Values \cup Ids) \X Ids)]
  /\ IndexLockstep

VectorsOK ==
  /\ DOMAIN vector_indexes \subseteq Fields
  /\ vector_indexes \in [DOMAIN vector_indexes -> VectorIndexes]
  /\ VectorLockstep

TextsOK ==
  /\ DOMAIN text_indexes \subseteq Fields
  /\ text_indexes \in [DOMAIN text_indexes -> SUBSET Ids]
  /\ TextLockstep

StoreOK == DocsOK /\ IndexesOK /\ VectorsOK /\ TextsOK

IInv == StoreOK /\ ID_COUNTER \in 0..MaxId

(* The documents a write path may install.                                 *)
Installable(new) ==
  /\ DOMAIN new \subseteq Ids /\ new \in [DOMAIN new -> Docs]
  /\ \A id \in DOMAIN new : new[id].id = id

-----------------------------------------------------------------------------
(* Entries and the sets of indexed ids are well typed.                     *)

(* Entries point from values at identifiers.                                *)
LEMMA EntriesType ==
  ASSUME NEW ds, Installable(ds), NEW f \in IndexedFields
  PROVE  Entries(ds, f) \in SUBSET ((Values \cup Ids) \X Ids)
<1> SUFFICES ASSUME NEW id \in DOMAIN ds
             PROVE  IndexValue(ds[id], f) \in Values \cup Ids
  BY DEF Entries, Installable
<1>1. ds[id] \in Docs
  BY DEF Installable
<1> QED BY <1>1, ValueAssumption DEF IndexValue, Docs, Bodies, IndexedFields

(* What a vector or text index covers are identifiers.                      *)
LEMMA SubsetsType ==
  ASSUME NEW ds, Installable(ds), NEW f, NEW d
  PROVE  VectorIds(ds, f, d) \subseteq Ids /\ TextIds(ds, f) \subseteq Ids
BY DEF VectorIds, TextIds, Installable

(* Write keeps every layer in lockstep with the documents when it takes    *)
(* out the stored documents it overwrites.                                 *)
LEMMA WriteKeepsStore ==
  ASSUME StoreOK, NEW gone \in SUBSET DOMAIN docs, NEW new, Installable(new),
         DOMAIN new \cap DOMAIN docs \subseteq gone, Write(gone, new)
  PROVE  StoreOK'
<1> DEFINE ds == [id \in (DOMAIN docs \ gone) \cup DOMAIN new |->
                    IF id \in DOMAIN new THEN new[id] ELSE docs[id]]
<1>1. docs' = ds
  BY DEF Write, DocsAfter
<1>2. /\ DOMAIN ds = (DOMAIN docs \ gone) \cup DOMAIN new
      /\ \A id \in DOMAIN new : ds[id] = new[id]
      /\ \A id \in DOMAIN docs \ gone : ds[id] = docs[id] /\ id \notin DOMAIN new
  OBVIOUS
<1>3. Installable(ds)
  BY <1>2 DEF StoreOK, DocsOK, KeyIsId, Installable
<1>4. DocsOK'
  BY <1>1, <1>3 DEF DocsOK, KeyIsId, Installable
<1> HIDE DEF ds
<1>5. IndexesOK'
  <2>1. DOMAIN indexes' = DOMAIN indexes
    BY DEF Write, IndexesAfter
  <2>2. ASSUME NEW f \in DOMAIN indexes
        PROVE  indexes'[f] = Entries(ds, f)
    <3>1. indexes'[f] = (Entries(docs, f) \ Entries(Restrict(docs, gone), f)) \cup Entries(new, f)
      BY DEF Write, IndexesAfter, StoreOK, IndexesOK, IndexLockstep
    <3>2. Entries(Restrict(docs, gone), f) = {<<IndexValue(docs[id], f), id>> : id \in gone}
      BY DEF Entries, Restrict
    <3>3. Entries(docs, f) \ Entries(Restrict(docs, gone), f)
            = {<<IndexValue(docs[id], f), id>> : id \in DOMAIN docs \ gone}
      BY <3>2 DEF Entries
    <3>4. Entries(ds, f) = {<<IndexValue(ds[id], f), id>> : id \in DOMAIN docs \ gone}
                             \cup {<<IndexValue(ds[id], f), id>> : id \in DOMAIN new}
      BY <1>2 DEF Entries
    <3>5. {<<IndexValue(ds[id], f), id>> : id \in DOMAIN new} = Entries(new, f)
      BY <1>2 DEF Entries
    <3>6. {<<IndexValue(ds[id], f), id>> : id \in DOMAIN docs \ gone}
            = {<<IndexValue(docs[id], f), id>> : id \in DOMAIN docs \ gone}
      BY <1>2
    <3> QED BY <3>1, <3>3, <3>4, <3>5, <3>6
  <2>3. \A f \in DOMAIN indexes : Entries(ds, f) \in SUBSET ((Values \cup Ids) \X Ids)
    BY <1>3, EntriesType DEF StoreOK, IndexesOK
  <2>4. indexes' = [f \in DOMAIN indexes |-> indexes'[f]]
    BY DEF Write, IndexesAfter
  <2> QED BY <1>1, <2>1, <2>2, <2>3, <2>4 DEF StoreOK, IndexesOK, IndexLockstep
<1>6. VectorsOK'
  <2>1. DOMAIN vector_indexes' = DOMAIN vector_indexes
    BY DEF Write, VectorsAfter
  <2>2. ASSUME NEW f \in DOMAIN vector_indexes
        PROVE  vector_indexes'[f] = [dim |-> vector_indexes[f].dim,
                                     ids |-> VectorIds(ds, f, vector_indexes[f].dim)]
    <3> DEFINE d == vector_indexes[f].dim
    <3>1. vector_indexes[f] \in VectorIndexes /\ vector_indexes[f].ids = VectorIds(docs, f, d)
      BY DEF StoreOK, VectorsOK, VectorLockstep
    <3>2. vector_indexes'[f] = [vector_indexes[f] EXCEPT
                                  !.ids = (@ \ gone) \cup VectorIds(new, f, d)]
      BY DEF Write, VectorsAfter
    <3>3. (VectorIds(docs, f, d) \ gone) \cup VectorIds(new, f, d) = VectorIds(ds, f, d)
      BY <1>2 DEF VectorIds
    <3> QED BY <3>1, <3>2, <3>3 DEF VectorIndexes
  <2>3. ASSUME NEW f \in DOMAIN vector_indexes
        PROVE  vector_indexes'[f] \in VectorIndexes
    <3>1. vector_indexes[f].dim \in Dims
      BY DEF StoreOK, VectorsOK, VectorIndexes
    <3>2. VectorIds(ds, f, vector_indexes[f].dim) \in SUBSET Ids
      BY <1>3, SubsetsType
    <3>3. [dim |-> vector_indexes[f].dim, ids |-> VectorIds(ds, f, vector_indexes[f].dim)]
            \in VectorIndexes
      BY <3>1, <3>2 DEF VectorIndexes
    <3> QED BY <2>2, <3>3
  <2>4. vector_indexes' = [f \in DOMAIN vector_indexes |-> vector_indexes'[f]]
    BY DEF Write, VectorsAfter
  <2> QED BY <1>1, <2>1, <2>2, <2>3, <2>4 DEF StoreOK, VectorsOK, VectorLockstep
<1>7. TextsOK'
  <2>1. DOMAIN text_indexes' = DOMAIN text_indexes
    BY DEF Write, TextsAfter
  <2>2. ASSUME NEW f \in DOMAIN text_indexes
        PROVE  text_indexes'[f] = TextIds(ds, f)
    <3>1. text_indexes'[f] = (TextIds(docs, f) \ gone) \cup TextIds(new, f)
      BY DEF Write, TextsAfter, StoreOK, TextsOK, TextLockstep
    <3> QED BY <1>2, <3>1 DEF TextIds
  <2>3. \A f \in DOMAIN text_indexes : TextIds(ds, f) \in SUBSET Ids
    BY <1>3, SubsetsType
  <2>4. text_indexes' = [f \in DOMAIN text_indexes |-> text_indexes'[f]]
    BY DEF Write, TextsAfter
  <2> QED BY <1>1, <2>1, <2>2, <2>3, <2>4 DEF StoreOK, TextsOK, TextLockstep
<1> QED BY <1>4, <1>5, <1>6, <1>7 DEF StoreOK

-----------------------------------------------------------------------------
(* What the write paths install is a document, under its own identifier.   *)

(* normalize_doc accepts only what becomes a document.                      *)
LEMMA NormalizeDocType ==
  ASSUME NEW raw \in RawDocs, NEW n, Draws(raw) = 1 => n \in 1..MaxId,
         NormalizeDoc(raw, n).err = "ok"
  PROVE  NormalizeDoc(raw, n).doc \in Docs
<1>1. raw # NotObject /\ raw.id # NotString
  BY DEF NormalizeDoc
<1>2. raw \in [id : Ids \cup {Absent, NotString}, body : Bodies]
  BY <1>1 DEF RawDocs
<1>3. NormalizeDoc(raw, n).doc = [id   |-> IF raw.id = Absent THEN HexId[n] ELSE raw.id,
                                  body |-> raw.body]
  BY <1>1 DEF NormalizeDoc
<1>4. CASE raw.id = Absent
  <2>1. HexId[n] \in Ids
    BY <1>1, <1>4, IdAssumption DEF Draws
  <2> QED BY <1>2, <1>3, <1>4, <2>1 DEF Docs
<1>5. CASE raw.id # Absent
  BY <1>1, <1>2, <1>3, <1>5 DEF Docs
<1> QED BY <1>4, <1>5

(* normalize_replace gives a document under the identifier it is asked      *)
(* for.                                                                     *)
LEMMA NormalizeReplaceType ==
  ASSUME NEW id \in Ids, NEW raw \in RawDocs, NormalizeReplace(id, raw).err = "ok"
  PROVE  /\ NormalizeReplace(id, raw).doc \in Docs
         /\ NormalizeReplace(id, raw).doc.id = id
<1>1. raw # NotObject /\ NormalizeReplace(id, raw).doc = [id |-> id, body |-> raw.body]
  BY DEF NormalizeReplace
<1>2. raw.body \in Bodies
  BY <1>1 DEF RawDocs
<1> QED BY <1>1, <1>2 DEF Docs

(* An update that does not fail gives a document, of the same id.          *)
LEMMA ApplyUpdateIsDoc ==
  ASSUME NEW doc \in Docs, NEW u \in Updates, ~UpdateFails(doc, u)
  PROVE  ApplyUpdate(doc, u) \in Docs /\ ApplyUpdate(doc, u).id = doc.id
<1> DEFINE body == [f \in Fields |-> NewField(doc.body[f], u.ops[f])]
<1>1. ASSUME NEW f \in Fields
      PROVE  NewField(doc.body[f], u.ops[f]) \in Values \cup {Missing}
  <2>1. doc.body[f] \in Values \cup {Missing}
    BY DEF Docs, Bodies
  <2>2. u.ops[f] \in FieldOps
    BY DEF Updates
  <2>3. CASE u.ops[f].op = "keep"
    BY <2>1, <2>3 DEF NewField
  <2>4. CASE u.ops[f].op = "set"
    BY <2>2, <2>4 DEF NewField, FieldOps
  <2>5. CASE u.ops[f].op = "inc"
    <3>1. u.ops[f].arg \in Numbers /\ doc.body[f] \in Numbers \cup {Missing}
      BY <2>5 DEF UpdateFails, IncFails
    <3>2. NewField(doc.body[f], u.ops[f]) =
            IF doc.body[f] = Missing THEN u.ops[f].arg ELSE Plus[doc.body[f], u.ops[f].arg]
      BY <2>5, SMTT(60) DEF NewField
    <3>3. CASE doc.body[f] = Missing
      BY <3>1, <3>2, <3>3, ValueAssumption
    <3>4. CASE doc.body[f] # Missing
      <4>1. <<doc.body[f], u.ops[f].arg>> \in Numbers \X Numbers
        BY <3>1, <3>4
      <4>2. Plus[doc.body[f], u.ops[f].arg] \in Numbers
        BY <4>1, ValueAssumption, ZenonT(60)
      <4> QED BY <3>2, <3>4, <4>2, ValueAssumption
    <3> QED BY <3>3, <3>4
  <2>6. CASE u.ops[f].op = "unset"
    BY <2>6 DEF NewField
  <2> QED BY <2>2, <2>3, <2>4, <2>5, <2>6 DEF FieldOps
<1>2. body \in Bodies
  BY <1>1 DEF Bodies
<1>3. ApplyUpdate(doc, u) = [id |-> doc.id, body |-> body]
  BY DEF ApplyUpdate, Docs
<1> HIDE DEF body
<1> QED BY <1>2, <1>3 DEF Docs

(* It is one that can be handed in again, as set_doc does.                  *)
LEMMA ApplyUpdateType ==
  ASSUME NEW doc \in Docs, NEW u \in Updates, ~UpdateFails(doc, u)
  PROVE  ApplyUpdate(doc, u) \in RawDocs
BY ApplyUpdateIsDoc DEF Docs, RawDocs

-----------------------------------------------------------------------------
(* Staging a batch.                                                        *)

(* The inputs of insert_many are finite sequences of inputs.                *)
LEMMA BatchType ==
  ASSUME NEW raws \in Batches
  PROVE  /\ Len(raws) \in Nat /\ DOMAIN raws = 1..Len(raws)
         /\ raws \in [DOMAIN raws -> RawDocs]
<1>1. PICK n \in 0..MaxBatch : raws \in [1..n -> RawInputs]
  BY DEF Batches
<1>2. n \in Nat
  BY InputAssumption
<1>3. raws \in Seq(RawInputs)
  <2> DEFINE e(i) == raws[i]
  <2>1. \A i \in 1..n : e(i) \in RawInputs
    BY <1>1
  <2> HIDE DEF e
  <2>2. [i \in 1..n |-> e(i)] \in Seq(RawInputs)
    BY <1>2, <2>1, IsASeq
  <2> QED BY <1>1, <2>2 DEF e
<1>4. Len(raws) \in Nat /\ DOMAIN raws = 1..Len(raws) /\ raws \in [1..Len(raws) -> RawInputs]
  BY <1>3, LenProperties
<1> QED BY <1>4, InputAssumption

(* A document that draws an identifier draws one within the bound.         *)
LEMMA DrawnByBounds ==
  ASSUME NEW raws, NEW k \in Nat, NEW i \in 1..k
  PROVE  /\ DrawnBy(raws, i) \in Nat /\ DrawnBy(raws, k) \in Nat
         /\ DrawnBy(raws, i) <= DrawnBy(raws, k)
         /\ Draws(raws[i]) = 1 => 1 <= DrawnBy(raws, i)
<1> DEFINE D(m) == {j \in 1..m : Draws(raws[j]) = 1}
<1>1. IsFiniteSet(1..k)
  BY FS_Interval
<1>2. D(k) \in SUBSET (1..k) /\ D(i) \in SUBSET D(k)
  OBVIOUS
<1>3. IsFiniteSet(D(k)) /\ IsFiniteSet(D(i)) /\ Cardinality(D(i)) <= Cardinality(D(k))
  BY <1>1, <1>2, FS_Subset
<1>4. Cardinality(D(i)) \in Nat /\ Cardinality(D(k)) \in Nat
  BY <1>3, FS_CardinalityType
<1>5. ASSUME Draws(raws[i]) = 1 PROVE 1 <= Cardinality(D(i))
  <2>1. i \in D(i)
    BY <1>5
  <2>2. Cardinality(D(i)) # 0
    BY <1>3, <2>1, FS_EmptySet
  <2> QED BY <1>4, <2>2
<1> QED BY <1>3, <1>4, <1>5 DEF DrawnBy

(* A batch that stages to its end installs documents under identifiers     *)
(* that are not stored.                                                    *)
LEMMA StagedDocsInstallable ==
  ASSUME IInv, NEW raws \in Batches,
         ID_COUNTER + DrawnBy(raws, Len(raws)) <= MaxId,
         StagedUpTo(raws, Len(raws), DOMAIN docs)
  PROVE  /\ Installable(StagedDocs(raws))
         /\ DOMAIN StagedDocs(raws) \cap DOMAIN docs = {}
<1>1. /\ Len(raws) \in Nat /\ DOMAIN raws = 1..Len(raws)
      /\ raws \in [DOMAIN raws -> RawDocs]
  BY BatchType
<1>2. ASSUME NEW i \in DOMAIN raws
      PROVE  /\ Staged(raws, i).doc \in Docs
             /\ Staged(raws, i).doc.id \notin DOMAIN docs
  <2>1. /\ DrawnBy(raws, i) \in Nat /\ DrawnBy(raws, i) <= DrawnBy(raws, Len(raws))
        /\ DrawnBy(raws, Len(raws)) \in Nat
        /\ Draws(raws[i]) = 1 => 1 <= DrawnBy(raws, i)
    BY <1>1, DrawnByBounds
  <2>2. Draws(raws[i]) = 1 => ID_COUNTER + DrawnBy(raws, i) \in 1..MaxId
    BY <2>1, IdAssumption DEF IInv
  <2>3. StagedError(raws, i, DOMAIN docs) = "ok"
    BY <1>1 DEF StagedUpTo
  <2>4. /\ Staged(raws, i).err = "ok"
        /\ Staged(raws, i).doc.id \notin DOMAIN docs
    BY <2>3 DEF StagedError, InsertError
  <2>5. raws[i] \in RawDocs
    BY <1>1
  <2> QED BY <2>2, <2>4, <2>5, NormalizeDocType DEF Staged
<1> DEFINE at(id) == CHOOSE i \in DOMAIN raws : Staged(raws, i).doc.id = id
           ids == {Staged(raws, i).doc.id : i \in DOMAIN raws}
<1>3. StagedDocs(raws) = [id \in ids |-> Staged(raws, at(id)).doc]
  BY DEF StagedDocs
<1>4. ASSUME NEW id \in ids
      PROVE  at(id) \in DOMAIN raws /\ Staged(raws, at(id)).doc.id = id
  <2>1. \E i \in DOMAIN raws : Staged(raws, i).doc.id = id
    OBVIOUS
  <2> QED BY <2>1
<1> HIDE DEF at
<1>5. ids \subseteq Ids /\ ids \cap DOMAIN docs = {}
  BY <1>2 DEF Docs
<1> HIDE DEF ids
<1> QED BY <1>2, <1>3, <1>4, <1>5 DEF Installable

-----------------------------------------------------------------------------
(* Each call preserves the invariant.                                      *)

(* A call that leaves the store alone.                                      *)
LEMMA UnchangedKeepsStore ==
  ASSUME StoreOK, UNCHANGED store
  PROVE  StoreOK'
<1>1. docs' = docs /\ indexes' = indexes /\ vector_indexes' = vector_indexes
      /\ text_indexes' = text_indexes
  BY DEF store, layers
<1> QED BY <1>1 DEF StoreOK, DocsOK, KeyIsId, IndexesOK, IndexLockstep, VectorsOK,
                    VectorLockstep, TextsOK, TextLockstep

(* insert: the counter moves with the document.                             *)
LEMMA InsertKeepsIInv ==
  ASSUME IInv, NEW raw \in RawInputs, Insert(raw)
  PROVE  IInv'
<1> DEFINE n == NormalizeDoc(raw, ID_COUNTER + 1)
<1>1. Draws(raw) \in {0, 1}
  BY DEF Draws
<1>2. ID_COUNTER' \in 0..MaxId /\ (Draws(raw) = 1 => ID_COUNTER + 1 \in 1..MaxId)
  BY <1>1, IdAssumption DEF IInv, Insert
<1>3. CASE Fail("insert", InsertError(n, DOMAIN docs))
  BY <1>2, <1>3, UnchangedKeepsStore DEF IInv, Fail
<1>4. CASE /\ InsertError(n, DOMAIN docs) = "ok"
           /\ Write({}, [id \in {n.doc.id} |-> n.doc])
  <2>1. n.err = "ok" /\ n.doc.id \notin DOMAIN docs
    BY <1>4 DEF InsertError
  <2>2. n.doc \in Docs
    BY <1>2, <2>1, NormalizeDocType, InputAssumption
  <2> DEFINE new == [id \in {n.doc.id} |-> n.doc]
  <2>3. Installable(new) /\ DOMAIN new \cap DOMAIN docs \subseteq {}
    BY <2>1, <2>2 DEF Installable, Docs
  <2>4. Write({}, new)
    BY <1>4
  <2> HIDE DEF new
  <2>5. StoreOK'
    BY <2>3, <2>4, WriteKeepsStore DEF IInv
  <2> QED BY <1>2, <2>5 DEF IInv
<1> QED BY <1>3, <1>4 DEF Insert

(* insert_many: all documents staged, then all written.                     *)
LEMMA InsertManyKeepsIInv ==
  ASSUME IInv, NEW raws \in Batches, InsertMany(raws)
  PROVE  IInv'
<1>1. /\ Len(raws) \in Nat /\ DOMAIN raws = 1..Len(raws)
      /\ ID_COUNTER + DrawnBy(raws, Len(raws)) <= MaxId
  BY BatchType DEF InsertMany
<1>2. CASE \E i \in DOMAIN raws : /\ UNCHANGED store
                                  /\ ID_COUNTER' = ID_COUNTER + DrawnBy(raws, i)
  <2>1. PICK i \in 1..Len(raws) : /\ UNCHANGED store
                                  /\ ID_COUNTER' = ID_COUNTER + DrawnBy(raws, i)
    BY <1>1, <1>2
  <2>2. /\ DrawnBy(raws, i) \in Nat /\ DrawnBy(raws, i) <= DrawnBy(raws, Len(raws))
        /\ DrawnBy(raws, Len(raws)) \in Nat
    BY <1>1, DrawnByBounds
  <2>3. ID_COUNTER' \in 0..MaxId
    BY <1>1, <2>1, <2>2, IdAssumption DEF IInv
  <2> QED BY <2>1, <2>3, UnchangedKeepsStore DEF IInv
<1>3. CASE /\ StagedUpTo(raws, Len(raws), DOMAIN docs)
           /\ Write({}, StagedDocs(raws))
           /\ ID_COUNTER' = ID_COUNTER + DrawnBy(raws, Len(raws))
  <2>1. Installable(StagedDocs(raws)) /\ DOMAIN StagedDocs(raws) \cap DOMAIN docs \subseteq {}
    BY <1>1, <1>3, StagedDocsInstallable
  <2>2. StoreOK'
    BY <1>3, <2>1, WriteKeepsStore DEF IInv
  <2>3. DrawnBy(raws, Len(raws)) \in Nat
    <3>1. IsFiniteSet(1..Len(raws))
      BY <1>1, FS_Interval
    <3>2. IsFiniteSet({j \in 1..Len(raws) : Draws(raws[j]) = 1})
      BY <3>1, FS_Subset
    <3> QED BY <3>2, FS_CardinalityType DEF DrawnBy
  <2>4. ID_COUNTER' \in 0..MaxId
    BY <1>1, <1>3, <2>3, IdAssumption DEF IInv
  <2> QED BY <2>2, <2>4 DEF IInv
<1> QED BY <1>2, <1>3 DEF InsertMany, Fail

(* Replacements and updates of a stored document.                          *)
LEMMA SetStoredKeepsStore ==
  ASSUME StoreOK, NEW call, NEW id \in DOMAIN docs, NEW raw \in RawDocs,
         SetStored(call, id, raw)
  PROVE  StoreOK'
<1>1. CASE UNCHANGED store
  BY <1>1, UnchangedKeepsStore
<1>2. CASE /\ SetDocError(id, raw) = "ok"
           /\ Write({id}, [i \in {id} |-> NormalizeReplace(id, raw).doc])
  <2> DEFINE new == [i \in {id} |-> NormalizeReplace(id, raw).doc]
  <2>1. id \in Ids
    BY DEF StoreOK, DocsOK
  <2>2. NormalizeReplace(id, raw).err = "ok"
    BY <1>2 DEF SetDocError
  <2>3. NormalizeReplace(id, raw).doc \in Docs /\ NormalizeReplace(id, raw).doc.id = id
    BY <2>1, <2>2, NormalizeReplaceType
  <2>4. Installable(new) /\ DOMAIN new \cap DOMAIN docs \subseteq {id}
    BY <2>1, <2>3 DEF Installable
  <2>5. Write({id}, new)
    BY <1>2
  <2> HIDE DEF new
  <2> QED BY <2>4, <2>5, WriteKeepsStore
<1> QED BY <1>1, <1>2 DEF SetStored, Fail

(* set: stores a document, or is refused.                                   *)
LEMMA SetDocKeepsStore ==
  ASSUME StoreOK, NEW id \in Ids, NEW raw \in RawInputs, SetDoc(id, raw)
  PROVE  StoreOK'
BY SetStoredKeepsStore, UnchangedKeepsStore, InputAssumption DEF SetDoc

(* replace_one, with and without a match.                                   *)
LEMMA ReplaceOneKeepsStore ==
  ASSUME StoreOK, NEW matched \in SUBSET DOMAIN docs, NEW raw \in RawInputs,
         ReplaceOne(matched, raw)
  PROVE  StoreOK'
BY SetStoredKeepsStore, UnchangedKeepsStore, InputAssumption DEF ReplaceOne, Fail

(* update_one, with and without a match, or refused.                        *)
LEMMA UpdateOneKeepsStore ==
  ASSUME StoreOK, NEW matched \in SUBSET DOMAIN docs, NEW u \in UpdateInputs,
         UpdateOne(matched, u)
  PROVE  StoreOK'
<1>1. CASE UNCHANGED store
  BY <1>1, UnchangedKeepsStore
<1>2. ASSUME NEW id \in matched, ~UpdateFails(docs[id], u),
             SetStored("update_one", id, ApplyUpdate(docs[id], u))
      PROVE  StoreOK'
  <2>1. docs[id] \in Docs /\ u \in Updates
    BY InputAssumption DEF StoreOK, DocsOK
  <2>2. ApplyUpdate(docs[id], u) \in RawDocs
    BY <1>2, <2>1, ApplyUpdateType
  <2> QED BY <1>2, <2>2, SetStoredKeepsStore
<1> QED BY <1>1, <1>2 DEF UpdateOne, Fail

(* Updated documents keep the identifiers they are stored under.            *)
LEMMA UpdatedInstallable ==
  ASSUME StoreOK, NEW u \in UpdateInputs, NEW ids \in SUBSET DOMAIN docs,
         \A id \in ids : UpdateError(id, u) = "ok"
  PROVE  Installable(Updated(ids, u)) /\ DOMAIN Updated(ids, u) = ids
<1>1. ASSUME NEW id \in ids
      PROVE  LET n == NormalizeReplace(id, ApplyUpdate(docs[id], u))
             IN  n.doc \in Docs /\ n.doc.id = id
  <2>1. id \in Ids /\ docs[id] \in Docs /\ u \in Updates
    BY InputAssumption DEF StoreOK, DocsOK
  <2>2. ~UpdateFails(docs[id], u)
    BY DEF UpdateError
  <2>3. NormalizeReplace(id, ApplyUpdate(docs[id], u)).err = "ok"
    BY <2>2 DEF UpdateError, SetDocError
  <2> QED BY <2>1, <2>2, <2>3, ApplyUpdateType, NormalizeReplaceType
<1>2. ids \subseteq Ids
  BY DEF StoreOK, DocsOK
<1> QED BY <1>1, <1>2 DEF Updated, Installable

(* update_many, also when it stops at a document that fails.                *)
LEMMA UpdateManyKeepsStore ==
  ASSUME StoreOK, NEW matched \in SUBSET DOMAIN docs, NEW u \in UpdateInputs,
         UpdateMany(matched, u)
  PROVE  StoreOK'
<1>1. CASE UNCHANGED store
  BY <1>1, UnchangedKeepsStore
<1>2. ASSUME NEW done \in SUBSET matched, \A id \in done : UpdateError(id, u) = "ok",
             Write(done, Updated(done, u))
      PROVE  StoreOK'
  BY <1>2, UpdatedInstallable, WriteKeepsStore
<1> QED BY <1>1, <1>2 DEF UpdateMany, Fail

(* Documents are taken out, and nothing is put in.                          *)
LEMMA RemoveEachKeepsStore ==
  ASSUME StoreOK, NEW call, NEW ids \in SUBSET DOMAIN docs, RemoveEach(call, ids)
  PROVE  StoreOK'
<1> DEFINE new == Restrict(docs, {})
<1>1. DOMAIN new = {}
  BY DEF Restrict
<1>2. Installable(new) /\ DOMAIN new \cap DOMAIN docs \subseteq ids
  BY <1>1 DEF Installable, Restrict
<1>3. Write(ids, new)
  BY DEF RemoveEach
<1> HIDE DEF new
<1> QED BY <1>2, <1>3, WriteKeepsStore

(* delete_one and delete_many.                                              *)
LEMMA DeleteKeepsStore ==
  ASSUME StoreOK, NEW matched \in SUBSET DOMAIN docs,
         DeleteOne(matched) \/ DeleteMany(matched)
  PROVE  StoreOK'
BY RemoveEachKeepsStore DEF DeleteOne, DeleteMany

(* Creating and dropping indexes, and reindex.                              *)
LEMMA IndexCallKeepsStore ==
  ASSUME StoreOK, IndexCall
  PROVE  StoreOK'
<1>1. Installable(docs)
  BY DEF StoreOK, DocsOK, KeyIsId, Installable
<1>2. ASSUME NEW f \in Fields \cup {IdKey}, CreateIndex(f)
      PROVE  StoreOK'
  <2>1. CASE f = IdKey
    BY <1>2, <2>1, UnchangedKeepsStore DEF CreateIndex, store, layers
  <2>2. CASE f # IdKey
    <3>1. Entries(docs, f) \in SUBSET ((Values \cup Ids) \X Ids)
      BY <1>1, EntriesType DEF IndexedFields
    <3>2. indexes' = With(indexes, f, Entries(docs, f)) /\ docs' = docs
      BY <1>2, <2>2 DEF CreateIndex
    <3>3. IndexesOK'
      BY <3>1, <3>2 DEF With, StoreOK, IndexesOK, IndexLockstep, IndexedFields
    <3> QED BY <1>2, <3>3 DEF CreateIndex, StoreOK, DocsOK, KeyIsId, VectorsOK,
                              VectorLockstep, TextsOK, TextLockstep
  <2> QED BY <2>1, <2>2
<1>3. ASSUME NEW f \in Fields \cup {IdKey}, DropIndex(f)
      PROVE  StoreOK'
  <2>1. CASE UNCHANGED store
    BY <2>1, UnchangedKeepsStore
  <2>2. CASE /\ f # IdKey /\ indexes' = Without(indexes, f)
             /\ UNCHANGED <<docs, vector_indexes, text_indexes>>
    <3>1. IndexesOK'
      BY <2>2 DEF Without, Restrict, StoreOK, IndexesOK, IndexLockstep
    <3> QED BY <2>2, <3>1 DEF StoreOK, DocsOK, KeyIsId, VectorsOK, VectorLockstep,
                              TextsOK, TextLockstep
  <2> QED BY <1>3, <2>1, <2>2 DEF DropIndex, Fail
<1>4. ASSUME NEW f \in Fields, NEW d \in Dims, CreateVectorIndex(f, d)
      PROVE  StoreOK'
  <2> DEFINE ix == [dim |-> d, ids |-> VectorIds(docs, f, d)]
  <2>1. VectorIds(docs, f, d) \in SUBSET Ids
    BY <1>1, SubsetsType
  <2>2. ix \in VectorIndexes /\ ix.dim = d /\ ix.ids = VectorIds(docs, f, d)
    BY <2>1 DEF VectorIndexes
  <2>3. vector_indexes' = With(vector_indexes, f, ix)
    BY <1>4 DEF CreateVectorIndex
  <2>4. docs' = docs /\ indexes' = indexes /\ text_indexes' = text_indexes
    BY <1>4 DEF CreateVectorIndex
  <2> HIDE DEF ix
  <2>5. VectorsOK'
    BY <2>2, <2>3, <2>4 DEF With, StoreOK, VectorsOK, VectorLockstep
  <2> QED BY <2>4, <2>5 DEF StoreOK, DocsOK, KeyIsId, IndexesOK, IndexLockstep,
                            TextsOK, TextLockstep
<1>5. ASSUME NEW f \in Fields, DropVectorIndex(f)
      PROVE  StoreOK'
  <2>1. VectorsOK'
    BY <1>5 DEF DropVectorIndex, Without, Restrict, StoreOK, VectorsOK, VectorLockstep
  <2> QED BY <1>5, <2>1 DEF DropVectorIndex, StoreOK, DocsOK, KeyIsId, IndexesOK,
                            IndexLockstep, TextsOK, TextLockstep
<1>6. ASSUME NEW f \in Fields, CreateTextIndex(f)
      PROVE  StoreOK'
  <2>1. TextIds(docs, f) \in SUBSET Ids
    BY <1>1, SubsetsType
  <2>2. TextsOK'
    BY <1>6, <2>1 DEF CreateTextIndex, With, StoreOK, TextsOK, TextLockstep
  <2> QED BY <1>6, <2>2 DEF CreateTextIndex, StoreOK, DocsOK, KeyIsId, IndexesOK,
                            IndexLockstep, VectorsOK, VectorLockstep
<1>7. ASSUME NEW f \in Fields, DropTextIndex(f)
      PROVE  StoreOK'
  <2>1. TextsOK'
    BY <1>7 DEF DropTextIndex, Without, Restrict, StoreOK, TextsOK, TextLockstep
  <2> QED BY <1>7, <2>1 DEF DropTextIndex, StoreOK, DocsOK, KeyIsId, IndexesOK,
                            IndexLockstep, VectorsOK, VectorLockstep
<1>8. ASSUME Reindex
      PROVE  StoreOK'
  <2>1. \A f \in DOMAIN indexes : Entries(docs, f) = indexes[f]
    BY DEF StoreOK, IndexesOK, IndexLockstep
  <2>2. indexes' = indexes
    BY <1>8, <2>1 DEF Reindex, StoreOK, IndexesOK
  <2>3. \A f \in DOMAIN text_indexes : TextIds(docs, f) = text_indexes[f]
    BY DEF StoreOK, TextsOK, TextLockstep
  <2>4. text_indexes' = text_indexes
    BY <1>8, <2>3 DEF Reindex, StoreOK, TextsOK
  <2> QED BY <1>8, <2>2, <2>4, UnchangedKeepsStore DEF Reindex, store, layers
<1> QED BY <1>2, <1>3, <1>4, <1>5, <1>6, <1>7, <1>8 DEF IndexCall

-----------------------------------------------------------------------------
(* Inductiveness.                                                          *)

(* A new collection.                                                        *)
LEMMA InitEstablishesIInv == Init => IInv
BY IdAssumption DEF Init, IInv, StoreOK, DocsOK, KeyIsId, IndexesOK, IndexLockstep, Entries,
   VectorsOK, VectorLockstep, TextsOK, TextLockstep, IndexedFields

(* No call breaks the invariant.                                            *)
LEMMA NextKeepsIInv == IInv /\ [Next]_vars => IInv'
<1> SUFFICES ASSUME IInv, [Next]_vars
             PROVE  IInv'
  OBVIOUS
<1>1. StoreOK /\ ID_COUNTER \in 0..MaxId
  BY DEF IInv
<1>2. CASE DocumentCall
  <2>1. ASSUME NEW id \in Ids, NEW raw \in RawInputs, SetDoc(id, raw)
        PROVE  IInv'
    BY <1>1, <2>1, SetDocKeepsStore DEF SetDoc, IInv
  <2>2. ASSUME NEW id \in Ids, RemoveDoc(id)
        PROVE  IInv'
    BY <1>1, <2>2, RemoveEachKeepsStore DEF RemoveDoc, RemoveEach, IInv
  <2> QED BY <1>2, <2>1, <2>2, InsertKeepsIInv, InsertManyKeepsIInv DEF DocumentCall
<1>3. CASE FilterCall
  <2> SUFFICES ASSUME NEW matched \in SUBSET DOMAIN docs,
                      \/ \E raw \in RawInputs : ReplaceOne(matched, raw)
                      \/ \E u \in UpdateInputs :
                           UpdateOne(matched, u) \/ UpdateMany(matched, u)
                      \/ DeleteOne(matched)
                      \/ DeleteMany(matched)
               PROVE  IInv'
    BY <1>3 DEF FilterCall
  <2>1. CASE \E raw \in RawInputs : ReplaceOne(matched, raw)
    BY <1>1, <2>1, ReplaceOneKeepsStore DEF ReplaceOne, IInv
  <2>2. CASE \E u \in UpdateInputs : UpdateOne(matched, u)
    BY <1>1, <2>2, UpdateOneKeepsStore DEF UpdateOne, IInv
  <2>3. CASE \E u \in UpdateInputs : UpdateMany(matched, u)
    BY <1>1, <2>3, UpdateManyKeepsStore DEF UpdateMany, IInv
  <2>4. CASE DeleteOne(matched) \/ DeleteMany(matched)
    BY <1>1, <2>4, DeleteKeepsStore DEF DeleteOne, DeleteMany, RemoveEach, IInv
  <2> QED BY <2>1, <2>2, <2>3, <2>4
<1>4. CASE IndexCall
  <2>1. UNCHANGED ID_COUNTER
    BY <1>4 DEF IndexCall, CreateIndex, DropIndex, CreateVectorIndex, DropVectorIndex,
                CreateTextIndex, DropTextIndex, Reindex
  <2> QED BY <1>1, <1>4, <2>1, IndexCallKeepsStore DEF IInv
<1>5. CASE NextIdElsewhere
  <2>1. ID_COUNTER' \in 0..MaxId
    BY <1>1, <1>5, IdAssumption DEF NextIdElsewhere
  <2> QED BY <1>1, <1>5, <2>1, UnchangedKeepsStore DEF NextIdElsewhere, IInv
<1>6. CASE UNCHANGED vars
  BY <1>1, <1>6, UnchangedKeepsStore DEF vars, store, layers, IInv
<1> QED BY <1>2, <1>3, <1>4, <1>5, <1>6 DEF Next

(* The invariant holds.                                                    *)
LEMMA AlwaysIInv == Spec => []IInv
BY InitEstablishesIInv, NextKeepsIInv, PTL DEF Spec

-----------------------------------------------------------------------------
(* The theorems.                                                           *)

(* The state of a collection is always well typed: every stored document   *)
(* is an object with a string `_id`, every entry of every index points at  *)
(* an identifier, the primary index exists.                                *)
THEOREM TypeCorrect == Spec => []TypeOK
<1>1. IInv => TypeOK
  BY DEF IInv, StoreOK, DocsOK, IndexesOK, VectorsOK, TextsOK, TypeOK
<1> QED BY <1>1, AlwaysIInv, PTL

(* No call stores a document under another document's identifier           *)
(* (normalize_replace, apply_update).                                      *)
THEOREM KeysAreIds == Spec => []KeyIsId
<1>1. IInv => KeyIsId
  BY DEF IInv, StoreOK, DocsOK
<1> QED BY <1>1, AlwaysIInv, PTL

(* Field, vector and text indexes agree with the documents after any       *)
(* history of calls, failed and half-applied ones included (index_doc,     *)
(* deindex_doc and their vector and text counterparts).                    *)
THEOREM LayersInLockstep == Spec => []Lockstep
<1>1. IInv => Lockstep
  BY DEF IInv, StoreOK, IndexesOK, VectorsOK, TextsOK, Lockstep
<1> QED BY <1>1, AlwaysIInv, PTL

-----------------------------------------------------------------------------
(* What a failed call leaves behind, and what a write may store.           *)

(* An error reply of any call but update_many, which stops half-way, comes *)
(* with an untouched collection: each call checks before it writes.        *)
THEOREM FailuresChangeNothing == Spec => FailedCallChangesNothing
<1>1. [Next]_vars => [reply'.err # "ok" /\ reply'.call # "update_many" => UNCHANGED store]_vars
  <2> SUFFICES ASSUME Next, reply'.err # "ok", reply'.call # "update_many"
               PROVE  UNCHANGED store
    BY DEF vars, store, layers
  <2>1. ASSUME NEW call, NEW n, Reply(call, "ok", n) PROVE FALSE
    BY <2>1 DEF Reply
  <2>2. ASSUME NEW e, NEW n, Reply("update_many", e, n) PROVE FALSE
    BY <2>2 DEF Reply
  <2>3. ASSUME NEW call, NEW id, NEW raw, SetStored(call, id, raw) PROVE UNCHANGED store
    BY <2>1, <2>3 DEF SetStored, Fail
  <2>4. ASSUME NEW call, NEW ids, RemoveEach(call, ids) PROVE FALSE
    BY <2>1, <2>4 DEF RemoveEach
  <2>5. CASE DocumentCall
    <3>1. ASSUME NEW raw \in RawInputs, Insert(raw) PROVE UNCHANGED store
      BY <2>1, <3>1, Zenon DEF Insert, Fail
    <3>2. ASSUME NEW raws \in Batches, InsertMany(raws) PROVE UNCHANGED store
      BY <2>1, <3>2, Zenon DEF InsertMany, Fail
    <3>3. ASSUME NEW id \in Ids, NEW raw \in RawInputs, SetDoc(id, raw) PROVE UNCHANGED store
      BY <2>3, <3>3, Zenon DEF SetDoc
    <3>4. ASSUME NEW id \in Ids, RemoveDoc(id) PROVE UNCHANGED store
      BY <2>4, <3>4 DEF RemoveDoc
    <3> QED BY <2>5, <3>1, <3>2, <3>3, <3>4, Zenon DEF DocumentCall
  <2>6. CASE FilterCall
    <3> SUFFICES ASSUME NEW matched \in SUBSET DOMAIN docs,
                        \/ \E raw \in RawInputs : ReplaceOne(matched, raw)
                        \/ \E u \in UpdateInputs :
                             UpdateOne(matched, u) \/ UpdateMany(matched, u)
                        \/ DeleteOne(matched)
                        \/ DeleteMany(matched)
                 PROVE  UNCHANGED store
      BY <2>6, Zenon DEF FilterCall
    <3>1. ASSUME NEW raw \in RawInputs, ReplaceOne(matched, raw) PROVE UNCHANGED store
      BY <2>3, <3>1, Zenon DEF ReplaceOne, Fail
    <3>2. ASSUME NEW u \in UpdateInputs, UpdateOne(matched, u) PROVE UNCHANGED store
      BY <2>3, <3>2, Zenon DEF UpdateOne, Fail
    <3>3. ASSUME NEW u \in UpdateInputs, UpdateMany(matched, u) PROVE UNCHANGED store
      BY <2>1, <2>2, <3>3, Zenon DEF UpdateMany, Fail
    <3>4. CASE DeleteOne(matched) \/ DeleteMany(matched)
      BY <2>4, <3>4, Zenon DEF DeleteOne, DeleteMany
    <3> QED BY <3>1, <3>2, <3>3, <3>4, Zenon
  <2>7. CASE IndexCall
    BY <2>1, <2>7, Zenon DEF IndexCall, CreateIndex, DropIndex, Fail, CreateVectorIndex,
       DropVectorIndex, CreateTextIndex, DropTextIndex, Reindex
  <2>8. CASE NextIdElsewhere
    BY <2>8 DEF NextIdElsewhere
  <2> QED BY <2>5, <2>6, <2>7, <2>8 DEF Next
<1> QED BY <1>1, PTL DEF Spec, FailedCallChangesNothing

(* The step of WritesRespectVectors.                                       *)
VectorsRespected ==
  \A f \in DOMAIN vector_indexes, id \in DOMAIN docs' :
    (id \notin DOMAIN docs \/ docs'[id] # docs[id])
      => \/ docs'[id].body[f] = Missing
         \/ IsVector(docs'[id].body[f], vector_indexes[f].dim)

(* A write whose documents passed check_vectors respects the indexes.      *)
LEMMA CheckedWrite ==
  ASSUME NEW gone, NEW new, Write(gone, new), \A id \in DOMAIN new : ~BadVector(new[id])
  PROVE  VectorsRespected
<1>1. ASSUME NEW f \in DOMAIN vector_indexes, NEW id \in DOMAIN docs',
             id \notin DOMAIN docs \/ docs'[id] # docs[id]
      PROVE  \/ docs'[id].body[f] = Missing
             \/ IsVector(docs'[id].body[f], vector_indexes[f].dim)
  <2>1. id \in DOMAIN new /\ docs'[id] = new[id]
    BY <1>1 DEF Write, DocsAfter
  <2> QED BY <2>1 DEF BadVector
<1> QED BY <1>1 DEF VectorsRespected

(* Replacing a stored document checks it.                                  *)
LEMMA SetStoredRespects ==
  ASSUME NEW call, NEW id, NEW raw, SetStored(call, id, raw)
  PROVE  VectorsRespected
<1>1. CASE UNCHANGED docs
  BY <1>1 DEF VectorsRespected
<1>2. CASE /\ SetDocError(id, raw) = "ok"
           /\ Write({id}, [i \in {id} |-> NormalizeReplace(id, raw).doc])
  <2>1. ~BadVector(NormalizeReplace(id, raw).doc)
    BY <1>2 DEF SetDocError
  <2> DEFINE new == [i \in {id} |-> NormalizeReplace(id, raw).doc]
  <2>2. \A i \in DOMAIN new : ~BadVector(new[i])
    BY <2>1
  <2>3. Write({id}, new)
    BY <1>2
  <2> HIDE DEF new
  <2> QED BY <2>2, <2>3, CheckedWrite
<1> QED BY <1>1, <1>2 DEF SetStored, Fail, store

(* Every call that stores a document checks it first (check_vectors), also *)
(* in a batch and in an update that stops half-way.                        *)
LEMMA NextRespectsVectors == IInv /\ Next => VectorsRespected
<1> SUFFICES ASSUME IInv, Next PROVE VectorsRespected
  OBVIOUS
<1>1. CASE UNCHANGED docs
  BY <1>1 DEF VectorsRespected
<1>2. ASSUME NEW raw \in RawInputs, Insert(raw) PROVE VectorsRespected
  <2> DEFINE n == NormalizeDoc(raw, ID_COUNTER + 1)
             new == [id \in {n.doc.id} |-> n.doc]
  <2>1. CASE InsertError(n, DOMAIN docs) = "ok" /\ Write({}, new)
    <3>1. \A id \in DOMAIN new : ~BadVector(new[id])
      BY <2>1 DEF InsertError
    <3>2. Write({}, new)
      BY <2>1
    <3> HIDE DEF new
    <3> QED BY <3>1, <3>2, CheckedWrite
  <2> QED BY <1>1, <1>2, <2>1 DEF Insert, Fail, store
<1>3. ASSUME NEW raws \in Batches, InsertMany(raws) PROVE VectorsRespected
  <2>1. CASE StagedUpTo(raws, Len(raws), DOMAIN docs) /\ Write({}, StagedDocs(raws))
    <3>1. DOMAIN raws = 1..Len(raws)
      BY BatchType
    <3>2. \A i \in DOMAIN raws : ~BadVector(Staged(raws, i).doc)
      BY <2>1, <3>1 DEF StagedUpTo, StagedError, InsertError
    <3>3. \A id \in DOMAIN StagedDocs(raws) :
            \E i \in DOMAIN raws : StagedDocs(raws)[id] = Staged(raws, i).doc
      BY DEF StagedDocs
    <3> QED BY <2>1, <3>2, <3>3, CheckedWrite
  <2> QED BY <1>1, <1>3, <2>1 DEF InsertMany, Fail, store
<1>4. ASSUME NEW done \in SUBSET DOMAIN docs, NEW u \in UpdateInputs,
             \A id \in done : UpdateError(id, u) = "ok", Write(done, Updated(done, u))
      PROVE  VectorsRespected
  <2>1. \A id \in DOMAIN Updated(done, u) : ~BadVector(Updated(done, u)[id])
    BY <1>4 DEF UpdateError, SetDocError, Updated
  <2> QED BY <1>4, <2>1, CheckedWrite
<1>5. ASSUME NEW call, NEW ids, RemoveEach(call, ids) PROVE VectorsRespected
  <2>1. DOMAIN Restrict(docs, {}) = {}
    BY DEF Restrict
  <2> QED BY <1>5, <2>1, CheckedWrite DEF RemoveEach
<1>6. CASE DocumentCall
  BY <1>1, <1>2, <1>3, <1>5, <1>6, SetStoredRespects DEF DocumentCall, SetDoc, RemoveDoc, store
<1>7. CASE FilterCall
  <2> SUFFICES ASSUME NEW matched \in SUBSET DOMAIN docs,
                      \/ \E raw \in RawInputs : ReplaceOne(matched, raw)
                      \/ \E u \in UpdateInputs : UpdateOne(matched, u) \/ UpdateMany(matched, u)
                      \/ DeleteOne(matched)
                      \/ DeleteMany(matched)
               PROVE  VectorsRespected
    BY <1>7 DEF FilterCall
  <2>1. ASSUME NEW raw \in RawInputs, ReplaceOne(matched, raw) PROVE VectorsRespected
    BY <1>1, <2>1, SetStoredRespects DEF ReplaceOne, Fail, store
  <2>2. ASSUME NEW u \in UpdateInputs, UpdateOne(matched, u) PROVE VectorsRespected
    BY <1>1, <2>2, SetStoredRespects DEF UpdateOne, Fail, store
  <2>3. ASSUME NEW u \in UpdateInputs, UpdateMany(matched, u) PROVE VectorsRespected
    BY <1>1, <1>4, <2>3 DEF UpdateMany, Fail, store
  <2>4. CASE DeleteOne(matched) \/ DeleteMany(matched)
    BY <1>5, <2>4 DEF DeleteOne, DeleteMany
  <2> QED BY <2>1, <2>2, <2>3, <2>4
<1>8. CASE IndexCall
  BY <1>1, <1>8 DEF IndexCall, CreateIndex, DropIndex, Fail, store, CreateVectorIndex,
     DropVectorIndex, CreateTextIndex, DropTextIndex, Reindex
<1> QED BY <1>1, <1>6, <1>7, <1>8 DEF Next, NextIdElsewhere, store

(* No write gets a value of the wrong shape under a vector index, by any   *)
(* of the engine's write paths.                                            *)
THEOREM VectorsGuarded == Spec => WritesRespectVectors
<1>1. IInv /\ [Next]_vars => [VectorsRespected]_vars
  BY NextRespectsVectors
<1>2. [][VectorsRespected]_vars => WritesRespectVectors
  BY PTL DEF VectorsRespected, WritesRespectVectors
<1> QED BY <1>1, <1>2, AlwaysIInv, PTL DEF Spec

-----------------------------------------------------------------------------
(* The invariant of a batch.                                               *)

(* A buffer o whose op i is on identifier s[i], each identifier once.      *)
WellFormed(o, s) ==
  /\ o \in Seq(BatchOps) /\ s \in Seq(Ids) /\ Len(s) = Len(o)
  /\ \A i \in 1..Len(o) : /\ o[i].id = s[i]
                          /\ o[i].doc = Deleted \/ o[i].doc.id = s[i]
  /\ \A i, j \in 1..Len(o) : s[i] = s[j] => i = j

PhasesOK ==
  /\ phase \in {"idle", "open", "committing"}
  /\ err \in Errors \cup {"ok"}
  /\ pos \in Nat \ {0}
  /\ phase = "idle" => ops = <<>> /\ seen = <<>> /\ err = "ok"
  /\ phase # "committing" => pos = 1
  /\ phase = "open" => snapshot = docs
  /\ phase = "committing" => err = "ok" /\ pos <= Len(ops) + 1

(* The identifiers of the ops before position k, and those among them that *)
(* are not deletes.                                                        *)
IdsBefore(k) == {ops[i].id : i \in 1..(k - 1)}
PutsBefore(k) == {ops[i].id : i \in {j \in 1..(k - 1) : ops[j].doc # Deleted}}

Replayed ==
  phase = "committing" =>
    /\ DOMAIN docs = (DOMAIN snapshot \ IdsBefore(pos)) \cup PutsBefore(pos)
    /\ \A id \in DOMAIN snapshot \ IdsBefore(pos) : docs[id] = snapshot[id]
    /\ \A i \in 1..(pos - 1) : ops[i].doc # Deleted => docs[ops[i].id] = ops[i].doc

TxInv ==
  /\ IInv /\ IsFiniteSet(DOMAIN docs)
  /\ WellFormed(ops, seen) /\ PhasesOK /\ Replayed

-----------------------------------------------------------------------------
(* The document map stays finite: Put numbers the documents it stages.     *)

(* A function has no more values than arguments.                           *)
LEMMA RangeIsFinite ==
  ASSUME NEW S, IsFiniteSet(S), NEW T, NEW f \in [S -> T]
  PROVE  IsFiniteSet({f[x] : x \in S})
<1> DEFINE R == {f[x] : x \in S}
<1>1. f \in Surjection(S, R)
  BY DEF Surjection
<1> HIDE DEF R
<1>2. IsFiniteSet(R)
  BY <1>1, FS_Surjection
<1> QED BY <1>2 DEF R

(* A write of finitely many documents.                                     *)
LEMMA WriteKeepsFinite ==
  ASSUME IsFiniteSet(DOMAIN docs), NEW gone, NEW new, IsFiniteSet(DOMAIN new),
         Write(gone, new)
  PROVE  IsFiniteSet(DOMAIN docs')
<1>1. DOMAIN docs' = (DOMAIN docs \ gone) \cup DOMAIN new
  BY DEF Write, DocsAfter
<1>2. IsFiniteSet(DOMAIN docs \ gone)
  BY FS_Subset
<1> QED BY <1>1, <1>2, FS_Union

(* A batch is a sequence of incoming documents.                            *)
LEMMA BatchesAreSequences ==
  ASSUME NEW raws \in Batches
  PROVE  raws \in Seq(RawInputs)
<1>1. PICK n \in 0..MaxBatch : raws \in [1..n -> RawInputs]
  BY DEF Batches
<1>2. n \in Nat
  BY InputAssumption
<1> DEFINE e(i) == raws[i]
<1>3. \A i \in 1..n : e(i) \in RawInputs
  BY <1>1
<1> HIDE DEF e
<1>4. [i \in 1..n |-> e(i)] \in Seq(RawInputs)
  BY <1>2, <1>3, IsASeq
<1> QED BY <1>1, <1>4 DEF e

(* Replacing a stored document.                                            *)
LEMMA SetStoredKeepsFinite ==
  ASSUME IsFiniteSet(DOMAIN docs), NEW call, NEW id, NEW raw, SetStored(call, id, raw)
  PROVE  IsFiniteSet(DOMAIN docs')
<1> DEFINE new == [i \in {id} |-> NormalizeReplace(id, raw).doc]
<1>1. CASE UNCHANGED docs
  BY <1>1
<1>2. CASE Write({id}, new)
  <2>1. IsFiniteSet(DOMAIN new)
    BY FS_Singleton
  <2> HIDE DEF new
  <2> QED BY <1>2, <2>1, WriteKeepsFinite
<1> QED BY <1>1, <1>2 DEF SetStored, Fail, store

(* Every call on the collection.                                           *)
LEMMA NextKeepsFinite == IsFiniteSet(DOMAIN docs) /\ [Next]_vars => IsFiniteSet(DOMAIN docs')
<1> SUFFICES ASSUME IsFiniteSet(DOMAIN docs), [Next]_vars PROVE IsFiniteSet(DOMAIN docs')
  OBVIOUS
<1>1. CASE UNCHANGED docs
  BY <1>1
<1>2. ASSUME NEW raw \in RawInputs, Insert(raw) PROVE IsFiniteSet(DOMAIN docs')
  <2> DEFINE n == NormalizeDoc(raw, ID_COUNTER + 1)
             new == [id \in {n.doc.id} |-> n.doc]
  <2>1. IsFiniteSet(DOMAIN new)
    BY FS_Singleton
  <2>2. UNCHANGED docs \/ Write({}, new)
    BY <1>2 DEF Insert, Fail, store
  <2> HIDE DEF new
  <2> QED BY <1>1, <2>1, <2>2, WriteKeepsFinite
<1>3. ASSUME NEW raws \in Batches, InsertMany(raws) PROVE IsFiniteSet(DOMAIN docs')
  <2>1. Len(raws) \in Nat /\ DOMAIN raws = 1..Len(raws)
    BY BatchType
  <2> DEFINE id(i) == Staged(raws, i).doc.id
             f == [i \in 1..Len(raws) |-> id(i)]
             T == {id(i) : i \in 1..Len(raws)}
  <2>2. DOMAIN StagedDocs(raws) = {f[i] : i \in 1..Len(raws)}
    BY <2>1 DEF StagedDocs
  <2>3. f \in [1..Len(raws) -> T]
    OBVIOUS
  <2>4. IsFiniteSet(1..Len(raws))
    BY <2>1, FS_Interval
  <2> HIDE DEF f, id, T
  <2>5. IsFiniteSet(DOMAIN StagedDocs(raws))
    <3>1. IsFiniteSet({f[i] : i \in 1..Len(raws)})
      BY <2>3, <2>4, RangeIsFinite
    <3> QED BY <2>2, <3>1
  <2>6. UNCHANGED docs \/ Write({}, StagedDocs(raws))
    BY <1>3 DEF InsertMany, Fail, store
  <2> QED BY <1>1, <2>5, <2>6, WriteKeepsFinite
<1>4. ASSUME NEW call, NEW ids, RemoveEach(call, ids) PROVE IsFiniteSet(DOMAIN docs')
  <2>1. DOMAIN Restrict(docs, {}) = {}
    BY DEF Restrict
  <2> QED BY <1>4, <2>1, FS_EmptySet, WriteKeepsFinite DEF RemoveEach
<1>5. ASSUME NEW done \in SUBSET DOMAIN docs, NEW u, Write(done, Updated(done, u))
      PROVE  IsFiniteSet(DOMAIN docs')
  <2>1. IsFiniteSet(DOMAIN Updated(done, u))
    BY FS_Subset DEF Updated
  <2> QED BY <1>5, <2>1, WriteKeepsFinite
<1>6. CASE DocumentCall
  BY <1>1, <1>2, <1>3, <1>4, <1>6, SetStoredKeepsFinite
     DEF DocumentCall, SetDoc, RemoveDoc, store
<1>7. CASE FilterCall
  <2> SUFFICES ASSUME NEW matched \in SUBSET DOMAIN docs,
                      \/ \E raw \in RawInputs : ReplaceOne(matched, raw)
                      \/ \E u \in UpdateInputs : UpdateOne(matched, u) \/ UpdateMany(matched, u)
                      \/ DeleteOne(matched)
                      \/ DeleteMany(matched)
               PROVE  IsFiniteSet(DOMAIN docs')
    BY <1>7 DEF FilterCall
  <2>1. ASSUME NEW raw \in RawInputs, ReplaceOne(matched, raw) PROVE IsFiniteSet(DOMAIN docs')
    BY <1>1, <2>1, SetStoredKeepsFinite DEF ReplaceOne, Fail, store
  <2>2. ASSUME NEW u \in UpdateInputs, UpdateOne(matched, u) PROVE IsFiniteSet(DOMAIN docs')
    BY <1>1, <2>2, SetStoredKeepsFinite DEF UpdateOne, Fail, store
  <2>3. ASSUME NEW u \in UpdateInputs, UpdateMany(matched, u) PROVE IsFiniteSet(DOMAIN docs')
    BY <1>1, <1>5, <2>3 DEF UpdateMany, Fail, store
  <2>4. CASE DeleteOne(matched) \/ DeleteMany(matched)
    BY <1>4, <2>4 DEF DeleteOne, DeleteMany
  <2> QED BY <2>1, <2>2, <2>3, <2>4
<1>8. CASE IndexCall
  BY <1>1, <1>8 DEF IndexCall, CreateIndex, DropIndex, Fail, store, CreateVectorIndex,
     DropVectorIndex, CreateTextIndex, DropTextIndex, Reindex
<1> QED BY <1>1, <1>6, <1>7, <1>8 DEF Next, NextIdElsewhere, store, vars

-----------------------------------------------------------------------------
(* The buffer.                                                             *)

(* Concatenation with a sequence given as a function.                      *)
LEMMA Concatenation ==
  ASSUME NEW S, NEW s \in Seq(S), NEW n \in Nat, NEW x \in [1..n -> S]
  PROVE  /\ s \o x \in Seq(S) /\ Len(s \o x) = Len(s) + n
         /\ \A i \in 1..Len(s) : (s \o x)[i] = s[i]
         /\ \A i \in 1..n : (s \o x)[Len(s) + i] = x[i]
<1>1. x \in Seq(S) /\ Len(x) = n
  <2> DEFINE e(i) == x[i]
  <2>1. \A i \in 1..n : e(i) \in S
    OBVIOUS
  <2> HIDE DEF e
  <2>2. [i \in 1..n |-> e(i)] \in Seq(S)
    BY <2>1, IsASeq
  <2>3. x \in Seq(S)
    BY <2>2 DEF e
  <2> QED BY <2>3, LenProperties
<1>2. Len(s) \in Nat
  BY LenProperties
<1>3. /\ s \o x \in Seq(S) /\ Len(s \o x) = Len(s) + Len(x)
      /\ \A i \in 1..(Len(s) + Len(x)) :
           (s \o x)[i] = IF i <= Len(s) THEN s[i] ELSE x[i - Len(s)]
  BY <1>1, ConcatProperties
<1> QED BY <1>1, <1>2, <1>3

(* Appending ops on identifiers that are not staged yet.                   *)
LEMMA GrowBuffer ==
  ASSUME NEW o, NEW s, WellFormed(o, s),
         NEW n \in Nat, NEW x \in [1..n -> BatchOps], NEW y \in [1..n -> Ids],
         \A i \in 1..n : x[i].id = y[i] /\ (x[i].doc = Deleted \/ x[i].doc.id = y[i]),
         \A i, j \in 1..n : y[i] = y[j] => i = j,
         \A i \in 1..n, j \in 1..Len(s) : y[i] # s[j]
  PROVE  WellFormed(o \o x, s \o y)
<1>1. /\ o \in Seq(BatchOps) /\ s \in Seq(Ids) /\ Len(o) \in Nat /\ Len(s) = Len(o)
  BY LenProperties DEF WellFormed
<1>2. /\ o \o x \in Seq(BatchOps) /\ Len(o \o x) = Len(o) + n
      /\ \A i \in 1..Len(o) : (o \o x)[i] = o[i]
      /\ \A i \in 1..n : (o \o x)[Len(o) + i] = x[i]
  BY <1>1, Concatenation
<1>3. /\ s \o y \in Seq(Ids) /\ Len(s \o y) = Len(o) + n
      /\ \A i \in 1..Len(o) : (s \o y)[i] = s[i]
      /\ \A i \in 1..n : (s \o y)[Len(o) + i] = y[i]
  BY <1>1, Concatenation, SMTT(60)
<1>4. \A i \in 1..(Len(o) + n) : i \in 1..Len(o) \/ (i - Len(o) \in 1..n /\ i = Len(o) + (i - Len(o)))
  BY <1>1
<1> DEFINE ox == o \o x
           sy == s \o y
<1>5. \A i \in 1..Len(ox) : /\ ox[i].id = sy[i]
                            /\ ox[i].doc = Deleted \/ ox[i].doc.id = sy[i]
  <2> TAKE i \in 1..Len(ox)
  <2>1. CASE i \in 1..Len(o)
    <3>1. ox[i] = o[i] /\ sy[i] = s[i]
      BY <1>2, <1>3, <2>1
    <3> QED BY <2>1, <3>1 DEF WellFormed
  <2>2. CASE i - Len(o) \in 1..n /\ i = Len(o) + (i - Len(o))
    <3>1. ox[i] = x[i - Len(o)] /\ sy[i] = y[i - Len(o)]
      BY <1>2, <1>3, <2>2
    <3> QED BY <2>2, <3>1
  <2> QED BY <1>2, <1>4, <2>1, <2>2
<1>6. ASSUME NEW i \in 1..Len(ox), NEW j \in 1..Len(ox), sy[i] = sy[j] PROVE i = j
  <2>1. CASE i \in 1..Len(o) /\ j \in 1..Len(o)
    BY <1>3, <1>6, <2>1 DEF WellFormed
  <2>2. CASE i \in 1..Len(o) /\ j - Len(o) \in 1..n
    BY <1>1, <1>3, <1>6, <2>2
  <2>3. CASE i - Len(o) \in 1..n /\ j \in 1..Len(o)
    BY <1>1, <1>3, <1>6, <2>3
  <2>4. CASE i - Len(o) \in 1..n /\ j - Len(o) \in 1..n
    <3>1. sy[i] = y[i - Len(o)] /\ sy[j] = y[j - Len(o)]
      BY <1>1, <1>2, <1>3, <2>4
    <3>2. i - Len(o) = j - Len(o)
      BY <1>6, <2>4, <3>1
    <3> QED BY <1>1, <1>2, <3>2
  <2> QED BY <1>2, <1>4, <2>1, <2>2, <2>3, <2>4
<1> HIDE DEF ox, sy
<1>7. ox \in Seq(BatchOps) /\ sy \in Seq(Ids) /\ Len(sy) = Len(ox)
  <2>1. ox = o \o x /\ sy = s \o y
    BY DEF ox, sy
  <2> QED BY <1>2, <1>3, <2>1
<1>8. WellFormed(ox, sy)
  BY <1>5, <1>6, <1>7 DEF WellFormed
<1> QED BY <1>8 DEF ox, sy

(* What a staged call may add to the buffer: it keeps every identifier.    *)
Grown ==
  /\ WellFormed(ops', seen')
  /\ \A i \in 1..Len(ops) : \E j \in 1..Len(ops') : ops'[j].id = ops[i].id

(* Staging documents under their identifiers, or deletes (put).            *)
LEMMA PutGrows ==
  ASSUME WellFormed(ops, seen), NEW new, IsFiniteSet(DOMAIN new),
         DOMAIN new \subseteq Ids,
         \A id \in DOMAIN new : \/ new[id] = Deleted
                                \/ new[id] \in Docs /\ new[id].id = id,
         Put(new)
  PROVE  Grown
<1> DEFINE S == DOMAIN new \ ToSet(seen)
           n == Cardinality(S)
           o == [i \in DOMAIN ops |-> IF seen[i] \in DOMAIN new
                                      THEN [id |-> seen[i], doc |-> new[seen[i]]] ELSE ops[i]]
<1>1. n \in Nat
  BY FS_Subset, FS_CardinalityType
<1>2. PICK order \in SetToSeqs(S) :
        /\ ops' = o \o [i \in DOMAIN order |-> [id |-> order[i], doc |-> new[order[i]]]]
        /\ seen' = seen \o order
  BY DEF Put
<1>3. order \in [1..n -> S] /\ \A i, j \in 1..n : order[i] = order[j] => i = j
  BY DEF SetToSeqs
<1>4. /\ ops \in Seq(BatchOps) /\ seen \in Seq(Ids)
      /\ Len(ops) \in Nat /\ Len(seen) = Len(ops)
      /\ DOMAIN ops = 1..Len(ops) /\ DOMAIN seen = 1..Len(ops)
  BY LenProperties DEF WellFormed
<1> DEFINE x == [i \in 1..n |-> [id |-> order[i], doc |-> new[order[i]]]]
<1>5. ASSUME NEW id \in DOMAIN new PROVE [id |-> id, doc |-> new[id]] \in BatchOps
  BY <1>5 DEF BatchOps
<1>6. WellFormed(o, seen) /\ Len(o) = Len(ops) /\ \A i \in 1..Len(ops) : o[i].id = ops[i].id
  <2> DEFINE e(i) == IF seen[i] \in DOMAIN new
                     THEN [id |-> seen[i], doc |-> new[seen[i]]] ELSE ops[i]
  <2>1. \A i \in 1..Len(ops) : seen[i] \in Ids /\ ops[i] \in BatchOps
    BY <1>4
  <2>2. ASSUME NEW i \in 1..Len(ops)
        PROVE  /\ e(i) \in BatchOps /\ e(i).id = seen[i]
               /\ e(i).doc = Deleted \/ e(i).doc.id = seen[i]
    <3>1. CASE seen[i] \in DOMAIN new
      BY <1>5, <3>1
    <3>2. CASE seen[i] \notin DOMAIN new
      BY <2>1, <3>2 DEF WellFormed
    <3> QED BY <3>1, <3>2
  <2> HIDE DEF e
  <2>3. [i \in 1..Len(ops) |-> e(i)] \in Seq(BatchOps)
    BY <1>4, <2>2, IsASeq
  <2>4. o = [i \in 1..Len(ops) |-> e(i)]
    BY <1>4 DEF e
  <2>5. o \in Seq(BatchOps) /\ Len(o) = Len(ops) /\ \A i \in 1..Len(ops) : o[i] = e(i)
    BY <1>4, <2>3, <2>4, LenProperties
  <2> HIDE DEF o
  <2> QED BY <1>4, <2>2, <2>5 DEF WellFormed
<1>7. ops' = o \o x /\ seen' = seen \o order
  BY <1>2, <1>3
<1>8. x \in [1..n -> BatchOps] /\ order \in [1..n -> Ids]
  BY <1>3, <1>5
<1>9. \A i \in 1..n : /\ x[i].id = order[i]
                      /\ x[i].doc = Deleted \/ x[i].doc.id = order[i]
  BY <1>3
<1>10. \A i \in 1..n, j \in 1..Len(seen) : order[i] # seen[j]
  BY <1>3, <1>4 DEF ToSet
<1> HIDE DEF o, x, n, S
<1>11. /\ WellFormed(ops', seen') /\ Len(ops') = Len(o) + n
       /\ \A i \in 1..Len(o) : ops'[i] = o[i]
  <2>1. WellFormed(o \o x, seen \o order)
    BY <1>1, <1>3, <1>6, <1>8, <1>9, <1>10, GrowBuffer
  <2>2. o \in Seq(BatchOps)
    BY <1>6 DEF WellFormed
  <2>3. Len(o \o x) = Len(o) + n /\ \A i \in 1..Len(o) : (o \o x)[i] = o[i]
    BY <1>1, <1>8, <2>2, Concatenation, SMTT(60)
  <2> QED BY <1>7, <2>1, <2>3
<1>12. \A i \in 1..Len(ops) : i \in 1..Len(ops') /\ ops'[i].id = ops[i].id
  BY <1>1, <1>4, <1>6, <1>11
<1> QED BY <1>11, <1>12 DEF Grown

-----------------------------------------------------------------------------
(* Staged calls.                                                           *)

(* A staged insert appends the documents that passed validation, under     *)
(* identifiers that are neither stored nor staged, and keeps the generator *)
(* in its bound.                                                           *)
LEMMA InsertStages ==
  ASSUME TxInv, NEW call, NEW raws \in Seq(RawInputs), TxInsertMany(call, raws)
  PROVE  Grown /\ ID_COUNTER' \in 0..MaxId
<1> DEFINE taken == DOMAIN docs \cup ToSet(seen)
           doc(i) == Staged(raws, i).doc
           Stage(k) == /\ ops' = ops \o [i \in 1..k |-> [id |-> doc(i).id, doc |-> doc(i)]]
                       /\ seen' = seen \o [i \in 1..k |-> doc(i).id]
<1>1. /\ Len(raws) \in Nat /\ DOMAIN raws = 1..Len(raws)
      /\ \A i \in 1..Len(raws) : raws[i] \in RawDocs
  BY LenProperties, InputAssumption
<1>2. /\ ID_COUNTER + DrawnBy(raws, Len(raws)) <= MaxId
      /\ ID_COUNTER \in 0..MaxId /\ MaxId \in Nat
  BY IdAssumption DEF TxInsertMany, TxInv, IInv
<1>3. PICK k \in 0..Len(raws) :
        /\ StagedUpTo(raws, k, taken) /\ Stage(k)
        /\ ID_COUNTER' = ID_COUNTER + DrawnBy(raws, Len(raws))
             \/ \E i \in 1..Len(raws) : ID_COUNTER' = ID_COUNTER + DrawnBy(raws, i)
  <2>1. CASE \E i \in DOMAIN raws : /\ StagedUpTo(raws, i - 1, taken) /\ Stage(i - 1)
                                    /\ ID_COUNTER' = ID_COUNTER + DrawnBy(raws, i)
    <3>1. PICK i \in 1..Len(raws) : /\ StagedUpTo(raws, i - 1, taken) /\ Stage(i - 1)
                                    /\ ID_COUNTER' = ID_COUNTER + DrawnBy(raws, i)
      BY <1>1, <2>1
    <3>2. i - 1 \in 0..Len(raws)
      BY <1>1
    <3> HIDE DEF Stage, taken
    <3> QED BY <3>1, <3>2
  <2>2. CASE /\ StagedUpTo(raws, Len(raws), taken) /\ Stage(Len(raws))
             /\ ID_COUNTER' = ID_COUNTER + DrawnBy(raws, Len(raws))
    <3>1. Len(raws) \in 0..Len(raws)
      BY <1>1
    <3> HIDE DEF Stage, taken
    <3> QED BY <2>2, <3>1
  <2> QED BY <2>1, <2>2 DEF TxInsertMany
<1>4. k \in Nat /\ 1..k \subseteq 1..Len(raws)
  BY <1>1
<1>5. ID_COUNTER' \in 0..MaxId
  <2>1. CASE Len(raws) = 0
    <3>1. {j \in 1..Len(raws) : Draws(raws[j]) = 1} = {}
      BY <2>1
    <3>2. DrawnBy(raws, Len(raws)) = 0
      BY <3>1, FS_EmptySet DEF DrawnBy
    <3> QED BY <1>2, <1>3, <2>1, <3>2
  <2>2. CASE Len(raws) # 0
    <3>1. Len(raws) \in 1..Len(raws)
      BY <1>1, <2>2
    <3>2. \A i \in 1..Len(raws) : /\ DrawnBy(raws, i) \in Nat
                                  /\ DrawnBy(raws, i) <= DrawnBy(raws, Len(raws))
      BY <1>1, DrawnByBounds
    <3> QED BY <1>2, <1>3, <3>1, <3>2, SMTT(60)
  <2> QED BY <2>1, <2>2
<1>6. ASSUME NEW i \in 1..k
      PROVE  /\ doc(i) \in Docs /\ doc(i).id \in Ids
             /\ doc(i).id \notin taken
             /\ \A j \in 1..(i - 1) : doc(j).id # doc(i).id
  <2>1. /\ DrawnBy(raws, i) \in Nat /\ DrawnBy(raws, i) <= DrawnBy(raws, Len(raws))
        /\ DrawnBy(raws, Len(raws)) \in Nat
        /\ Draws(raws[i]) = 1 => 1 <= DrawnBy(raws, i)
    BY <1>1, <1>4, DrawnByBounds
  <2>2. Draws(raws[i]) = 1 => ID_COUNTER + DrawnBy(raws, i) \in 1..MaxId
    BY <1>2, <2>1
  <2>3. \A j \in 1..k : StagedError(raws, j, taken) = "ok"
    BY <1>3 DEF StagedUpTo
  <2> HIDE DEF taken
  <2>4. \A j \in 1..k : /\ Staged(raws, j).err = "ok"
                        /\ doc(j).id \notin taken \cup StagedIds(raws, j - 1)
    BY <2>3 DEF StagedError, InsertError
  <2>5. \A j \in 1..(i - 1) : doc(j).id \in StagedIds(raws, i - 1)
    BY <1>4, <2>4 DEF StagedIds
  <2>6. doc(i) \in Docs
    BY <1>1, <1>4, <2>2, <2>4, NormalizeDocType DEF Staged
  <2> QED BY <2>4, <2>5, <2>6 DEF Docs
<1> DEFINE y == [i \in 1..k |-> doc(i).id]
           x == [i \in 1..k |-> [id |-> doc(i).id, doc |-> doc(i)]]
<1>7. ops' = ops \o x /\ seen' = seen \o y
  BY <1>3
<1>8. /\ x \in [1..k -> BatchOps] /\ y \in [1..k -> Ids]
      /\ \A i \in 1..k : x[i].id = y[i] /\ (x[i].doc = Deleted \/ x[i].doc.id = y[i])
  BY <1>6 DEF BatchOps
<1>9. \A i, j \in 1..k : y[i] = y[j] => i = j
  <2> TAKE i \in 1..k, j \in 1..k
  <2>1. CASE i < j
    BY <1>6, <2>1
  <2>2. CASE j < i
    BY <1>6, <2>2
  <2> QED BY <2>1, <2>2
<1>10. WellFormed(ops, seen) /\ ops \in Seq(BatchOps) /\ seen \in Seq(Ids)
  BY DEF TxInv, WellFormed
<1>11. \A i \in 1..k, j \in 1..Len(seen) : y[i] # seen[j]
  BY <1>6, <1>10 DEF ToSet
<1> HIDE DEF x, y, doc
<1>12. WellFormed(ops \o x, seen \o y)
  BY <1>4, <1>8, <1>9, <1>10, <1>11, GrowBuffer
<1>13. Len(ops \o x) = Len(ops) + k /\ \A i \in 1..Len(ops) : (ops \o x)[i] = ops[i]
  BY <1>4, <1>8, <1>10, Concatenation
<1>14. \A i \in 1..Len(ops) : i \in 1..Len(ops') /\ ops'[i].id = ops[i].id
  <2>1. Len(ops) \in Nat
    BY <1>10, LenProperties
  <2> QED BY <1>4, <1>7, <1>13, <2>1
<1> QED BY <1>5, <1>7, <1>12, <1>14 DEF Grown

(* A staged update stages documents of its own type, under their ids.      *)
LEMMA UpdateStages ==
  ASSUME TxInv, NEW matched \in SUBSET DOMAIN docs, NEW u \in UpdateInputs,
         TxUpdate(matched, u)
  PROVE  Grown
<1> DEFINE new(ids) == [id \in ids |-> ApplyUpdate(docs[id], u)]
<1>1. ASSUME NEW ids \in SUBSET matched, \A id \in ids : ~UpdateFails(docs[id], u),
             Put(new(ids))
      PROVE  Grown
  <2>1. \A id \in ids : id \in Ids /\ docs[id] \in Docs /\ docs[id].id = id
    BY DEF TxInv, IInv, StoreOK, DocsOK, KeyIsId
  <2>2. ASSUME NEW id \in ids
        PROVE  ApplyUpdate(docs[id], u) \in Docs /\ ApplyUpdate(docs[id], u).id = id
    <3>1. u \in Updates
      BY InputAssumption
    <3>2. docs[id] \in Docs /\ docs[id].id = id /\ ~UpdateFails(docs[id], u)
      BY <1>1, <2>1
    <3> QED BY <3>1, <3>2, ApplyUpdateIsDoc
  <2>3. /\ DOMAIN new(ids) = ids
        /\ \A id \in ids : new(ids)[id] \in Docs /\ new(ids)[id].id = id
    BY <2>2
  <2>4. IsFiniteSet(ids)
    BY FS_Subset DEF TxInv
  <2> HIDE DEF new
  <2> QED BY <1>1, <2>1, <2>3, <2>4, PutGrows DEF TxInv
<1>2. CASE UNCHANGED <<ops, seen>>
  BY <1>2 DEF TxInv, Grown, WellFormed
<1>3. \/ UNCHANGED <<ops, seen>>
      \/ \E ids \in SUBSET matched : (\A id \in ids : ~UpdateFails(docs[id], u)) /\ Put(new(ids))
  <2> DEFINE bad == {id \in matched : UpdateFails(docs[id], u)}
  <2>1. CASE bad = {} /\ Put(new(matched))
    BY <2>1
  <2>2. CASE \E done \in SUBSET (matched \ bad) : Put(new(done))
    BY <2>2
  <2> QED BY <2>1, <2>2, Zenon DEF TxUpdate
<1> HIDE DEF new
<1> QED BY <1>1, <1>2, <1>3

(* A staged replacement or delete.                                         *)
LEMMA ReplaceStages ==
  ASSUME TxInv, NEW matched \in SUBSET DOMAIN docs, NEW raw \in RawInputs,
         TxReplace(matched, raw)
  PROVE  Grown
<1>1. CASE UNCHANGED <<ops, seen>>
  BY <1>1 DEF TxInv, Grown, WellFormed
<1>2. ASSUME NEW id \in matched, NormalizeReplace(id, raw).err = "ok",
             Put([i \in {id} |-> NormalizeReplace(id, raw).doc])
      PROVE  Grown
  <2> DEFINE new == [i \in {id} |-> NormalizeReplace(id, raw).doc]
  <2>1. id \in Ids /\ raw \in RawDocs
    BY InputAssumption DEF TxInv, IInv, StoreOK, DocsOK
  <2>2. NormalizeReplace(id, raw).doc \in Docs /\ NormalizeReplace(id, raw).doc.id = id
    BY <1>2, <2>1, NormalizeReplaceType
  <2>3. /\ DOMAIN new = {id} /\ IsFiniteSet({id})
        /\ \A i \in {id} : new[i] \in Docs /\ new[i].id = i
    BY <2>2, FS_Singleton
  <2> HIDE DEF new
  <2> QED BY <1>2, <2>1, <2>3, PutGrows DEF TxInv, new
<1> QED BY <1>1, <1>2 DEF TxReplace

(* delete_one and delete_many stage a removal for each match.               *)
LEMMA DeleteStages ==
  ASSUME TxInv, NEW matched \in SUBSET DOMAIN docs, TxDelete(matched)
  PROVE  Grown
<1> DEFINE new == [id \in matched |-> Deleted]
<1>1. matched \subseteq Ids /\ IsFiniteSet(matched)
  BY FS_Subset DEF TxInv, IInv, StoreOK, DocsOK
<1>2. DOMAIN new = matched /\ \A id \in matched : new[id] = Deleted
  OBVIOUS
<1>3. Put(new)
  BY DEF TxDelete
<1> HIDE DEF new
<1> QED BY <1>1, <1>2, <1>3, PutGrows DEF TxInv

(* What every staged call does: the buffer grows, the collection is left   *)
(* alone, and the first error is reported and kept.                        *)
LEMMA StageStep ==
  ASSUME TxInv, TxStage
  PROVE  /\ Grown /\ Staging /\ ID_COUNTER' \in 0..MaxId
         /\ err' \in Errors \cup {"ok"} /\ reply'.err = err'
<1>1. ASSUME NEW call, NEW e \in Errors \cup {"ok"}, NEW n, TxReply(call, e, n)
      PROVE  err' \in Errors \cup {"ok"} /\ reply'.err = err'
  BY <1>1 DEF TxReply, Reply
<1>2. ID_COUNTER \in 0..MaxId
  BY DEF TxInv, IInv
<1>3. ASSUME NEW call, NEW raws \in Seq(RawInputs), TxInsertMany(call, raws)
      PROVE  /\ Grown /\ Staging /\ ID_COUNTER' \in 0..MaxId
             /\ err' \in Errors \cup {"ok"} /\ reply'.err = err'
  <2>1. Grown /\ ID_COUNTER' \in 0..MaxId
    BY <1>3, InsertStages
  <2>2. \A i, taken : StagedError(raws, i, taken) \in Errors \cup {"ok"}
    BY DEF StagedError, InsertError, Staged, NormalizeDoc, Errors
  <2>3. \E e \in Errors \cup {"ok"} : \E n : TxReply(call, e, n)
    BY <1>3, <2>2 DEF TxInsertMany
  <2>4. Staging
    BY <1>3 DEF TxInsertMany
  <2> QED BY <1>1, <2>1, <2>3, <2>4
<1>4. ASSUME NEW raw \in RawInputs, TxInsert(raw)
      PROVE  /\ Grown /\ Staging /\ ID_COUNTER' \in 0..MaxId
             /\ err' \in Errors \cup {"ok"} /\ reply'.err = err'
  <2>1. <<raw>> \in Seq(RawInputs)
    OBVIOUS
  <2> QED BY <1>3, <1>4, <2>1 DEF TxInsert
<1>5. ASSUME NEW matched \in SUBSET DOMAIN docs, NEW u \in UpdateInputs, TxUpdate(matched, u)
      PROVE  /\ Grown /\ Staging /\ ID_COUNTER' \in 0..MaxId
             /\ err' \in Errors \cup {"ok"} /\ reply'.err = err'
  <2>1. \E e \in Errors \cup {"ok"} : \E n : TxReply("tx.update", e, n)
    BY <1>5 DEF TxUpdate, Errors
  <2>2. Staging /\ UNCHANGED ID_COUNTER
    BY <1>5 DEF TxUpdate
  <2> QED BY <1>1, <1>2, <1>5, <2>1, <2>2, UpdateStages
<1>6. ASSUME NEW matched \in SUBSET DOMAIN docs, NEW raw \in RawInputs, TxReplace(matched, raw)
      PROVE  /\ Grown /\ Staging /\ ID_COUNTER' \in 0..MaxId
             /\ err' \in Errors \cup {"ok"} /\ reply'.err = err'
  <2>1. \A id : NormalizeReplace(id, raw).err \in Errors \cup {"ok"}
    BY DEF NormalizeReplace, Errors
  <2>2. \E e \in Errors \cup {"ok"} : \E n : TxReply("tx.replace", e, n)
    BY <1>6, <2>1 DEF TxReplace, Errors
  <2>3. Staging /\ UNCHANGED ID_COUNTER
    BY <1>6 DEF TxReplace
  <2> QED BY <1>1, <1>2, <1>6, <2>2, <2>3, ReplaceStages
<1>7. ASSUME NEW matched \in SUBSET DOMAIN docs, TxDelete(matched)
      PROVE  /\ Grown /\ Staging /\ ID_COUNTER' \in 0..MaxId
             /\ err' \in Errors \cup {"ok"} /\ reply'.err = err'
  <2>1. TxReply("tx.delete", "ok", Cardinality(matched)) /\ Staging /\ UNCHANGED ID_COUNTER
    BY <1>7 DEF TxDelete
  <2> QED BY <1>1, <1>2, <1>7, <2>1, DeleteStages
<1> QED BY <1>3, <1>4, <1>5, <1>6, <1>7, BatchesAreSequences DEF TxStage

-----------------------------------------------------------------------------
(* The commit loop.                                                        *)

(* One iteration: the op at pos is installed, or its document removed, and *)
(* the loop moves past it.                                                 *)
LEMMA CommitOpKeeps ==
  ASSUME TxInv, CommitOp
  PROVE  StoreOK' /\ IsFiniteSet(DOMAIN docs') /\ Replayed'
<1> DEFINE op == ops[pos]
           puts == IF op.doc = Deleted THEN {} ELSE {op.id}
           gone == {op.id} \cap DOMAIN docs
           new == [id \in puts |-> op.doc]
<1>1. /\ phase = "committing" /\ pos \in DOMAIN ops
      /\ Write(gone, new) /\ pos' = pos + 1
      /\ UNCHANGED <<phase, ops, snapshot>>
  BY DEF CommitOp
<1>2. /\ ops \in Seq(BatchOps) /\ Len(ops) \in Nat /\ DOMAIN ops = 1..Len(ops)
      /\ \A i \in 1..Len(ops) : ops[i].doc = Deleted \/ ops[i].doc.id = ops[i].id
      /\ \A i, j \in 1..Len(ops) : ops[i].id = ops[j].id => i = j
  BY LenProperties DEF TxInv, WellFormed
<1>3. pos \in 1..Len(ops) /\ op \in BatchOps
  BY <1>1, <1>2
<1>4. op.id \in Ids /\ (op.doc # Deleted => op.doc \in Docs /\ op.doc.id = op.id)
  BY <1>2, <1>3 DEF BatchOps
<1>5. /\ DOMAIN new = puts /\ puts \subseteq {op.id}
      /\ \A id \in puts : new[id] = op.doc /\ op.doc # Deleted /\ id = op.id
  OBVIOUS
<1>6. Installable(new) /\ gone \in SUBSET DOMAIN docs /\ DOMAIN new \cap DOMAIN docs \subseteq gone
  BY <1>4, <1>5 DEF Installable
<1>7. IsFiniteSet(DOMAIN new)
  BY <1>5, FS_Singleton, FS_EmptySet
<1>8. /\ DOMAIN docs' = (DOMAIN docs \ {op.id}) \cup puts
      /\ \A id \in DOMAIN docs \ {op.id} : docs'[id] = docs[id]
      /\ op.doc # Deleted => docs'[op.id] = op.doc
  BY <1>1, <1>5 DEF Write, DocsAfter
<1>9. StoreOK' /\ IsFiniteSet(DOMAIN docs')
  <2> HIDE DEF new, gone
  <2> QED BY <1>1, <1>6, <1>7, WriteKeepsStore, WriteKeepsFinite DEF TxInv, IInv
<1>10. IdsBefore(pos + 1) = IdsBefore(pos) \cup {op.id}
  <2>1. 1..((pos + 1) - 1) = 1..(pos - 1) \cup {pos}
    BY <1>3
  <2> QED BY <2>1 DEF IdsBefore
<1>11. PutsBefore(pos + 1) = PutsBefore(pos) \cup puts
  <2>1. {j \in 1..((pos + 1) - 1) : ops[j].doc # Deleted}
          = {j \in 1..(pos - 1) : ops[j].doc # Deleted}
              \cup (IF op.doc = Deleted THEN {} ELSE {pos})
    BY <1>3
  <2> QED BY <2>1 DEF PutsBefore
<1>12. \A i \in 1..(pos - 1) : i \in 1..Len(ops) /\ ops[i].id # op.id
  BY <1>2, <1>3
<1>13. op.id \notin IdsBefore(pos) /\ op.id \notin PutsBefore(pos)
  BY <1>12 DEF IdsBefore, PutsBefore
<1>14. /\ DOMAIN docs = (DOMAIN snapshot \ IdsBefore(pos)) \cup PutsBefore(pos)
       /\ \A id \in DOMAIN snapshot \ IdsBefore(pos) : docs[id] = snapshot[id]
       /\ \A i \in 1..(pos - 1) : ops[i].doc # Deleted => docs[ops[i].id] = ops[i].doc
  BY <1>1 DEF TxInv, Replayed
<1> HIDE DEF op, puts, new, gone
<1>15. DOMAIN docs' = (DOMAIN snapshot \ IdsBefore(pos + 1)) \cup PutsBefore(pos + 1)
  BY <1>8, <1>10, <1>11, <1>13, <1>14
<1>16. \A id \in DOMAIN snapshot \ IdsBefore(pos + 1) : docs'[id] = snapshot[id]
  BY <1>8, <1>10, <1>14
<1>17. ASSUME NEW i \in 1..((pos + 1) - 1), ops[i].doc # Deleted
       PROVE  docs'[ops[i].id] = ops[i].doc
  <2>1. CASE i = pos
    BY <1>8, <1>17, <2>1 DEF op
  <2>2. CASE i \in 1..(pos - 1)
    <3>1. ops[i].id \in PutsBefore(pos)
      BY <1>17, <2>2 DEF PutsBefore
    <3> QED BY <1>8, <1>12, <1>14, <1>17, <2>2, <3>1
  <2> QED BY <1>3, <2>1, <2>2
<1>18. /\ IdsBefore(pos)' = IdsBefore(pos + 1)
       /\ PutsBefore(pos)' = PutsBefore(pos + 1)
  BY <1>1 DEF IdsBefore, PutsBefore
<1>19. Replayed'
  BY <1>1, <1>15, <1>16, <1>17, <1>18 DEF Replayed
<1> QED BY <1>9, <1>19

(* The end of a transaction empties the buffer.                            *)
LEMMA ClosedBuffer ==
  ASSUME Close
  PROVE  WellFormed(ops', seen') /\ PhasesOK' /\ Replayed'
<1>1. ops' = <<>> /\ seen' = <<>> /\ phase' = "idle" /\ err' = "ok" /\ pos' = 1
  BY DEF Close
<1>2. WellFormed(ops', seen')
  BY <1>1 DEF WellFormed
<1> QED BY <1>1, <1>2 DEF PhasesOK, Replayed

(* The initial states satisfy the invariant.                               *)
LEMMA InitTxInv == TxInit => TxInv
<1> SUFFICES ASSUME TxInit PROVE TxInv
  OBVIOUS
<1>1. IInv
  BY InitEstablishesIInv DEF TxInit
<1>2. IsFiniteSet(DOMAIN docs)
  BY FS_EmptySet DEF TxInit, Init
<1>3. WellFormed(ops, seen) /\ PhasesOK /\ Replayed
  BY DEF TxInit, WellFormed, PhasesOK, Replayed
<1> QED BY <1>1, <1>2, <1>3 DEF TxInv

(* Every step keeps the invariant.                                         *)
LEMMA TxNextKeeps == TxInv /\ [TxNext]_allVars => TxInv'
<1> SUFFICES ASSUME TxInv, [TxNext]_allVars PROVE TxInv'
  OBVIOUS
<1>1. /\ IInv /\ StoreOK /\ ID_COUNTER \in 0..MaxId /\ IsFiniteSet(DOMAIN docs)
      /\ WellFormed(ops, seen) /\ PhasesOK /\ Replayed
  BY DEF TxInv, IInv
<1>2. CASE UNCHANGED txVars /\ phase = "idle" /\ [Next]_vars
  <2>1. IInv' /\ IsFiniteSet(DOMAIN docs')
    BY <1>1, <1>2, NextKeepsIInv, NextKeepsFinite
  <2>2. phase' = "idle" /\ ops' = ops /\ seen' = seen /\ err' = err /\ pos' = pos
    BY <1>2 DEF txVars
  <2>3. WellFormed(ops', seen') /\ PhasesOK' /\ Replayed'
    BY <1>1, <1>2, <2>2 DEF PhasesOK, Replayed
  <2> QED BY <2>1, <2>3 DEF TxInv
<1>3. ASSUME UNCHANGED <<store, ID_COUNTER>>
      PROVE  IInv' /\ IsFiniteSet(DOMAIN docs')
  BY <1>1, <1>3, UnchangedKeepsStore DEF IInv, store
<1>4. CASE Close /\ UNCHANGED <<store, ID_COUNTER>>
  BY <1>3, <1>4, ClosedBuffer DEF TxInv
<1>5. CASE Begin
  <2>1. phase' = "open" /\ snapshot' = docs /\ UNCHANGED <<vars, ops, seen, err, pos>>
    BY <1>5 DEF Begin
  <2>2. UNCHANGED <<store, ID_COUNTER>>
    BY <2>1 DEF vars, store, layers
  <2>3. WellFormed(ops', seen') /\ PhasesOK' /\ Replayed'
    BY <1>1, <1>5, <2>1, <2>2 DEF Begin, PhasesOK, Replayed, store
  <2> QED BY <1>3, <2>2, <2>3 DEF TxInv
<1>6. CASE TxStage
  <2>1. /\ Grown /\ Staging /\ ID_COUNTER' \in 0..MaxId /\ err' \in Errors \cup {"ok"}
    BY <1>6, StageStep
  <2>2. phase = "open" /\ UNCHANGED <<store, phase, pos, snapshot>>
    BY <2>1 DEF Staging
  <2>3. IInv' /\ IsFiniteSet(DOMAIN docs')
    BY <1>1, <2>1, <2>2, UnchangedKeepsStore DEF IInv, store
  <2>4. WellFormed(ops', seen')
    BY <2>1 DEF Grown
  <2>5. PhasesOK' /\ Replayed'
    BY <1>1, <2>1, <2>2 DEF PhasesOK, Replayed, store
  <2> QED BY <2>3, <2>4, <2>5 DEF TxInv
<1>7. CASE Rollback \/ CommitFailed \/ CommitStops \/ CommitDone
  <2>1. Close /\ UNCHANGED <<store, ID_COUNTER>>
    BY <1>7 DEF Rollback, CommitFailed, CommitStops, CommitDone, Fail, vars, store, layers
  <2> QED BY <1>4, <2>1
<1>8. CASE CommitBegin
  <2>1. /\ phase = "open" /\ err = "ok" /\ phase' = "committing"
        /\ UNCHANGED <<vars, ops, seen, err, pos, snapshot>>
    BY <1>8 DEF CommitBegin
  <2>2. UNCHANGED <<store, ID_COUNTER>> /\ docs' = docs
    BY <2>1 DEF vars, store, layers
  <2>3. Len(ops) \in Nat /\ pos = 1 /\ snapshot = docs
    BY <1>1, <2>1, LenProperties DEF WellFormed, PhasesOK
  <2>4. PhasesOK'
    BY <1>1, <2>1, <2>3 DEF PhasesOK
  <2>5. IdsBefore(pos)' = {} /\ PutsBefore(pos)' = {}
    BY <2>1, <2>3 DEF IdsBefore, PutsBefore
  <2>6. Replayed'
    <3>1. pos' = 1 /\ snapshot' = docs'
      BY <2>1, <2>2, <2>3
    <3> QED BY <2>3, <2>5, <3>1 DEF Replayed
  <2>7. WellFormed(ops', seen')
    BY <1>1, <2>1
  <2> QED BY <1>3, <2>2, <2>4, <2>6, <2>7 DEF TxInv
<1>9. CASE CommitOp
  <2>1. StoreOK' /\ IsFiniteSet(DOMAIN docs') /\ Replayed'
    BY <1>9, CommitOpKeeps
  <2>2. /\ phase = "committing" /\ pos \in DOMAIN ops /\ pos' = pos + 1
        /\ UNCHANGED <<ID_COUNTER, phase, ops, seen, err, snapshot>>
    BY <1>9 DEF CommitOp
  <2>3. DOMAIN ops = 1..Len(ops) /\ Len(ops) \in Nat
    BY <1>1, LenProperties DEF WellFormed
  <2>4. PhasesOK'
    BY <1>1, <2>2, <2>3 DEF PhasesOK
  <2> QED BY <1>1, <2>1, <2>2, <2>4 DEF TxInv, IInv
<1>10. CASE UNCHANGED allVars
  <2>1. UNCHANGED <<store, ID_COUNTER>> /\ docs' = docs
    BY <1>10 DEF allVars, vars, store, layers
  <2>2. UNCHANGED <<phase, ops, seen, err, pos, snapshot>>
    BY <1>10 DEF allVars, txVars
  <2>3. WellFormed(ops', seen')
    BY <1>1, <2>2
  <2>4. PhasesOK' /\ Replayed'
    BY <1>1, <2>1, <2>2 DEF PhasesOK, Replayed, IdsBefore, PutsBefore
  <2> QED BY <1>3, <2>1, <2>3, <2>4 DEF TxInv
<1> QED
  BY <1>2, <1>5, <1>6, <1>7, <1>8, <1>9, <1>10 DEF TxNext, DirectCall

-----------------------------------------------------------------------------
(* Invariants and action properties of the batch.                          *)

(* The inductive invariant holds in every reachable state.                 *)
LEMMA AlwaysTxInv == TxSpec => []TxInv
BY InitTxInv, TxNextKeeps, PTL DEF TxSpec

(* Collection and batch are well typed, also in the middle of a commit.    *)
THEOREM TxTypeCorrect == TxSpec => []TxTypeOK
<1>1. TxInv => TxTypeOK
  BY DEF TxInv, IInv, StoreOK, DocsOK, IndexesOK, VectorsOK, TextsOK, TypeOK,
         WellFormed, PhasesOK, TxTypeOK
<1> QED BY <1>1, AlwaysTxInv, PTL

(* The buffer and its array of identifiers stay parallel, and no           *)
(* identifier is staged twice (Transaction::put).                          *)
THEOREM BufferAligned == TxSpec => []OpsAligned
<1>1. TxInv => OpsAligned
  <2> SUFFICES ASSUME WellFormed(ops, seen) PROVE OpsAligned
    BY DEF TxInv
  <2>1. DOMAIN ops = 1..Len(ops) /\ DOMAIN seen = 1..Len(ops)
    BY LenProperties DEF WellFormed
  <2> QED BY <2>1 DEF WellFormed, OpsAligned
<1> QED BY <1>1, AlwaysTxInv, PTL

(* What is staged under an identifier carries it: update, replace and      *)
(* insert all resolve the document before they buffer it.                  *)
THEOREM StagedUnderOwnId == TxSpec => []StagedKeyIsId
<1>1. TxInv => StagedKeyIsId
  <2> SUFFICES ASSUME WellFormed(ops, seen) PROVE StagedKeyIsId
    BY DEF TxInv
  <2>1. DOMAIN ops = 1..Len(ops)
    BY LenProperties DEF WellFormed
  <2> QED BY <2>1 DEF WellFormed, StagedKeyIsId
<1> QED BY <1>1, AlwaysTxInv, PTL

(* The index layers agree with the documents between any two ops of a      *)
(* commit, and after one that stops half-way (Transaction::commit).        *)
THEOREM TxLayersInLockstep == TxSpec => []Lockstep
<1>1. TxInv => Lockstep
  BY DEF TxInv, IInv, StoreOK, IndexesOK, VectorsOK, TextsOK, Lockstep
<1> QED BY <1>1, AlwaysTxInv, PTL

(* A commit checks each document against the vector indexes when it        *)
(* installs it, though staging did not.                                    *)
THEOREM TxVectorsGuarded == TxSpec => WritesRespectVectors
<1>1. TxInv /\ [TxNext]_allVars => [VectorsRespected]_vars
  <2> SUFFICES ASSUME TxInv, TxNext PROVE VectorsRespected \/ UNCHANGED vars
    BY DEF allVars
  <2>1. CASE UNCHANGED docs
    BY <2>1 DEF VectorsRespected
  <2>2. CASE DirectCall
    BY <2>2, NextRespectsVectors DEF DirectCall, TxInv
  <2>3. CASE TxStage
    BY <2>1, <2>3, StageStep DEF Staging, store
  <2>4. CASE CommitOp
    <3> DEFINE op == ops[pos]
               puts == IF op.doc = Deleted THEN {} ELSE {op.id}
               new == [id \in puts |-> op.doc]
    <3>1. Write({op.id} \cap DOMAIN docs, new) /\ CommitError = "ok" /\ pos \in DOMAIN ops
      BY <2>4 DEF CommitOp
    <3>2. op \in BatchOps /\ (op.doc # Deleted => op.doc \in Docs /\ op.doc.id = op.id)
      <4>1. ops \in Seq(BatchOps) /\ DOMAIN ops = 1..Len(ops)
        BY LenProperties DEF TxInv, WellFormed
      <4>2. op \in BatchOps /\ (op.doc = Deleted \/ op.doc.id = op.id)
        BY <3>1, <4>1 DEF TxInv, WellFormed
      <4> QED BY <4>2 DEF BatchOps
    <3>3. ASSUME op.doc # Deleted PROVE ~BadVector(op.doc)
      <4>1. CASE op.id \notin DOMAIN docs
        BY <3>1, <3>3, <4>1 DEF CommitError
      <4>2. CASE op.id \in DOMAIN docs
        <5>1. SetDocError(op.id, op.doc) = "ok"
          BY <3>1, <3>3, <4>2 DEF CommitError
        <5>2. /\ NormalizeReplace(op.id, op.doc).err = "ok"
              /\ ~BadVector(NormalizeReplace(op.id, op.doc).doc)
          BY <5>1 DEF SetDocError
        <5>3. NormalizeReplace(op.id, op.doc).doc = [id |-> op.id, body |-> op.doc.body]
          BY <5>2 DEF NormalizeReplace
        <5> QED BY <3>2, <3>3, <5>2, <5>3 DEF Docs
      <4> QED BY <4>1, <4>2
    <3>4. \A id \in DOMAIN new : ~BadVector(new[id])
      BY <3>3
    <3> HIDE DEF new
    <3> QED BY <3>1, <3>4, CheckedWrite
  <2> QED
    BY <2>1, <2>2, <2>3, <2>4
       DEF TxNext, Begin, Rollback, CommitFailed, CommitBegin, CommitStops, CommitDone,
           Fail, vars, store
<1>2. [][VectorsRespected]_vars => WritesRespectVectors
  BY PTL DEF VectorsRespected, WritesRespectVectors
<1> QED BY <1>1, <1>2, AlwaysTxInv, PTL DEF TxSpec

-----------------------------------------------------------------------------
(* The batch implements AtomicBatch.                                       *)

(* In a well-formed buffer an identifier's write is that of its only op.   *)
LEMMA StagedWritesOfBuffer ==
  ASSUME NEW o, NEW s, WellFormed(o, s)
  PROVE  /\ DOMAIN StagedWrites(o) = {o[i].id : i \in 1..Len(o)}
         /\ DOMAIN StagedWrites(o) \subseteq Ids
         /\ \A i \in 1..Len(o) : StagedWrites(o)[o[i].id] = o[i].doc
         /\ StagedWrites(o) \in [DOMAIN StagedWrites(o) -> Docs \cup {Deleted}]
<1>1. /\ o \in Seq(BatchOps) /\ Len(o) \in Nat /\ DOMAIN o = 1..Len(o)
      /\ \A i, j \in 1..Len(o) : o[i].id = o[j].id => i = j
  <2>1. o \in Seq(BatchOps)
    BY DEF WellFormed
  <2> QED BY <2>1, LenProperties DEF WellFormed
<1>2. \A i \in 1..Len(o) : o[i].id \in Ids /\ o[i].doc \in Docs \cup {Deleted}
  <2>1. \A i \in 1..Len(o) : o[i] \in BatchOps
    BY <1>1
  <2> QED BY <2>1 DEF BatchOps
<1> DEFINE last(id) == CHOOSE i \in DOMAIN o : /\ o[i].id = id
                                               /\ \A j \in DOMAIN o : j > i => o[j].id # id
<1>3. StagedWrites(o) = [id \in {o[i].id : i \in 1..Len(o)} |-> o[last(id)].doc]
  BY <1>1 DEF StagedWrites
<1>4. ASSUME NEW i \in 1..Len(o) PROVE last(o[i].id) = i
  <2>1. \A j \in DOMAIN o : j > i => o[j].id # o[i].id
    BY <1>1
  <2>2. last(o[i].id) \in DOMAIN o /\ o[last(o[i].id)].id = o[i].id
    BY <1>1, <2>1
  <2> QED BY <1>1, <2>2
<1> HIDE DEF last
<1>5. \A i \in 1..Len(o) : StagedWrites(o)[o[i].id] = o[i].doc
  BY <1>3, <1>4
<1> QED BY <1>2, <1>3, <1>4, <1>5

(* Wherever the commit loop stands, the documents are those of begin()     *)
(* with the writes before pos applied.                                     *)
LEMMA ReplayedIsApplied ==
  ASSUME TxInv, phase = "committing"
  PROVE  /\ docs = Abstract!Applied(IdsBefore(pos))
         /\ IdsBefore(pos) \subseteq DOMAIN StagedWrites(ops)
         /\ pos = Len(ops) + 1 => IdsBefore(pos) = DOMAIN StagedWrites(ops)
         /\ pos \in DOMAIN ops => IdsBefore(pos) # DOMAIN StagedWrites(ops)
<1> DEFINE sw == StagedWrites(ops)
<1>1. /\ DOMAIN sw = {ops[i].id : i \in 1..Len(ops)}
      /\ \A i \in 1..Len(ops) : sw[ops[i].id] = ops[i].doc
  BY StagedWritesOfBuffer DEF TxInv
<1>2. /\ Len(ops) \in Nat /\ DOMAIN ops = 1..Len(ops)
      /\ \A i, j \in 1..Len(ops) : ops[i].id = ops[j].id => i = j
  BY LenProperties DEF TxInv, WellFormed
<1>3. pos \in Nat \ {0} /\ pos <= Len(ops) + 1
  BY DEF TxInv, PhasesOK
<1>4. 1..(pos - 1) \subseteq 1..Len(ops)
  BY <1>2, <1>3
<1>5. /\ DOMAIN docs = (DOMAIN snapshot \ IdsBefore(pos)) \cup PutsBefore(pos)
      /\ \A id \in DOMAIN snapshot \ IdsBefore(pos) : docs[id] = snapshot[id]
      /\ \A i \in 1..(pos - 1) : ops[i].doc # Deleted => docs[ops[i].id] = ops[i].doc
  BY DEF TxInv, Replayed
<1> HIDE DEF sw
<1>6. {k \in IdsBefore(pos) : sw[k] # Deleted} = PutsBefore(pos)
  BY <1>1, <1>4 DEF IdsBefore, PutsBefore
<1>7. \A k \in PutsBefore(pos) : docs[k] = sw[k]
  BY <1>1, <1>4, <1>5 DEF PutsBefore
<1>8. PutsBefore(pos) \subseteq IdsBefore(pos)
  BY DEF PutsBefore, IdsBefore
<1>9. docs = [k \in DOMAIN docs |-> docs[k]]
  BY DEF TxInv, IInv, StoreOK, DocsOK
<1>10. docs = [k \in (DOMAIN snapshot \ IdsBefore(pos)) \cup PutsBefore(pos) |->
                 IF k \in PutsBefore(pos) THEN sw[k] ELSE snapshot[k]]
  BY <1>5, <1>7, <1>8, <1>9
<1>11. docs = Abstract!Applied(IdsBefore(pos))
  BY <1>6, <1>10 DEF Abstract!Applied, VisibleDocs, sw
<1>12. IdsBefore(pos) \subseteq DOMAIN sw
  BY <1>1, <1>4 DEF IdsBefore
<1>13. pos = Len(ops) + 1 => IdsBefore(pos) = DOMAIN sw
  BY <1>1, <1>2 DEF IdsBefore
<1>14. ASSUME pos \in DOMAIN ops PROVE ops[pos].id \in DOMAIN sw \ IdsBefore(pos)
  <2>1. \A i \in 1..(pos - 1) : ops[i].id # ops[pos].id
    BY <1>2, <1>3, <1>4, <1>14
  <2> QED BY <1>1, <1>2, <1>14, <2>1 DEF IdsBefore
<1> QED BY <1>11, <1>12, <1>13, <1>14 DEF sw

(* A document map the invariant allows is a store of the abstract batch.   *)
LEMMA DocsAreStore ==
  ASSUME DocsOK PROVE docs \in Abstract!Stores
BY DEF DocsOK, Abstract!Stores

(* The buffer of an open transaction is a stage of it.                     *)
LEMMA BufferIsStage ==
  ASSUME NEW o, NEW s, WellFormed(o, s) PROVE StagedWrites(o) \in Abstract!Stages
<1>1. DOMAIN StagedWrites(o) \in SUBSET Ids
  BY StagedWritesOfBuffer
<1>2. StagedWrites(o) \in [DOMAIN StagedWrites(o) -> Docs \cup {Deleted}]
  BY StagedWritesOfBuffer
<1> QED BY <1>1, <1>2 DEF Abstract!Stages

(* The empty buffer stages nothing.                                        *)
LEMMA EmptyStage == StagedWrites(<<>>) = Abstract!Nothing
<1>1. DOMAIN StagedWrites(<<>>) = {}
  BY DEF StagedWrites
<1> QED BY <1>1 DEF StagedWrites, Abstract!Nothing

(* The end of a transaction, seen from outside.                            *)
LEMMA CloseIsClose ==
  ASSUME Close, phase # "idle"
  PROVE  Abstract!Close /\ VisibleDocs' = docs'
BY EmptyStage DEF Close, Abstract!Close, VisibleDocs

(* Each step of the detailed batch is a step of the abstract one, or none. *)
LEMMA StepSimulation ==
  TxInv /\ TxInv' /\ [TxNext]_allVars => [Abstract!Next]_(Abstract!vars)
<1> SUFFICES ASSUME TxInv, TxInv', TxNext
             PROVE  Abstract!Next \/ UNCHANGED Abstract!vars
  BY DEF allVars, vars, txVars, Abstract!vars, VisibleDocs
<1>1. /\ WellFormed(ops, seen) /\ PhasesOK /\ DocsOK
      /\ WellFormed(ops', seen') /\ PhasesOK' /\ DocsOK'
  BY DEF TxInv, IInv, StoreOK
<1>2. CASE DirectCall
  <2>1. phase = "idle" /\ UNCHANGED txVars
    BY <1>2 DEF DirectCall
  <2>2. UNCHANGED <<phase, ops, err>>
    BY <2>1 DEF txVars
  <2>3. docs' \in Abstract!Stores
    BY <1>1 DEF DocsOK, Abstract!Stores
  <2>4. VisibleDocs' = docs'
    BY <2>1, <2>2 DEF VisibleDocs
  <2>5. Abstract!DirectWrite
    BY <2>1, <2>2, <2>3, <2>4 DEF Abstract!DirectWrite
  <2> QED BY <2>5 DEF Abstract!Next
<1>3. CASE Begin
  <2>1. /\ phase = "idle" /\ phase' = "open"
        /\ UNCHANGED <<docs, reply, ops, err>>
    BY <1>3 DEF Begin, vars
  <2>2. VisibleDocs' = VisibleDocs
    BY <2>1 DEF VisibleDocs
  <2>3. Abstract!Begin
    BY <2>1, <2>2 DEF Abstract!Begin
  <2> QED BY <2>3 DEF Abstract!Next
<1>4. CASE TxStage
  <2>1. Grown /\ Staging /\ reply'.err = err'
    BY <1>4, StageStep
  <2>2. phase = "open" /\ err = "ok" /\ UNCHANGED <<docs, phase>>
    BY <2>1 DEF Staging, store
  <2>3. StagedWrites(ops') \in Abstract!Stages
    BY <1>1, BufferIsStage
  <2>4. DOMAIN StagedWrites(ops) \subseteq DOMAIN StagedWrites(ops')
    <3>1. /\ DOMAIN StagedWrites(ops) = {ops[i].id : i \in 1..Len(ops)}
          /\ DOMAIN StagedWrites(ops') = {ops'[i].id : i \in 1..Len(ops')}
      BY <1>1, StagedWritesOfBuffer
    <3> QED BY <2>1, <3>1 DEF Grown
  <2>5. VisibleDocs' = VisibleDocs
    BY <2>2 DEF VisibleDocs
  <2>6. Abstract!Stage
    BY <2>1, <2>2, <2>3, <2>4, <2>5 DEF Abstract!Stage
  <2> QED BY <2>6 DEF Abstract!Next
<1>5. CASE Rollback
  <2>1. phase = "open" /\ Close /\ UNCHANGED <<docs, reply>>
    BY <1>5 DEF Rollback, vars
  <2>2. Abstract!Close /\ VisibleDocs' = VisibleDocs
    BY <2>1, CloseIsClose DEF VisibleDocs
  <2>3. Abstract!Abandon
    BY <2>1, <2>2 DEF Abstract!Abandon
  <2> QED BY <2>3 DEF Abstract!Next
<1>6. CASE CommitFailed
  <2>1. phase = "open" /\ err # "ok" /\ Close /\ UNCHANGED docs /\ reply'.err = err
    BY <1>6 DEF CommitFailed, Fail, Reply, store
  <2>2. Abstract!Close /\ VisibleDocs' = VisibleDocs
    BY <2>1, CloseIsClose DEF VisibleDocs
  <2>3. Abstract!CommitRefused
    BY <2>1, <2>2 DEF Abstract!CommitRefused
  <2> QED BY <2>3 DEF Abstract!Next
<1>7. CASE CommitBegin
  <2>1. /\ phase = "open" /\ phase' = "committing"
        /\ UNCHANGED <<docs, reply, ops, err, snapshot>>
    BY <1>7 DEF CommitBegin, vars
  <2>2. VisibleDocs' = VisibleDocs
    BY <1>1, <2>1 DEF VisibleDocs, PhasesOK
  <2> QED BY <2>1, <2>2 DEF Abstract!vars
<1>8. CASE CommitOp
  <2>1. phase = "committing" /\ UNCHANGED <<reply, phase, ops, err, snapshot>>
    BY <1>8 DEF CommitOp
  <2>2. VisibleDocs' = VisibleDocs
    BY <2>1 DEF VisibleDocs
  <2> QED BY <2>1, <2>2 DEF Abstract!vars
<1>9. CASE CommitStops
  <2>1. /\ phase = "committing" /\ pos \in DOMAIN ops /\ Close /\ UNCHANGED docs
        /\ reply'.err # "ok"
    BY <1>9 DEF CommitStops, Fail, Reply, store
  <2>2. err = "ok" /\ Abstract!Close /\ VisibleDocs' = docs
    BY <1>1, <2>1, CloseIsClose DEF PhasesOK
  <2>3. /\ docs = Abstract!Applied(IdsBefore(pos))
        /\ IdsBefore(pos) \in SUBSET DOMAIN StagedWrites(ops)
        /\ IdsBefore(pos) # DOMAIN StagedWrites(ops)
    BY <2>1, ReplayedIsApplied
  <2>4. Abstract!CommitStopsShort
    BY <2>1, <2>2, <2>3 DEF Abstract!CommitStopsShort
  <2> QED BY <2>4 DEF Abstract!Next
<1>10. CASE CommitDone
  <2>1. /\ phase = "committing" /\ pos > Len(ops) /\ Close /\ UNCHANGED docs
        /\ reply'.err = "ok"
    BY <1>10 DEF CommitDone, Reply, store
  <2>2. err = "ok" /\ Abstract!Close /\ VisibleDocs' = docs
    BY <1>1, <2>1, CloseIsClose DEF PhasesOK
  <2>3. pos = Len(ops) + 1
    BY <1>1, <2>1, LenProperties DEF PhasesOK, WellFormed
  <2>4. docs = Abstract!Applied(DOMAIN StagedWrites(ops))
    BY <2>1, <2>3, ReplayedIsApplied
  <2>5. Abstract!Commit
    BY <2>1, <2>2, <2>4 DEF Abstract!Commit
  <2> QED BY <2>5 DEF Abstract!Next
<1> QED
  BY <1>2, <1>3, <1>4, <1>5, <1>6, <1>7, <1>8, <1>9, <1>10 DEF TxNext

(* Seen from outside, a batch stages, then installs all of its writes, or  *)
(* whole ones of them if a vector index stops the commit, or none at all   *)
(* (Transaction::commit, rollback and drop).                               *)
THEOREM BatchRefines == TxSpec => ImplementsAtomicBatch
<1>1. TxInit => Abstract!Init
  <2> SUFFICES ASSUME TxInit PROVE Abstract!Init
    OBVIOUS
  <2>1. docs = Abstract!Nothing
    BY DEF TxInit, Init, Abstract!Nothing
  <2> QED BY <2>1, EmptyStage DEF TxInit, Init, Abstract!Init, VisibleDocs
<1>2. TxInv /\ TxInv' /\ [TxNext]_allVars => [Abstract!Next]_(Abstract!vars)
  BY StepSimulation
<1> QED BY <1>1, <1>2, AlwaysTxInv, PTL DEF TxSpec, ImplementsAtomicBatch, Abstract!Spec

-----------------------------------------------------------------------------
(* The server's write commands.                                            *)

CmdInv == IInv /\ IsFiniteSet(DOMAIN docs)

(* Each command is a call on the collection.                               *)
LEMMA CommandIsCall == CmdNext => Next
<1> SUFFICES ASSUME CmdNext PROVE Next
  OBVIOUS
<1>1. ASSUME NEW raws \in Batches, DoInsert(raws) PROVE Next
  BY <1>1 DEF DoInsert, Next, DocumentCall
<1>2. ASSUME NEW matched \in SUBSET DOMAIN docs,
             \/ \E u \in UpdateInputs, many \in BOOLEAN : DoUpdate(matched, u, many)
             \/ \E raw \in RawInputs : DoReplace(matched, raw)
             \/ \E many \in BOOLEAN : DoDelete(matched, many)
      PROVE  Next
  <2>1. \/ \E u \in UpdateInputs : UpdateMany(matched, u)
        \/ \E raw \in RawInputs : ReplaceOne(matched, raw)
        \/ DeleteMany(matched) \/ DeleteOne(matched)
    BY <1>2, Zenon DEF DoUpdate, DoReplace, DoDelete
  <2> QED
    BY <2>1, Zenon DEF Next, FilterCall
<1>3. ASSUME NEW f \in Fields \cup {IdKey}, DoIndex(f) PROVE Next
  <2>1. f # IdKey => f \in Fields
    OBVIOUS
  <2> QED
    BY <1>3, <2>1, Zenon DEF DoIndex, Next, IndexCall
<1> QED
  BY <1>1, <1>2, <1>3, Zenon DEF CmdNext, Next

(* So the collection keeps its invariant.                                  *)
LEMMA AlwaysCmdInv == CmdSpec => []CmdInv
<1>1. CmdInit => CmdInv
  <2>1. CmdInit => Init /\ DOMAIN docs = {}
    BY DEF CmdInit, Init
  <2> QED
    BY <2>1, InitEstablishesIInv, FS_EmptySet DEF CmdInv
<1>2. CmdInv /\ [CmdNext]_cmdVars => CmdInv'
  <2> SUFFICES ASSUME CmdInv, [CmdNext]_cmdVars PROVE CmdInv'
    OBVIOUS
  <2>1. [Next]_vars
    BY CommandIsCall DEF cmdVars
  <2> QED
    BY <2>1, NextKeepsIInv, NextKeepsFinite DEF CmdInv
<1> QED
  BY <1>1, <1>2, PTL DEF CmdSpec

(* What a write leaves out of the map, and what it can have changed in it. *)
LEMMA WriteChanges ==
  ASSUME NEW gone, NEW new, Write(gone, new)
  PROVE  /\ DOMAIN docs' = (DOMAIN docs \ gone) \cup DOMAIN new
         /\ Changed \subseteq DOMAIN new
         /\ \A id \in DOMAIN new : docs'[id] = new[id]
<1>1. docs' = DocsAfter(gone, new)
  BY DEF Write
<1>2. /\ DOMAIN docs' = (DOMAIN docs \ gone) \cup DOMAIN new
      /\ \A id \in DOMAIN new : docs'[id] = new[id]
      /\ \A id \in DOMAIN docs' : id \notin DOMAIN new => docs'[id] = docs[id]
  BY <1>1 DEF DocsAfter
<1> QED
  BY <1>2 DEF Changed

(* The step of CountsAreTrue.                                              *)
Counted ==
  UNCHANGED ID_COUNTER =>
    /\ answer'.cmd \in {"delete_one", "delete_many"} =>
         answer'.count = Cardinality(DOMAIN docs \ DOMAIN docs')
    /\ answer'.cmd \in {"update_one", "update_many", "replace"} /\ answer'.status = "ok" =>
         answer'.count >= Cardinality(Changed)
    /\ answer'.cmd = "delete_one" => answer'.count <= 1
    /\ answer'.cmd = "replace" => Cardinality(Changed) <= 1

(* Deletes count what they take out.                                       *)
LEMMA DeleteCounted ==
  ASSUME CmdInv, NEW matched \in SUBSET DOMAIN docs, NEW many \in BOOLEAN,
         DoDelete(matched, many)
  PROVE  Counted
<1>1. PICK ids \in SUBSET DOMAIN docs :
        /\ Write(ids, Restrict(docs, {})) /\ reply'.n = Cardinality(ids)
        /\ many \/ ids = {} \/ \E id : ids = {id}
  <2>1. ASSUME NEW call, NEW ids \in SUBSET DOMAIN docs, RemoveEach(call, ids)
        PROVE  Write(ids, Restrict(docs, {})) /\ reply'.n = Cardinality(ids)
    BY <2>1 DEF RemoveEach, Reply
  <2>2. CASE many
    <3>1. RemoveEach("delete_many", matched)
      BY <2>2 DEF DoDelete, DeleteMany
    <3> QED
      BY <2>1, <2>2, <3>1
  <2>3. CASE ~many
    <3>1. DeleteOne(matched)
      BY <2>3 DEF DoDelete
    <3>2. PICK ids \in SUBSET DOMAIN docs :
            RemoveEach("delete_one", ids) /\ (ids = {} \/ \E id : ids = {id})
      BY <3>1 DEF DeleteOne
    <3> QED
      BY <2>1, <3>2
  <2> QED
    BY <2>2, <2>3
<1>2. DOMAIN docs \ DOMAIN docs' = ids
  <2> DEFINE none == Restrict(docs, {})
  <2>1. DOMAIN none = {} /\ Write(ids, none)
    BY <1>1 DEF Restrict
  <2> HIDE DEF none
  <2>2. DOMAIN docs' = (DOMAIN docs \ ids) \cup DOMAIN none
    BY <2>1, WriteChanges
  <2> QED
    BY <2>1, <2>2
<1>3. /\ answer'.count = Cardinality(ids)
      /\ answer'.cmd = IF many THEN "delete_many" ELSE "delete_one"
  BY <1>1 DEF DoDelete, Answer
<1>4. ~many => Cardinality(ids) <= 1
  <2>1. Cardinality({}) = 0 /\ \A id : Cardinality({id}) = 1
    BY FS_EmptySet, FS_Singleton
  <2>2. CASE ids = {}
    BY <2>1, <2>2
  <2>3. ASSUME NEW id, ids = {id} PROVE Cardinality(ids) <= 1
    <3>1. Cardinality(ids) = 1
      BY <2>1, <2>3
    <3> QED
      BY <3>1
  <2> QED
    BY <1>1, <2>2, <2>3
<1>5. answer'.cmd \notin {"update_one", "update_many", "replace"}
      /\ (answer'.cmd = "delete_one" => ~many)
  BY <1>3
<1> QED
  BY <1>2, <1>3, <1>4, <1>5 DEF Counted

(* Updates count at least the documents they change.                       *)
LEMMA UpdateCounted ==
  ASSUME CmdInv, NEW matched \in SUBSET DOMAIN docs, NEW u, NEW many \in BOOLEAN,
         DoUpdate(matched, u, many)
  PROVE  Counted
<1>1. answer'.cmd \in {"update_one", "update_many"}
  BY DEF DoUpdate, Answer
<1>2. ASSUME answer'.status = "ok" PROVE reply'.err = "ok" /\ answer'.count = reply'.n
  BY <1>2 DEF DoUpdate, Answer
<1>3. ASSUME reply'.err = "ok"
      PROVE  Write(matched, Updated(matched, u)) /\ reply'.n = Cardinality(matched)
  <2>1. UpdateMany(matched, u)
    BY DEF DoUpdate
  <2> QED
    BY <1>3, <2>1 DEF UpdateMany, Fail, Reply
<1>4. ASSUME answer'.status = "ok" PROVE answer'.count >= Cardinality(Changed)
  <2>1. Write(matched, Updated(matched, u)) /\ answer'.count = Cardinality(matched)
    BY <1>2, <1>3, <1>4
  <2>2. DOMAIN Updated(matched, u) = matched
    BY DEF Updated
  <2>3. Changed \subseteq matched
    BY <2>1, <2>2, WriteChanges
  <2>4. IsFiniteSet(matched)
    BY FS_Subset DEF CmdInv
  <2>5. Cardinality(Changed) <= Cardinality(matched)
        /\ Cardinality(Changed) \in Nat /\ Cardinality(matched) \in Nat
    BY <2>3, <2>4, FS_Subset, FS_CardinalityType
  <2> QED
    BY <2>1, <2>5
<1> QED
  BY <1>1, <1>4 DEF Counted

(* A replace counts one document if it stores one.                         *)
LEMMA ReplaceCounted ==
  ASSUME CmdInv, NEW matched \in SUBSET DOMAIN docs, NEW raw, DoReplace(matched, raw)
  PROVE  Counted
<1>1. answer'.cmd = "replace" /\ answer'.status = reply'.err /\ answer'.count = reply'.n
  BY DEF DoReplace, Answer
<1>2. \/ /\ reply'.err # "ok" /\ docs' = docs
      \/ /\ reply'.err = "ok" /\ reply'.n = 1
         /\ \E id \in matched : \E doc : Write({id}, [i \in {id} |-> doc])
  <2>1. ReplaceOne(matched, raw)
    BY DEF DoReplace
  <2>2. ASSUME NEW e, e # "ok", Fail("replace_one", e)
        PROVE  reply'.err # "ok" /\ docs' = docs
    BY <2>2 DEF Fail, Reply, store
  <2>3. CASE Fail("replace_one", "NoMatch")
    BY <2>2, <2>3
  <2>4. ASSUME NEW id \in matched, SetStored("replace_one", id, raw)
        PROVE  \/ reply'.err # "ok" /\ docs' = docs
               \/ /\ reply'.err = "ok" /\ reply'.n = 1
                  /\ \E doc : Write({id}, [i \in {id} |-> doc])
    <3>1. CASE SetDocError(id, raw) # "ok" /\ Fail("replace_one", SetDocError(id, raw))
      BY <2>2, <3>1
    <3>2. CASE /\ Write({id}, [i \in {id} |-> NormalizeReplace(id, raw).doc])
               /\ Reply("replace_one", "ok", 1)
      BY <3>2 DEF Reply
    <3> QED
      BY <2>4, <3>1, <3>2 DEF SetStored
  <2> QED
    BY <2>1, <2>3, <2>4 DEF ReplaceOne
<1>3. CASE reply'.err # "ok" /\ docs' = docs
  <2>1. Changed = {}
    BY <1>3 DEF Changed
  <2> QED
    BY <1>1, <1>3, <2>1, FS_EmptySet DEF Counted
<1>4. ASSUME reply'.n = 1, NEW id \in matched, NEW doc, Write({id}, [i \in {id} |-> doc])
      PROVE  Counted
  <2>1. Changed \subseteq {id}
    <3> DEFINE new == [i \in {id} |-> doc]
    <3>1. DOMAIN new = {id} /\ Write({id}, new)
      BY <1>4
    <3> HIDE DEF new
    <3>2. Changed \subseteq DOMAIN new
      BY <3>1, WriteChanges
    <3> QED
      BY <3>1, <3>2
  <2>2. Cardinality(Changed) <= 1 /\ Cardinality(Changed) \in Nat
    <3>1. IsFiniteSet({id}) /\ Cardinality({id}) = 1
      BY FS_Singleton
    <3>2. IsFiniteSet(Changed) /\ Cardinality(Changed) <= Cardinality({id})
      BY <2>1, <3>1, FS_Subset
    <3>3. Cardinality(Changed) \in Nat
      BY <3>2, FS_CardinalityType
    <3> QED
      BY <3>1, <3>2, <3>3
  <2> QED
    BY <1>1, <1>4, <2>2 DEF Counted
<1> QED
  BY <1>2, <1>3, <1>4

(* CountsAreTrue: what an answer says was deleted is gone, however much    *)
(* matched, and an answer never counts fewer documents than changed.       *)
THEOREM AnswersCount == CmdSpec => CountsAreTrue
<1>1. CmdInv /\ [CmdNext]_cmdVars => [Counted]_cmdVars
  <2> SUFFICES ASSUME CmdInv, CmdNext PROVE Counted \/ UNCHANGED cmdVars
    OBVIOUS
  <2>1. ASSUME NEW raws \in Batches, DoInsert(raws) PROVE Counted
    <3>1. answer'.cmd = "insert"
      BY <2>1 DEF DoInsert, Answer
    <3> QED
      BY <3>1 DEF Counted
  <2>2. ASSUME NEW f \in Fields \cup {IdKey}, DoIndex(f) PROVE Counted
    <3>1. answer'.cmd = "index"
      BY <2>2 DEF DoIndex, Answer
    <3> QED
      BY <3>1 DEF Counted
  <2>3. ASSUME NextIdElsewhere PROVE Counted
    <3>1. ID_COUNTER' # ID_COUNTER
      BY <2>3, IdAssumption DEF NextIdElsewhere, CmdInv, IInv
    <3> QED
      BY <3>1 DEF Counted
  <2> QED
    BY <2>1, <2>2, <2>3, UpdateCounted, ReplaceCounted, DeleteCounted, Zenon DEF CmdNext
<1>2. [][Counted]_cmdVars => CountsAreTrue
  BY PTL DEF Counted, CountsAreTrue
<1> QED
  BY <1>1, <1>2, AlwaysCmdInv, PTL DEF CmdSpec

(* The identifiers a batch draws are numbered as its documents come.       *)
LEMMA DrawnBySteps ==
  ASSUME NEW raws, NEW n \in Nat
  PROVE  /\ DrawnBy(raws, 0) = 0
         /\ \A i \in 0..n : DrawnBy(raws, i) \in Nat
         /\ \A i \in 1..n : /\ Draws(raws[i]) = 1 => DrawnBy(raws, i) = DrawnBy(raws, i - 1) + 1
                            /\ Draws(raws[i]) # 1 => DrawnBy(raws, i) = DrawnBy(raws, i - 1)
<1> DEFINE D(i) == {j \in 1..i : Draws(raws[j]) = 1}
<1>1. \A i : DrawnBy(raws, i) = Cardinality(D(i))
  BY DEF DrawnBy
<1>2. ASSUME NEW i \in 0..n PROVE IsFiniteSet(D(i)) /\ Cardinality(D(i)) \in Nat
  <2>1. IsFiniteSet(1..i) /\ D(i) \in SUBSET (1..i)
    BY FS_Interval
  <2> HIDE DEF D
  <2> QED
    BY <2>1, FS_Subset, FS_CardinalityType
<1>3. D(0) = {}
  OBVIOUS
<1>4. ASSUME NEW i \in 1..n
      PROVE  /\ Draws(raws[i]) = 1 => D(i) = D(i - 1) \cup {i}
             /\ Draws(raws[i]) # 1 => D(i) = D(i - 1)
             /\ i \notin D(i - 1) /\ i - 1 \in 0..n
  <2>1. \A j : j \in 1..i <=> j \in 1..(i - 1) \/ j = i
    OBVIOUS
  <2> QED
    BY <2>1
<1> HIDE DEF D
<1>5. ASSUME NEW i \in 1..n
      PROVE  /\ Draws(raws[i]) = 1 => Cardinality(D(i)) = Cardinality(D(i - 1)) + 1
             /\ Draws(raws[i]) # 1 => Cardinality(D(i)) = Cardinality(D(i - 1))
  <2>1. IsFiniteSet(D(i - 1)) /\ i \notin D(i - 1)
    BY <1>2, <1>4
  <2>2. Cardinality(D(i - 1) \cup {i}) = Cardinality(D(i - 1)) + 1
    BY <2>1, FS_AddElement
  <2> QED
    BY <1>4, <2>2
<1> QED
  BY <1>1, <1>2, <1>3, <1>5, FS_EmptySet

(* Every number up to the last one drawn is drawn by some document.        *)
LEMMA DrawnByAll ==
  ASSUME NEW raws, NEW n \in Nat, NEW k \in 1..DrawnBy(raws, n)
  PROVE  \E i \in 1..n : Draws(raws[i]) = 1 /\ DrawnBy(raws, i) = k
<1> DEFINE d(i) == DrawnBy(raws, i)
           Covers(h) == \A x \in 1..d(h) : \E i \in 1..h : Draws(raws[i]) = 1 /\ d(i) = x
           T == {h \in Nat : h <= n => Covers(h)}
<1>1. /\ d(0) = 0 /\ \A i \in 0..n : d(i) \in Nat
      /\ \A i \in 1..n : /\ Draws(raws[i]) = 1 => d(i) = d(i - 1) + 1
                         /\ Draws(raws[i]) # 1 => d(i) = d(i - 1)
  BY DrawnBySteps
<1> HIDE DEF d
<1>2. 0 \in T
  BY <1>1
<1>3. ASSUME NEW h \in Nat, h \in T PROVE h + 1 \in T
  <2> SUFFICES ASSUME h + 1 <= n PROVE Covers(h + 1)
    <3> HIDE DEF Covers
    <3> QED
      OBVIOUS
  <2>1. h <= n /\ h \in 0..n /\ h + 1 \in 1..n /\ h + 1 - 1 = h /\ h + 1 \in 0..n
    OBVIOUS
  <2>2. Covers(h)
    <3> HIDE DEF Covers
    <3> QED
      BY <1>3, <2>1
  <2> DEFINE g == h + 1
  <2>3. /\ Draws(raws[g]) = 1 => d(g) = d(h) + 1
        /\ Draws(raws[g]) # 1 => d(g) = d(h)
        /\ d(g) \in Nat /\ d(h) \in Nat
    BY <1>1, <2>1
  <2>4. g \in 1..g /\ \A i \in 1..h : i \in 1..g
    OBVIOUS
  <2> HIDE DEF g
  <2>5. ASSUME NEW x \in 1..d(g)
        PROVE  \E i \in 1..g : Draws(raws[i]) = 1 /\ d(i) = x
    <3>1. CASE x \in 1..d(h)
      <4>1. PICK i \in 1..h : Draws(raws[i]) = 1 /\ d(i) = x
        BY <2>2, <3>1
      <4> QED
        BY <2>4, <4>1
    <3>2. CASE x \notin 1..d(h)
      <4>1. Draws(raws[g]) = 1 /\ d(g) = x
        BY <2>3, <3>2
      <4> QED
        BY <2>4, <4>1
    <3> QED
      BY <3>1, <3>2
  <2>6. Covers(g)
    BY <2>5
  <2> QED
    BY <2>6 DEF g
<1> HIDE DEF T
<1>4. Nat \subseteq T
  BY <1>2, <1>3, Induction
<1>5. Covers(n)
  <2> HIDE DEF Covers
  <2>1. n \in T /\ n <= n
    BY <1>4
  <2> QED
    BY <2>1 DEF T
<1> QED
  BY <1>5 DEF d

(* Identifiers drawn one after another, sorted by when they were drawn.    *)
LEMMA DrawnRanked ==
  ASSUME NEW c \in Nat, NEW m \in Nat, c + m <= MaxId
  PROVE  InOrderDrawn({HexId[c + k] : k \in 1..m})
           = [k \in 1..m |-> HexId[c + k]]
<1> DEFINE T == {HexId[c + k] : k \in 1..m}
           before(x, y) == Drawn(x) < Drawn(y)
           R == {p \in T \X T : before(p[1], p[2])}
           r == Ranked(T, before)
           t == [k \in 1..m |-> HexId[c + k]]
<1>1. \A k \in 1..m : c + k \in 1..MaxId
  BY IdAssumption
<1>2. \A k \in 1..m : Drawn(HexId[c + k]) = c + k
  <2> TAKE k \in 1..m
  <2> DEFINE p == c + k
  <2>1. p \in 1..MaxId
    BY <1>1
  <2> HIDE DEF p
  <2>2. \A q \in 1..MaxId : HexId[q] = HexId[p] <=> q = p
    BY <2>1, IdAssumption
  <2>3. Drawn(HexId[p]) = p
    BY <2>1, <2>2 DEF Drawn
  <2> QED
    BY <2>3 DEF p
<1>3. \A x \in T : \E k \in 1..m : x = HexId[c + k] /\ Drawn(x) = c + k
  BY <1>2
<1>4. IsFiniteSet(T) /\ Cardinality(T) \in Nat
  <2> DEFINE e(k) == HexId[c + k]
  <2>1. IsFiniteSet(1..m) /\ T = {e(k) : k \in 1..m}
    BY FS_Interval
  <2> HIDE DEF e, T
  <2>2. \A k \in 1..m : e(k) \in T
    BY <2>1
  <2>3. t = [k \in 1..m |-> e(k)]
    BY DEF e
  <2> HIDE DEF t
  <2>4. t \in [1..m -> T]
    BY <2>2, <2>3
  <2>5. T = {t[k] : k \in 1..m}
    BY <2>1, <2>3
  <2>6. IsFiniteSet({t[k] : k \in 1..m})
    BY <2>1, <2>4, RangeIsFinite
  <2> QED
    BY <2>5, <2>6, FS_CardinalityType
<1>5. r = [k \in 1..Cardinality(T) |->
             CHOOSE x \in T : Cardinality({y \in T : before(y, x)}) = k - 1]
  BY DEF Ranked
<1>6. \A x, y \in T : <<x, y>> \in R <=> Drawn(x) < Drawn(y)
  OBVIOUS
<1>7. StrictOn(R, T) /\ TotalOn(R, T)
  <2>1. \A x \in T : Drawn(x) \in Int
    BY <1>3
  <2>2. \A x, y \in T : Drawn(x) = Drawn(y) => x = y
    BY <1>3
  <2> HIDE DEF R, T
  <2>3. StrictOn(R, T)
    BY <1>6, <2>1 DEF StrictOn
  <2>4. TotalOn(R, T)
    BY <1>6, <2>1, <2>2 DEF TotalOn
  <2> QED
    BY <2>3, <2>4
<1>8. \A x \in T : {y \in T : before(y, x)} = Lesser(T, R, x)
  <2> HIDE DEF R, T
  <2> QED
    BY <1>6 DEF Lesser
<1> HIDE DEF r, R, T, before
<1>9. ASSUME NEW k \in 1..Cardinality(T)
      PROVE  r[k] \in T /\ Cardinality(Lesser(T, R, r[k])) = k - 1
  <2>1. \A h \in 1..Cardinality(T) :
          \E x \in T : Cardinality(Lesser(T, R, x)) = h - 1
    BY <1>4, <1>7, RankExists
  <2>2. PICK w \in T : Cardinality(Lesser(T, R, w)) = k - 1
    BY <2>1
  <2>3. \E x \in T : Cardinality({y \in T : before(y, x)}) = k - 1
    BY <1>8, <2>2
  <2>4. r[k] = CHOOSE x \in T : Cardinality({y \in T : before(y, x)}) = k - 1
    BY <1>5
  <2>5. r[k] \in T /\ Cardinality({y \in T : before(y, r[k])}) = k - 1
    BY <2>3, <2>4
  <2> QED
    BY <1>8, <2>5
<1>10. r \in [1..Cardinality(T) -> T]
  BY <1>5, <1>9
<1>11. r \in Seq(T) /\ ToSet(r) = T /\ Ordered(r, R)
  BY <1>4, <1>7, <1>9, <1>10, RankedOrders
<1>12. t \in Seq(T) /\ Len(t) = m /\ \A k \in 1..m : t[k] = HexId[c + k] /\ t[k] \in T
  <2>0. \A k \in 1..m : HexId[c + k] \in T
    BY DEF T
  <2>1. t \in [1..m -> T] /\ \A k \in 1..m : t[k] = HexId[c + k]
    BY <2>0
  <2> HIDE DEF t
  <2> QED
    BY <2>1
<1> HIDE DEF t
<1>13. ToSet(t) = T
  <2>0. DOMAIN t = 1..m
    BY <1>12
  <2>1. \A x : x \in ToSet(t) <=> \E k \in 1..m : t[k] = x
    BY <2>0 DEF ToSet
  <2>2. \A x : x \in T <=> \E k \in 1..m : HexId[c + k] = x
    BY DEF T
  <2> QED
    BY <1>12, <2>1, <2>2
<1>14. Ordered(t, R)
  <2> SUFFICES ASSUME NEW i \in 1..m, NEW j \in 1..m, i < j
               PROVE  <<t[i], t[j]>> \in R
    BY <1>12 DEF Ordered
  <2>1. Drawn(t[i]) = c + i /\ Drawn(t[j]) = c + j
    BY <1>2, <1>12
  <2>2. c + i < c + j
    OBVIOUS
  <2> QED
    BY <1>6, <1>12, <2>1, <2>2
<1>15. r = t
  BY <1>7, <1>11, <1>12, <1>13, <1>14, OrderedUnique
<1>16. r = InOrderDrawn(T)
  BY DEF r, before, InOrderDrawn
<1> QED
  BY <1>15, <1>16 DEF t, T


(* What the answer of an insert promises.                                  *)
AnswersStored(raws) ==
  /\ IsInjective(answer'.ids) /\ Len(answer'.ids) = Len(raws)
  /\ \A i \in DOMAIN raws :
       /\ answer'.ids[i] \in DOMAIN docs' \ DOMAIN docs
       /\ docs'[answer'.ids[i]].body = raws[i].body

(* The identifier document i of a batch is stored under.                   *)
StoredAs(raws, i) ==
  IF raws[i].id # Absent THEN raws[i].id ELSE HexId[ID_COUNTER + DrawnBy(raws, i)]

(* A staged batch: every document has an identifier of its own, not stored *)
(* before, and the map gains exactly these documents.                      *)
LEMMA StagedBatch ==
  ASSUME CmdInv, NEW raws \in Batches,
         StagedUpTo(raws, Len(raws), DOMAIN docs), Write({}, StagedDocs(raws))
  PROVE  /\ \A i \in DOMAIN raws :
              /\ raws[i] # NotObject
              /\ StoredAs(raws, i) \notin DOMAIN docs
              /\ docs'[StoredAs(raws, i)].body = raws[i].body
         /\ \A i, j \in DOMAIN raws : i < j => StoredAs(raws, i) # StoredAs(raws, j)
         /\ DOMAIN docs' = DOMAIN docs \cup {StoredAs(raws, i) : i \in DOMAIN raws}
<1> DEFINE sid(i) == StoredAs(raws, i)
           ids == {sid(i) : i \in DOMAIN raws}
<1>1. Len(raws) \in Nat /\ DOMAIN raws = 1..Len(raws)
  BY BatchType
<1>2. ASSUME NEW i \in DOMAIN raws
      PROVE  /\ Staged(raws, i).err = "ok"
             /\ Staged(raws, i).doc.id \notin DOMAIN docs \cup StagedIds(raws, i - 1)
  <2>1. StagedError(raws, i, DOMAIN docs) = "ok"
    BY <1>1 DEF StagedUpTo
  <2> QED
    BY <2>1 DEF StagedError, InsertError
<1>3. ASSUME NEW i \in DOMAIN raws
      PROVE  /\ raws[i] # NotObject
             /\ Staged(raws, i).doc.id = sid(i) /\ Staged(raws, i).doc.body = raws[i].body
  BY <1>2 DEF Staged, NormalizeDoc, StoredAs
<1>4. \A i, j \in DOMAIN raws : i < j => sid(i) # sid(j)
  <2> SUFFICES ASSUME NEW i \in DOMAIN raws, NEW j \in DOMAIN raws, i < j
               PROVE  sid(i) # sid(j)
    OBVIOUS
  <2>1. i \in {h \in 1..(j - 1) : Staged(raws, h).err = "ok"}
    BY <1>1, <1>2
  <2>2. Staged(raws, i).doc.id \in StagedIds(raws, j - 1)
    BY <2>1 DEF StagedIds
  <2> QED
    BY <1>2, <1>3, <2>2
<1>5. ids = {Staged(raws, i).doc.id : i \in DOMAIN raws}
  <2> HIDE DEF sid
  <2> QED
    BY <1>3
<1> DEFINE at(id) == CHOOSE i \in DOMAIN raws : Staged(raws, i).doc.id = id
           new == StagedDocs(raws)
<1>6. new = [id \in ids |-> Staged(raws, at(id)).doc]
  BY <1>5 DEF StagedDocs
<1>7. ASSUME NEW i \in DOMAIN raws PROVE at(sid(i)) = i
  <2>1. at(sid(i)) \in DOMAIN raws /\ Staged(raws, at(sid(i))).doc.id = sid(i)
    BY <1>3
  <2> DEFINE j == at(sid(i))
  <2> HIDE DEF at
  <2>2. j \in DOMAIN raws /\ sid(j) = sid(i)
    BY <1>3, <2>1
  <2> HIDE DEF j, sid
  <2>3. ~(i < j) /\ ~(j < i) /\ i \in Int /\ j \in Int
    BY <1>1, <1>4, <2>2
  <2>4. i = j
    BY <2>3
  <2> QED
    BY <2>4 DEF j
<1> HIDE DEF at
<1>8. DOMAIN new = ids /\ \A i \in DOMAIN raws : sid(i) \in ids /\ new[sid(i)] = Staged(raws, i).doc
  <2> HIDE DEF sid, new
  <2>1. \A i \in DOMAIN raws : sid(i) \in ids
    OBVIOUS
  <2> HIDE DEF ids
  <2> QED
    BY <1>6, <1>7, <2>1
<1>9. Write({}, new)
  OBVIOUS
<1> HIDE DEF new, sid, ids
<1>10. DOMAIN docs' = (DOMAIN docs \ {}) \cup DOMAIN new
       /\ \A id \in DOMAIN new : docs'[id] = new[id]
  BY <1>9, WriteChanges
<1>11. \A i \in DOMAIN raws : docs'[sid(i)].body = raws[i].body
  BY <1>3, <1>8, <1>10
<1>12. \A i \in DOMAIN raws : sid(i) \notin DOMAIN docs /\ raws[i] # NotObject
  BY <1>2, <1>3
<1>13. DOMAIN docs' = DOMAIN docs \cup ids
  BY <1>8, <1>10
<1> QED
  BY <1>4, <1>11, <1>12, <1>13 DEF sid, ids

(* What the request did not name is what the counter drew, in that order.  *)
LEMMA GeneratedAreDrawn ==
  ASSUME CmdInv, NEW raws \in Batches,
         ID_COUNTER + DrawnBy(raws, Len(raws)) <= MaxId,
         StagedUpTo(raws, Len(raws), DOMAIN docs), Write({}, StagedDocs(raws))
  PROVE  Generated(raws, DOMAIN docs, DOMAIN docs')
           = [k \in 1..DrawnBy(raws, Len(raws)) |-> HexId[ID_COUNTER + k]]
<1> DEFINE sid(i) == StoredAs(raws, i)
           n == Len(raws)
           m == DrawnBy(raws, n)
           c == ID_COUNTER
           drawn == {HexId[c + k] : k \in 1..m}
           rest == (DOMAIN docs' \ DOMAIN docs) \ Explicit(raws)
<1>1. n \in Nat /\ DOMAIN raws = 1..n /\ raws \in [DOMAIN raws -> RawDocs]
  BY BatchType
<1>2. /\ \A i \in DOMAIN raws : raws[i] # NotObject /\ sid(i) \notin DOMAIN docs
      /\ \A i, j \in DOMAIN raws : i < j => sid(i) # sid(j)
      /\ DOMAIN docs' = DOMAIN docs \cup {sid(i) : i \in DOMAIN raws}
  BY StagedBatch
<1>3. m \in Nat /\ c \in Nat /\ c + m <= MaxId
  <2>1. \A i \in 0..n : DrawnBy(raws, i) \in Nat
    BY <1>1, DrawnBySteps
  <2> QED
    BY <1>1, <2>1, IdAssumption DEF CmdInv, IInv
<1>4. ASSUME NEW i \in DOMAIN raws
      PROVE  /\ raws[i].id = Absent => /\ Draws(raws[i]) = 1 /\ DrawnBy(raws, i) \in 1..m
                                       /\ sid(i) = HexId[c + DrawnBy(raws, i)]
             /\ raws[i].id # Absent => Draws(raws[i]) # 1 /\ sid(i) = raws[i].id
  <2>1. /\ DrawnBy(raws, i) \in Nat /\ DrawnBy(raws, i) <= m
        /\ Draws(raws[i]) = 1 => 1 <= DrawnBy(raws, i)
    BY <1>1, DrawnByBounds
  <2>2. Draws(raws[i]) = 1 <=> raws[i].id = Absent
    BY <1>2 DEF Draws
  <2> HIDE DEF m
  <2>3. Draws(raws[i]) = 1 => DrawnBy(raws, i) \in 1..m
    BY <1>3, <2>1
  <2> QED
    BY <2>2, <2>3 DEF StoredAs
<1>5. ASSUME NEW i \in DOMAIN raws, raws[i].id = Absent
      PROVE  sid(i) \in Ids /\ sid(i) \notin Explicit(raws)
  <2> DEFINE p == c + DrawnBy(raws, i)
  <2>1. p \in 1..MaxId /\ sid(i) = HexId[p]
    <3> HIDE DEF m, c, sid
    <3> QED
      BY <1>3, <1>4, <1>5, IdAssumption
  <2> HIDE DEF p, sid
  <2>2. sid(i) \in Ids
    BY <2>1, IdAssumption
  <2>3. ASSUME sid(i) \in Explicit(raws) PROVE FALSE
    <3>1. PICK j \in DOMAIN raws : raws[j].id = sid(i) /\ sid(i) # Absent
      BY <2>3 DEF Explicit
    <3>2. sid(j) = sid(i) /\ j # i
      BY <1>4, <1>5, <3>1
    <3> QED
      BY <1>1, <1>2, <3>2
  <2> QED
    BY <2>2, <2>3
<1>6. ASSUME NEW i \in DOMAIN raws, raws[i].id # Absent
      PROVE  sid(i) \in Explicit(raws)
  <2>1. raws[i] \in RawDocs /\ raws[i] # NotObject
    BY <1>1, <1>2
  <2>2. Staged(raws, i).err = "ok"
    <3>1. StagedError(raws, i, DOMAIN docs) = "ok"
      BY <1>1 DEF StagedUpTo
    <3> QED
      BY <3>1 DEF StagedError, InsertError
  <2>3. raws[i].id # NotString
    BY <2>2 DEF Staged, NormalizeDoc
  <2>4. sid(i) = raws[i].id
    BY <1>4, <1>6
  <2> HIDE DEF sid
  <2> QED
    BY <1>6, <2>3, <2>4 DEF Explicit
<1> HIDE DEF sid, m, c
<1>7. rest = drawn
  <2>1. ASSUME NEW x \in rest PROVE x \in drawn
    <3>1. PICK i \in DOMAIN raws : x = sid(i) /\ sid(i) \notin Explicit(raws)
      BY <1>2, <2>1
    <3>2. raws[i].id = Absent
      BY <1>6, <3>1
    <3>3. DrawnBy(raws, i) \in 1..m /\ x = HexId[c + DrawnBy(raws, i)]
      BY <1>4, <3>1, <3>2
    <3> QED
      BY <3>3
  <2>2. ASSUME NEW x \in drawn PROVE x \in rest
    <3>1. PICK k \in 1..m : x = HexId[c + k]
      BY <2>2
    <3>2. PICK i \in 1..n : Draws(raws[i]) = 1 /\ DrawnBy(raws, i) = k
      BY <1>1, <3>1, DrawnByAll DEF m
    <3>3. i \in DOMAIN raws /\ raws[i].id = Absent
      BY <1>1, <1>4, <3>2
    <3>4. x = sid(i)
      BY <1>4, <3>1, <3>2, <3>3
    <3>5. x \notin Explicit(raws) /\ x \notin DOMAIN docs /\ x \in DOMAIN docs'
      BY <1>2, <1>5, <3>3, <3>4
    <3> QED
      BY <3>5
  <2> QED
    BY <2>1, <2>2
<1>8. Generated(raws, DOMAIN docs, DOMAIN docs') = InOrderDrawn(rest)
  BY DEF Generated
<1>9. InOrderDrawn(drawn) = [k \in 1..m |-> HexId[c + k]]
  BY <1>3, DrawnRanked
<1> HIDE DEF rest, drawn
<1>10. Generated(raws, DOMAIN docs, DOMAIN docs') = [k \in 1..m |-> HexId[c + k]]
  BY <1>7, <1>8, <1>9
<1> QED
  BY <1>10 DEF m, c, n

(* A successful insert answers with the identifiers it stored.             *)
LEMMA InsertAnswers ==
  ASSUME CmdInv, NEW raws \in Batches, DoInsert(raws), answer'.status = "ok"
  PROVE  AnswersStored(raws)
<1>1. Len(raws) \in Nat /\ DOMAIN raws = 1..Len(raws)
  BY BatchType
<1>2. /\ ID_COUNTER + DrawnBy(raws, Len(raws)) <= MaxId
      /\ StagedUpTo(raws, Len(raws), DOMAIN docs) /\ Write({}, StagedDocs(raws))
  <2>1. InsertMany(raws) /\ reply'.err = "ok"
    BY DEF DoInsert, Answer
  <2> QED
    BY <2>1 DEF InsertMany, Fail, Reply
<1> DEFINE generated == Generated(raws, DOMAIN docs, DOMAIN docs')
           ids == InsertedIds(raws, DOMAIN docs, DOMAIN docs')
<1>3. answer'.ids = ids
  BY DEF DoInsert, Answer
<1>4. generated = [k \in 1..DrawnBy(raws, Len(raws)) |-> HexId[ID_COUNTER + k]]
  BY <1>2, GeneratedAreDrawn
<1>5. /\ \A i \in DOMAIN raws :
           /\ raws[i] # NotObject /\ StoredAs(raws, i) \notin DOMAIN docs
           /\ docs'[StoredAs(raws, i)].body = raws[i].body
      /\ \A i, j \in DOMAIN raws : i < j => StoredAs(raws, i) # StoredAs(raws, j)
      /\ DOMAIN docs' = DOMAIN docs \cup {StoredAs(raws, i) : i \in DOMAIN raws}
  BY <1>2, StagedBatch
<1>6. ids = [i \in DOMAIN raws |-> IF raws[i].id # Absent THEN raws[i].id
                                   ELSE generated[DrawnBy(raws, i)]]
  BY DEF InsertedIds
<1> HIDE DEF ids, generated
<1>7. ASSUME NEW i \in DOMAIN raws PROVE ids[i] = StoredAs(raws, i)
  <2>1. CASE raws[i].id # Absent
    BY <1>6, <2>1 DEF StoredAs
  <2>2. CASE raws[i].id = Absent
    <3> DEFINE k == DrawnBy(raws, i)
               m == DrawnBy(raws, Len(raws))
    <3>1. Draws(raws[i]) = 1
      BY <1>5, <2>2 DEF Draws
    <3>2. k \in Nat /\ m \in Nat /\ k <= m /\ 1 <= k
      BY <1>1, <3>1, DrawnByBounds
    <3>3. ids[i] = generated[k] /\ StoredAs(raws, i) = HexId[ID_COUNTER + k]
      BY <1>6, <2>2 DEF StoredAs
    <3>4. generated = [h \in 1..m |-> HexId[ID_COUNTER + h]]
      BY <1>4
    <3> HIDE DEF k, m
    <3>5. k \in 1..m
      BY <3>2
    <3>6. generated[k] = HexId[ID_COUNTER + k]
      BY <3>4, <3>5
    <3> QED
      BY <3>3, <3>6
  <2> QED
    BY <2>1, <2>2
<1> HIDE DEF StoredAs
<1>8. DOMAIN ids = 1..Len(raws)
  BY <1>1, <1>6
<1>9. Len(ids) = Len(raws)
  <2> DEFINE e(i) == IF raws[i].id # Absent THEN raws[i].id ELSE generated[DrawnBy(raws, i)]
             n == Len(raws)
  <2>1. ids = [i \in 1..n |-> e(i)] /\ n \in Nat
    BY <1>1, <1>6
  <2> HIDE DEF e, n
  <2>2. Len(ids) = n
    BY <2>1
  <2> QED
    BY <2>2 DEF n
<1>10. IsInjective(ids)
  <2> SUFFICES ASSUME NEW i \in DOMAIN raws, NEW j \in DOMAIN raws, ids[i] = ids[j]
               PROVE  i = j
    BY <1>1, <1>8 DEF IsInjective
  <2>1. ~(i < j) /\ ~(j < i)
    BY <1>5, <1>7
  <2> QED
    BY <1>1, <2>1
<1>11. ASSUME NEW i \in DOMAIN raws
       PROVE  ids[i] \in DOMAIN docs' \ DOMAIN docs /\ docs'[ids[i]].body = raws[i].body
  BY <1>5, <1>7
<1> QED
  BY <1>3, <1>9, <1>10, <1>11 DEF AnswersStored

(* InsertAnswersStoredIds: position by position, an insert answers with    *)
(* the identifiers its documents are stored under, whatever the request    *)
(* named and whatever the counter has drawn before.                        *)
THEOREM InsertsAnswerIds == CmdSpec => InsertAnswersStoredIds
<1> DEFINE Answered ==
             answer'.cmd = "insert" /\ answer'.status = "ok" /\ docs' # docs =>
               \A raws \in [1..answer'.count -> RawInputs] :
                 DoInsert(raws) => AnswersStored(raws)
<1>1. CmdInv /\ [CmdNext]_cmdVars => [Answered]_cmdVars
  <2> SUFFICES ASSUME CmdInv, CmdNext, answer'.cmd = "insert", answer'.status = "ok",
                      docs' # docs,
                      NEW raws \in [1..answer'.count -> RawInputs], DoInsert(raws)
               PROVE  AnswersStored(raws)
    OBVIOUS
  <2>1. answer'.count \in 0..MaxBatch
    <3>1. ASSUME NEW sent \in Batches, DoInsert(sent) PROVE answer'.count \in 0..MaxBatch
      <4>1. answer'.count = Len(sent) \/ answer'.count = 0
        BY <3>1 DEF DoInsert, Answer
      <4>2. Len(sent) \in 0..MaxBatch
        <5>1. PICK k \in 0..MaxBatch : sent \in [1..k -> RawInputs]
          BY DEF Batches
        <5>2. DOMAIN sent = 1..k
          BY <5>1
        <5>3. Len(sent) \in Nat /\ DOMAIN sent = 1..Len(sent)
          BY BatchType
        <5>4. k \in Nat
          BY InputAssumption
        <5> DEFINE n == Len(sent)
        <5>5. n \in Nat /\ 1..k = 1..n
          BY <5>2, <5>3
        <5> HIDE DEF n
        <5>6. k = n
          <6>1. ASSUME k < n PROVE FALSE
            <7>1. n \in 1..n /\ n \notin 1..k
              BY <5>4, <5>5, <6>1
            <7> QED
              BY <5>5, <7>1
          <6>2. ASSUME n < k PROVE FALSE
            <7>1. k \in 1..k /\ k \notin 1..n
              BY <5>4, <5>5, <6>2
            <7> QED
              BY <5>5, <7>1
          <6> QED
            BY <5>4, <5>5, <6>1, <6>2
        <5> QED
          BY <5>6 DEF n
      <4> QED
        BY <4>1, <4>2, InputAssumption
    <3>2. ASSUME NEW matched, NEW u, NEW many, DoUpdate(matched, u, many) PROVE FALSE
      BY <3>2 DEF DoUpdate, Answer
    <3>3. ASSUME NEW matched, NEW raw, DoReplace(matched, raw) PROVE FALSE
      BY <3>3 DEF DoReplace, Answer
    <3>4. ASSUME NEW matched, NEW many, DoDelete(matched, many) PROVE FALSE
      BY <3>4 DEF DoDelete, Answer
    <3>5. ASSUME NEW f, DoIndex(f) PROVE FALSE
      BY <3>5 DEF DoIndex, Answer
    <3>6. ~NextIdElsewhere
      BY DEF NextIdElsewhere, store
    <3> QED
      BY <3>1, <3>2, <3>3, <3>4, <3>5, <3>6, Zenon DEF CmdNext
  <2>2. raws \in Batches
    BY <2>1 DEF Batches
  <2> QED
    BY <2>2, InsertAnswers
<1>2. [][Answered]_cmdVars => InsertAnswersStoredIds
  BY PTL DEF InsertAnswersStoredIds, AnswersStored
<1> QED
  BY <1>1, <1>2, AlwaysCmdInv, PTL DEF CmdSpec
==============================================================================
