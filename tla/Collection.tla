----------------------------- MODULE Collection ------------------------------
(***************************************************************************)
(* One collection of the engine (engine/src/collection.rs): the document   *)
(* map and its three index layers, kept in step by every write path.       *)
(*                                                                         *)
(* Every method that changes state takes `&mut self`, so a call is one     *)
(* action.  What is hard is inside the call: which entries a write path    *)
(* takes out of and puts into which layer, what has been changed when it   *)
(* returns an error half-way, and that calls compose over any history of   *)
(* index creation, drops and writes.                                       *)
(*                                                                         *)
(* A filter can select any set of stored documents ({_id: {$in: [...]}}),  *)
(* and a HashMap yields them in any order; a filter is therefore the set   *)
(* it matches, and "the first match" any member of it.  How a filter is    *)
(* evaluated, and through which index, is the query layer's.  Here a       *)
(* field index is the set of its (value, _id) entries, a vector or text    *)
(* index the set of documents that have an entry in it; modules FieldIndex,*)
(* VectorIndex and TextIndex refine the three into their arrays.           *)
(***************************************************************************)
EXTENDS Documents, Sequences, Functions

CONSTANTS
  RawInputs,     \* the incoming documents callers hand in
  UpdateInputs,  \* the update specifications callers hand in
  Dims,          \* the dimensions callers configure vector indexes with
  MaxBatch       \* bound: longest insert_many batch

ASSUME InputAssumption ==
  /\ RawInputs \subseteq RawDocs
  /\ UpdateInputs \subseteq Updates
  /\ Dims \subseteq Nat
  /\ MaxBatch \in Nat

VARIABLES
  docs,            \* _id -> document
  indexes,         \* field -> set of <<value, _id>> entries
  vector_indexes,  \* field -> [dim, ids]
  text_indexes,    \* field -> set of _ids
  ID_COUNTER,      \* the process-wide identifier counter
  reply            \* what the last call returned

layers == <<indexes, vector_indexes, text_indexes>>
store == <<docs, layers>>
vars == <<docs, indexes, vector_indexes, text_indexes, ID_COUNTER, reply>>

Errors == {"NotAnObject", "IdMustBeString", "DuplicateId", "IdMismatch",
           "NoIndex", "PrimaryIndex", "NoMatch", "InvalidUpdate",
           "VectorDimMismatch"}

Reply(call, err, n) == reply' = [call |-> call, err |-> err, n |-> n]

(* The call returned an error and changed nothing.                         *)
Fail(call, err) == UNCHANGED store /\ Reply(call, err, 0)

-----------------------------------------------------------------------------
(* Index maintenance.                                                      *)

(* The entries documents `ds` (a function from _ids) have in field f's     *)
(* index.                                                                  *)
Entries(ds, f) == {<<IndexValue(ds[id], f), id>> : id \in DOMAIN ds}

VectorIds(ds, f, d) == {id \in DOMAIN ds : IsVector(ds[id].body[f], d)}

TextIds(ds, f) == {id \in DOMAIN ds : ds[id].body[f] \in Texts}

(* check_vectors: a vector-indexed field that is present must be a numeric *)
(* array of the index's dimension.                                         *)
BadVector(doc) ==
  \E f \in DOMAIN vector_indexes :
    /\ doc.body[f] # Missing
    /\ ~IsVector(doc.body[f], vector_indexes[f].dim)

(* The common tail of every write path: the entries of the documents       *)
(* `gone` leave each layer, those of `new` enter it, and the map follows.  *)
(* insert: Write({}, id :> doc); set_doc: Write({id}, id :> doc);          *)
(* remove_doc: Write({id}, <<>>).                                          *)
DocsAfter(gone, new) ==
  [id \in (DOMAIN docs \ gone) \cup DOMAIN new |->
     IF id \in DOMAIN new THEN new[id] ELSE docs[id]]

(* Fault: the new entries go in, the old ones stay.                        *)
IndexesAfterStale(gone, new) ==
  [f \in DOMAIN indexes |-> indexes[f] \cup Entries(new, f)]

IndexesAfter(gone, new) ==
  [f \in DOMAIN indexes |->
     (indexes[f] \ Entries(Restrict(docs, gone), f)) \cup Entries(new, f)]

VectorsAfter(gone, new) ==
  [f \in DOMAIN vector_indexes |->
     [vector_indexes[f] EXCEPT
        !.ids = (@ \ gone) \cup VectorIds(new, f, vector_indexes[f].dim)]]

TextsAfter(gone, new) ==
  [f \in DOMAIN text_indexes |-> (text_indexes[f] \ gone) \cup TextIds(new, f)]

Write(gone, new) ==
  /\ docs' = DocsAfter(gone, new)
  /\ indexes' = IndexesAfter(gone, new)
  /\ vector_indexes' = VectorsAfter(gone, new)
  /\ text_indexes' = TextsAfter(gone, new)

-----------------------------------------------------------------------------
(* insert and insert_many.                                                 *)

InsertError(n, taken) ==
  IF n.err # "ok" THEN n.err
  ELSE IF n.doc.id \in taken THEN "DuplicateId"
  ELSE IF BadVector(n.doc) THEN "VectorDimMismatch" ELSE "ok"

Insert(raw) ==
  /\ ID_COUNTER + Draws(raw) <= MaxId
  /\ LET n == NormalizeDoc(raw, ID_COUNTER + 1)
         err == InsertError(n, DOMAIN docs)
     IN  \/ /\ err # "ok"
            /\ Fail("insert", err)
         \/ /\ err = "ok"
            /\ Write({}, [id \in {n.doc.id} |-> n.doc])
            /\ Reply("insert", "ok", 1)
  /\ ID_COUNTER' = ID_COUNTER + Draws(raw)

(* The identifiers the first k documents of the batch draw.                *)
DrawnBy(raws, k) == Cardinality({j \in 1..k : Draws(raws[j]) = 1})

Staged(raws, i) == NormalizeDoc(raws[i], ID_COUNTER + DrawnBy(raws, i))

(* The identifiers of the first k documents, staged.                       *)
StagedIds(raws, k) ==
  {Staged(raws, j).doc.id : j \in {h \in 1..k : Staged(raws, h).err = "ok"}}

(* The staging loop's verdict on document i, those before it being staged; *)
(* `taken` are the identifiers it may not reuse in any case.               *)
StagedError(raws, i, taken) ==
  InsertError(Staged(raws, i), taken \cup StagedIds(raws, i - 1))

StagedUpTo(raws, k, taken) ==
  \A i \in 1..k : StagedError(raws, i, taken) = "ok"

StagedDocs(raws) ==
  LET at(id) == CHOOSE i \in DOMAIN raws : Staged(raws, i).doc.id = id
  IN  [id \in {Staged(raws, i).doc.id : i \in DOMAIN raws} |-> Staged(raws, at(id)).doc]

(* Fault: documents are stored as they are validated.                      *)
InsertManyOneByOne(raws) ==
  /\ ID_COUNTER + DrawnBy(raws, Len(raws)) <= MaxId
  /\ \/ \E i \in DOMAIN raws :
          /\ StagedUpTo(raws, i - 1, DOMAIN docs)
          /\ StagedError(raws, i, DOMAIN docs) # "ok"
          /\ Write({}, StagedDocs(SubSeq(raws, 1, i - 1)))
          /\ Reply("insert_many", StagedError(raws, i, DOMAIN docs), 0)
          /\ ID_COUNTER' = ID_COUNTER + DrawnBy(raws, i)
     \/ /\ StagedUpTo(raws, Len(raws), DOMAIN docs)
        /\ Write({}, StagedDocs(raws))
        /\ Reply("insert_many", "ok", Len(raws))
        /\ ID_COUNTER' = ID_COUNTER + DrawnBy(raws, Len(raws))

InsertMany(raws) ==
  /\ ID_COUNTER + DrawnBy(raws, Len(raws)) <= MaxId
  /\ \/ \E i \in DOMAIN raws :
          /\ StagedUpTo(raws, i - 1, DOMAIN docs)
          /\ StagedError(raws, i, DOMAIN docs) # "ok"
          /\ Fail("insert_many", StagedError(raws, i, DOMAIN docs))
          /\ ID_COUNTER' = ID_COUNTER + DrawnBy(raws, i)
     \/ /\ StagedUpTo(raws, Len(raws), DOMAIN docs)
        /\ Write({}, StagedDocs(raws))
        /\ Reply("insert_many", "ok", Len(raws))
        /\ ID_COUNTER' = ID_COUNTER + DrawnBy(raws, Len(raws))

-----------------------------------------------------------------------------
(* set_doc, and the replace and update calls built on it.                  *)

(* Fault: a replacement is not checked against the vector indexes.         *)
SetDocErrorUnchecked(id, raw) == NormalizeReplace(id, raw).err

SetDocError(id, raw) ==
  LET n == NormalizeReplace(id, raw)
  IN  IF n.err # "ok" THEN n.err
      ELSE IF BadVector(n.doc) THEN "VectorDimMismatch" ELSE "ok"

(* set_doc on a stored id, on behalf of `call`.                            *)
SetStored(call, id, raw) ==
  \/ /\ SetDocError(id, raw) # "ok"
     /\ Fail(call, SetDocError(id, raw))
  \/ /\ SetDocError(id, raw) = "ok"
     /\ Write({id}, [i \in {id} |-> NormalizeReplace(id, raw).doc])
     /\ Reply(call, "ok", 1)

SetDoc(id, raw) ==
  /\ \/ id \notin DOMAIN docs /\ UNCHANGED store /\ Reply("set_doc", "ok", 0)
     \/ id \in DOMAIN docs /\ SetStored("set_doc", id, raw)
  /\ UNCHANGED ID_COUNTER

ReplaceOne(matched, raw) ==
  /\ \/ matched = {} /\ Fail("replace_one", "NoMatch")
     \/ \E id \in matched : SetStored("replace_one", id, raw)
  /\ UNCHANGED ID_COUNTER

UpdateOne(matched, u) ==
  /\ \/ matched = {} /\ Fail("update_one", "NoMatch")
     \/ \E id \in matched :
          \/ UpdateFails(docs[id], u) /\ Fail("update_one", "InvalidUpdate")
          \/ /\ ~UpdateFails(docs[id], u)
             /\ SetStored("update_one", id, ApplyUpdate(docs[id], u))
  /\ UNCHANGED ID_COUNTER

UpdateError(id, u) ==
  IF UpdateFails(docs[id], u) THEN "InvalidUpdate"
  ELSE SetDocError(id, ApplyUpdate(docs[id], u))

Updated(ids, u) ==
  [id \in ids |-> NormalizeReplace(id, ApplyUpdate(docs[id], u)).doc]

(* The loop stops at the first document it cannot update; those it visited *)
(* before, any set of updatable ones, stay updated.                        *)
UpdateMany(matched, u) ==
  LET bad == {id \in matched : UpdateError(id, u) # "ok"}
  IN  /\ \/ ~ValidUpdate(u) /\ Fail("update_many", "InvalidUpdate")
         \/ /\ ValidUpdate(u) /\ bad = {}
            /\ Write(matched, Updated(matched, u))
            /\ Reply("update_many", "ok", Cardinality(matched))
         \/ /\ ValidUpdate(u)
            /\ \E id \in bad, done \in SUBSET (matched \ bad) :
                 /\ Write(done, Updated(done, u))
                 /\ Reply("update_many", UpdateError(id, u), 0)
      /\ UNCHANGED ID_COUNTER

-----------------------------------------------------------------------------
(* Deletes: remove_doc on each matched document.                           *)

RemoveEach(call, ids) ==
  /\ Write(ids, Restrict(docs, {}))
  /\ Reply(call, "ok", Cardinality(ids))
  /\ UNCHANGED ID_COUNTER

RemoveDoc(id) == RemoveEach("remove_doc", {id} \cap DOMAIN docs)

DeleteOne(matched) ==
  \/ matched = {} /\ RemoveEach("delete_one", {})
  \/ \E id \in matched : RemoveEach("delete_one", {id})

DeleteMany(matched) == RemoveEach("delete_many", matched)

-----------------------------------------------------------------------------
(* Index management.                                                       *)

With(layer, f, ix) ==
  [g \in DOMAIN layer \cup {f} |-> IF g = f THEN ix ELSE layer[g]]

Without(layer, f) == Restrict(layer, DOMAIN layer \ {f})

CreateIndex(f) ==
  /\ indexes' = IF f = IdKey THEN indexes ELSE With(indexes, f, Entries(docs, f))
  /\ Reply("create_index", "ok", 0)
  /\ UNCHANGED <<docs, vector_indexes, text_indexes, ID_COUNTER>>

(* Fault: the primary index can be dropped.                                *)
DropIndexAny(f) ==
  /\ \/ f \notin DOMAIN indexes /\ Fail("drop_index", "NoIndex")
     \/ /\ f \in DOMAIN indexes
        /\ indexes' = Without(indexes, f)
        /\ Reply("drop_index", "ok", 0)
        /\ UNCHANGED <<docs, vector_indexes, text_indexes>>
  /\ UNCHANGED ID_COUNTER

DropIndex(f) ==
  /\ \/ f = IdKey /\ Fail("drop_index", "PrimaryIndex")
     \/ f # IdKey /\ f \notin DOMAIN indexes /\ Fail("drop_index", "NoIndex")
     \/ /\ f # IdKey /\ f \in DOMAIN indexes
        /\ indexes' = Without(indexes, f)
        /\ Reply("drop_index", "ok", 0)
        /\ UNCHANGED <<docs, vector_indexes, text_indexes>>
  /\ UNCHANGED ID_COUNTER

CreateVectorIndex(f, d) ==
  /\ vector_indexes' =
       With(vector_indexes, f, [dim |-> d, ids |-> VectorIds(docs, f, d)])
  /\ Reply("create_vector_index", "ok", 0)
  /\ UNCHANGED <<docs, indexes, text_indexes, ID_COUNTER>>

DropVectorIndex(f) ==
  /\ vector_indexes' = Without(vector_indexes, f)
  /\ Reply("drop_vector_index", "ok", 0)
  /\ UNCHANGED <<docs, indexes, text_indexes, ID_COUNTER>>

CreateTextIndex(f) ==
  /\ text_indexes' = With(text_indexes, f, TextIds(docs, f))
  /\ Reply("create_text_index", "ok", 0)
  /\ UNCHANGED <<docs, indexes, vector_indexes, ID_COUNTER>>

DropTextIndex(f) ==
  /\ text_indexes' = Without(text_indexes, f)
  /\ Reply("drop_text_index", "ok", 0)
  /\ UNCHANGED <<docs, indexes, vector_indexes, ID_COUNTER>>

(* Rebuild every field and text index from the documents; the vector       *)
(* indexes are not among those it rebuilds.  An index is a set here, so    *)
(* that this finds what Lockstep says: what a rebuild does to the order of *)
(* the arrays is Load of FieldIndex and of TextIndex, where it repairs a   *)
(* posting list, and that it repairs no vector index is in VectorIndex.    *)
Reindex ==
  /\ indexes' = [f \in DOMAIN indexes |-> Entries(docs, f)]
  /\ text_indexes' = [f \in DOMAIN text_indexes |-> TextIds(docs, f)]
  /\ Reply("reindex", "ok", Cardinality(DOMAIN indexes))
  /\ UNCHANGED <<docs, vector_indexes, ID_COUNTER>>

(* Another collection of the process draws an identifier.                  *)
NextIdElsewhere ==
  /\ ID_COUNTER < MaxId
  /\ ID_COUNTER' = ID_COUNTER + 1
  /\ UNCHANGED <<store, reply>>

-----------------------------------------------------------------------------
Init ==
  /\ docs = [id \in {} |-> Null]
  /\ indexes = [f \in {IdKey} |-> {}]
  /\ vector_indexes = [f \in {} |-> Null]
  /\ text_indexes = [f \in {} |-> Null]
  /\ ID_COUNTER = 0
  /\ reply = [call |-> "new", err |-> "ok", n |-> 0]

Batches == UNION {[1..n -> RawInputs] : n \in 0..MaxBatch}

DocumentCall ==
  \/ \E raw \in RawInputs : Insert(raw)
  \/ \E raws \in Batches : InsertMany(raws)
  \/ \E id \in Ids, raw \in RawInputs : SetDoc(id, raw)
  \/ \E id \in Ids : RemoveDoc(id)

FilterCall ==
  \E matched \in SUBSET DOMAIN docs :
    \/ \E raw \in RawInputs : ReplaceOne(matched, raw)
    \/ \E u \in UpdateInputs : UpdateOne(matched, u) \/ UpdateMany(matched, u)
    \/ DeleteOne(matched)
    \/ DeleteMany(matched)

IndexCall ==
  \/ \E f \in Fields \cup {IdKey} : CreateIndex(f) \/ DropIndex(f)
  \/ \E f \in Fields :
       \/ \E d \in Dims : CreateVectorIndex(f, d)
       \/ DropVectorIndex(f)
       \/ CreateTextIndex(f)
       \/ DropTextIndex(f)
  \/ Reindex

Next == DocumentCall \/ FilterCall \/ IndexCall \/ NextIdElsewhere

Spec == Init /\ [][Next]_vars

-----------------------------------------------------------------------------
(* Types.                                                                  *)

IndexedFields == Fields \cup {IdKey}

VectorIndexes == [dim : Dims, ids : SUBSET Ids]

TypeOK ==
  /\ DOMAIN docs \subseteq Ids /\ docs \in [DOMAIN docs -> Docs]
  /\ IdKey \in DOMAIN indexes /\ DOMAIN indexes \subseteq IndexedFields
  /\ indexes \in [DOMAIN indexes -> SUBSET ((Values \cup Ids) \X Ids)]
  /\ DOMAIN vector_indexes \subseteq Fields
  /\ vector_indexes \in [DOMAIN vector_indexes -> VectorIndexes]
  /\ DOMAIN text_indexes \subseteq Fields
  /\ text_indexes \in [DOMAIN text_indexes -> SUBSET Ids]
  /\ ID_COUNTER \in 0..MaxId

-----------------------------------------------------------------------------
(* Safety.                                                                 *)

(* The map's key is the document's own `_id`: no write path, replacement   *)
(* or update can store a document under another document's key.            *)
KeyIsId == \A id \in DOMAIN docs : docs[id].id = id

(* Every field index holds exactly one entry per stored document, with the *)
(* value the document has now (Null when the field is missing), whatever   *)
(* was written, rejected or half-applied since the index was created.      *)
IndexLockstep == \A f \in DOMAIN indexes : indexes[f] = Entries(docs, f)

(* A vector index covers exactly the documents whose field is a numeric    *)
(* array of its dimension, including those stored before it was created.   *)
VectorLockstep ==
  \A f \in DOMAIN vector_indexes :
    vector_indexes[f].ids = VectorIds(docs, f, vector_indexes[f].dim)

(* A text index covers exactly the documents whose field holds text.       *)
TextLockstep ==
  \A f \in DOMAIN text_indexes : text_indexes[f] = TextIds(docs, f)

(* The three layers agree with the documents after any history of writes,  *)
(* index creations and drops, and calls that fail half-way.                *)
Lockstep == IndexLockstep /\ VectorLockstep /\ TextLockstep

(* A call that reports an error has changed neither the documents nor any  *)
(* index.  update_many is excepted: see UpdateManyAllOrNothing.            *)
FailedCallChangesNothing ==
  [][reply'.err # "ok" /\ reply'.call # "update_many" => UNCHANGED store]_vars

(* While a field is vector-indexed no write stores a document whose field  *)
(* is present but not a vector of the dimension, though documents stored   *)
(* before the index was created may hold one.                              *)
WritesRespectVectors ==
  [][\A f \in DOMAIN vector_indexes, id \in DOMAIN docs' :
       (id \notin DOMAIN docs \/ docs'[id] # docs[id])
         => \/ docs'[id].body[f] = Missing
            \/ IsVector(docs'[id].body[f], vector_indexes[f].dim)]_vars

(* A failed update_many leaves every document as it was.                   *)
UpdateManyAllOrNothing ==
  [][reply'.call = "update_many" /\ reply'.err # "ok" => UNCHANGED docs]_vars
=============================================================================
