----------------------------- MODULE FieldIndex ------------------------------
(***************************************************************************)
(* The field indexes of a collection (engine/src/index.rs): per indexed    *)
(* field a Vec of (value, _id) entries sorted by value, ties by _id, found *)
(* by binary search.  The arrays refine the sets of entries of module      *)
(* Collection; the calls are those its write paths make.                   *)
(*                                                                         *)
(* A value stands for its rank in the engine's total order, and so does an *)
(* _id, which is a string value and outranks Null and the numbers.         *)
(***************************************************************************)
EXTENDS StdVec, SequencesExt

CONSTANTS
  Ids,     \* document identifiers, as ranks
  Fields,  \* field names other than `_id`
  IdKey,   \* the field name `_id`
  Values,  \* the values fields hold, as ranks
  Null,    \* Value::Null, the least rank
  Missing  \* the document has no such field

ASSUME RankAssumption ==
  /\ Ids \subseteq Int /\ Values \subseteq Int
  /\ Null \in Values /\ \A v \in Values \cup Ids : Null <= v
  /\ Missing \notin Values
  /\ IdKey \notin Fields

VARIABLES
  docs,   \* _id -> (field -> value or Missing)
  fields  \* indexed field -> its sorted entries

vars == <<docs, fields>>

Bodies == [Fields -> Values \cup {Missing}]

(* doc.get(field): the `_id` entry or the field's value, if present.       *)
Get(ds, id, f) == IF f = IdKey THEN id ELSE ds[id][f]

(* The value registered for the document: Null stands for a missing field. *)
IndexValue(ds, id, f) ==
  IF Get(ds, id, f) = Missing THEN Null ELSE Get(ds, id, f)

Entry(ds, id, f) == [value |-> IndexValue(ds, id, f), id |-> id]

Before(e1, e2) ==
  \/ e1.value < e2.value
  \/ e1.value = e2.value /\ e1.id < e2.id

-----------------------------------------------------------------------------
(* Fault: entries of one value are not ordered by _id.                     *)
InsertByValue(entries, e) ==
  InsertAt(entries, PartitionPoint(entries, LAMBDA x : x.value < e.value) + 1, e)

(* FieldIndex::insert, at the position that keeps the order.               *)
Insert(entries, e) ==
  InsertAt(entries, PartitionPoint(entries, LAMBDA x : Before(x, e)) + 1, e)

(* FieldIndex::remove: within the run of equal values, binary search on    *)
(* the _id; nothing is removed when the entry is not there.                *)
Remove1(entries, e) ==
  LET start == PartitionPoint(entries, LAMBDA x : x.value < e.value)
      end   == PartitionPoint(entries, LAMBDA x : x.value <= e.value)
      run   == SubSeq(entries, start + 1, end)
      i     == PartitionPoint(run, LAMBDA x : x.id < e.id) + 1
  IN  IF i <= Len(run) /\ run[i].id = e.id
      THEN RemoveAt(entries, start + i) ELSE entries

Sorted(entries) == \A p, q \in DOMAIN entries : p < q => Before(entries[p], entries[q])

(* FieldIndex::load: a fresh, sorted array of the documents' entries.      *)
Load(ds, f) ==
  CHOOSE entries \in SetToSeqs({Entry(ds, id, f) : id \in DOMAIN ds}) : Sorted(entries)

IndexDoc(fs, ds, id) == [f \in DOMAIN fs |-> Insert(fs[f], Entry(ds, id, f))]

DeindexDoc(fs, ds, id) == [f \in DOMAIN fs |-> Remove1(fs[f], Entry(ds, id, f))]

-----------------------------------------------------------------------------
(* Collection's use: an insert or a set_doc (deindex the old document,     *)
(* index the new one), a remove_doc, and index management.                 *)
Put(id, body) ==
  LET ds   == [i \in DOMAIN docs \cup {id} |-> IF i = id THEN body ELSE docs[i]]
      bare == IF id \in DOMAIN docs THEN DeindexDoc(fields, docs, id) ELSE fields
  IN  docs' = ds /\ fields' = IndexDoc(bare, ds, id)

RemoveDoc(id) ==
  /\ id \in DOMAIN docs
  /\ docs' = Restrict(docs, DOMAIN docs \ {id})
  /\ fields' = DeindexDoc(fields, docs, id)

CreateIndex(f) ==
  /\ fields' = [g \in DOMAIN fields \cup {f} |-> IF g = f THEN Load(docs, f) ELSE fields[g]]
  /\ UNCHANGED docs

DropIndex(f) ==
  /\ f \in DOMAIN fields
  /\ fields' = Restrict(fields, DOMAIN fields \ {f})
  /\ UNCHANGED docs

Init ==
  /\ docs = [id \in {} |-> Null]
  /\ fields = [f \in {IdKey} |-> <<>>]

Next ==
  \/ \E id \in Ids : RemoveDoc(id) \/ \E body \in Bodies : Put(id, body)
  \/ \E f \in Fields : CreateIndex(f) \/ DropIndex(f)

Spec == Init /\ [][Next]_vars

-----------------------------------------------------------------------------
TypeOK ==
  /\ DOMAIN docs \subseteq Ids /\ docs \in [DOMAIN docs -> Bodies]
  /\ IdKey \in DOMAIN fields /\ DOMAIN fields \subseteq Fields \cup {IdKey}
  /\ \A f \in DOMAIN fields :
       fields[f] \in Seq([value : Values \cup Ids, id : Ids])

(* Every index is, after any history of writes, exactly what a fresh load  *)
(* of the documents builds: sorted by value with ties by _id, one entry    *)
(* per document, with the value the document holds now.                    *)
IndexIsFreshLoad == \A f \in DOMAIN fields : fields[f] = Load(docs, f)
=============================================================================
