------------------------------ MODULE Documents ------------------------------
(***************************************************************************)
(* Documents, update specifications and the validation every write path of *)
(* the engine shares (engine/src/collection.rs): normalize_doc,            *)
(* normalize_replace, validate_update, apply_update and index_value.       *)
(*                                                                         *)
(* A stored document is a record [id, body]: its `_id` entry, kept apart   *)
(* because the code treats it apart, and a function from the other         *)
(* top-level field names to values.  Values are abstract; what the write   *)
(* paths tell apart about a value is given by the constants Numbers        *)
(* (Value::I64 or Value::F64), Dim (numeric arrays and their length) and   *)
(* Texts (strings and arrays of strings).  Dotted paths are left out: a    *)
(* field here is a top-level one, the only kind that can be indexed.       *)
(***************************************************************************)
EXTENDS Integers, FiniteSets

CONSTANTS
  Ids,        \* every string a document can carry as its `_id`
  HexId,      \* HexId[n]: the `_id` next_id() renders from counter value n
  MaxId,      \* bound: the last counter value a model draws
  Fields,     \* top-level field names other than `_id`
  IdKey,      \* the field name `_id`
  Values,     \* every value a field can hold
  Null,       \* Value::Null
  Missing,    \* the document has no such field
  Numbers,    \* the numeric values, what $inc applies to
  Plus,       \* Plus[a, b]: the sum $inc stores
  Dim,        \* Dim[v]: length of the numeric array v
  Texts,      \* the values text_tokens accepts
  Absent,     \* an incoming document without `_id`
  NotString,  \* an incoming document whose `_id` is not a string
  NotObject   \* an incoming document that is not an object

(* Generated identifiers are strings like any other (a client may send    *)
(* one as its own `_id`), and the rendering of the counter is injective.  *)
ASSUME IdAssumption ==
  /\ MaxId \in Nat
  /\ HexId \in [1..MaxId -> Ids]
  /\ \A m, n \in 1..MaxId : HexId[m] = HexId[n] => m = n
  /\ Absent \notin Ids /\ NotString \notin Ids

ASSUME ValueAssumption ==
  /\ IdKey \notin Fields
  /\ Null \in Values /\ Missing \notin Values
  /\ Numbers \subseteq Values /\ Texts \subseteq Values
  /\ Plus \in [Numbers \X Numbers -> Numbers]
  /\ DOMAIN Dim \subseteq Values
  /\ \A v \in DOMAIN Dim : Dim[v] \in Nat

-----------------------------------------------------------------------------
(* Documents.                                                              *)

Bodies == [Fields -> Values \cup {Missing}]
Docs == [id : Ids, body : Bodies]

(* What a caller may hand to a write path before it is validated.          *)
RawDocs == [id : Ids \cup {Absent, NotString}, body : Bodies] \cup {NotObject}

(* The value registered for field f: the field's, or Null when missing.    *)
IndexValue(doc, f) ==
  IF f = IdKey THEN doc.id
  ELSE IF doc.body[f] = Missing THEN Null ELSE doc.body[f]

(* A numeric array of exactly d elements.  A missing field is not one.     *)
IsVector(v, d) == v \in DOMAIN Dim /\ Dim[v] = d

(* How many identifiers validating `raw` takes from the generator.         *)
Draws(raw) == IF raw # NotObject /\ raw.id = Absent THEN 1 ELSE 0

(* Incoming document to stored document; `n` is the value the generator    *)
(* yields if the document needs an identifier.                             *)
NormalizeDoc(raw, n) ==
  IF raw = NotObject THEN [err |-> "NotAnObject"]
  ELSE IF raw.id = NotString THEN [err |-> "IdMustBeString"]
  ELSE [err |-> "ok",
        doc |-> [id   |-> IF raw.id = Absent THEN HexId[n] ELSE raw.id,
                 body |-> raw.body]]

(* Fault: the replacement keeps whatever `_id` it came with.               *)
NormalizeReplaceAnyId(id, raw) ==
  IF raw = NotObject THEN [err |-> "NotAnObject"]
  ELSE IF raw.id = NotString THEN [err |-> "IdMustBeString"]
  ELSE [err |-> "ok",
        doc |-> [id |-> IF raw.id = Absent THEN id ELSE raw.id, body |-> raw.body]]

(* A replacement for the document stored under `id`.                       *)
NormalizeReplace(id, raw) ==
  IF raw = NotObject THEN [err |-> "NotAnObject"]
  ELSE IF raw.id = NotString THEN [err |-> "IdMustBeString"]
  ELSE IF raw.id \notin {Absent, id} THEN [err |-> "IdMismatch"]
  ELSE [err |-> "ok", doc |-> [id |-> id, body |-> raw.body]]

-----------------------------------------------------------------------------
(* Update specifications.  One operator per field: the operators of a spec *)
(* apply in order, and operators on different fields commute.  `shape`     *)
(* says whether the spec is well formed: "bad" is what validate_update     *)
(* rejects (an unknown operator, a non-object operand, `_id` in $set or    *)
(* $inc); "bad_unset" is a $unset naming `_id` or with a malformed         *)
(* operand, which validate_update skips and only apply_update rejects.     *)

FieldOps == [op : {"keep", "set", "inc", "unset"}, arg : Values]

Updates ==
  [shape : {"ok", "bad", "bad_unset"}, ops : [Fields -> FieldOps]]

ValidUpdate(u) == u.shape # "bad"

(* $inc on a field holding v: it fails on an operand, or on a present      *)
(* value, that is not a number; a missing field becomes the operand.       *)
IncFails(v, arg) == arg \notin Numbers \/ v \notin Numbers \cup {Missing}

NewField(v, fop) ==
  CASE fop.op = "keep"  -> v
    [] fop.op = "set"   -> fop.arg
    [] fop.op = "inc"   -> IF v = Missing THEN fop.arg ELSE Plus[v, fop.arg]
    [] fop.op = "unset" -> Missing

UpdateFails(doc, u) ==
  \/ u.shape # "ok"
  \/ \E f \in Fields : u.ops[f].op = "inc" /\ IncFails(doc.body[f], u.ops[f].arg)

(* The updated document; only meaningful when the update does not fail.    *)
ApplyUpdate(doc, u) ==
  [doc EXCEPT !.body = [f \in Fields |-> NewField(doc.body[f], u.ops[f])]]
=============================================================================
