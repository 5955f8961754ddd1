---------------------------- MODULE MCCollection -----------------------------
(***************************************************************************)
(* Collection on a small instance: one field that can hold a number, a     *)
(* one-element numeric array or a string, three identifiers of which two   *)
(* are what the generator yields first, batches of up to two documents.    *)
(***************************************************************************)
EXTENDS Collection, TLC

CONSTANTS a, u, g1, g2, num, vec, txt

MCIds == {u, g1, g2}
MCHexId == <<g1, g2>>
MCFields == {a}
MCValues == {Null, num, vec, txt}
MCNumbers == {num}
MCPlus == [p \in {num} \X {num} |-> num]
MCDim == [v \in {vec} |-> 1]
MCTexts == {txt}

Raw(id, v) == [id |-> id, body |-> [f \in {a} |-> v]]

(* g1 is both generated and supplied by a caller.                          *)
MCRawInputs ==
  {Raw(Absent, vec), Raw(Absent, txt), Raw(u, Missing), Raw(u, vec),
   Raw(g1, num), Raw(g1, vec), Raw(NotString, vec), NotObject}

Update(shape, op, v) ==
  [shape |-> shape, ops |-> [f \in {a} |-> [op |-> op, arg |-> v]]]

MCUpdateInputs ==
  {Update("ok", "set", vec), Update("ok", "set", txt), Update("ok", "inc", num),
   Update("ok", "inc", txt), Update("ok", "unset", Null),
   Update("bad", "keep", Null), Update("bad_unset", "keep", Null)}
=============================================================================
