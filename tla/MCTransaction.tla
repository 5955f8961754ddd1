--------------------------- MODULE MCTransaction -----------------------------
(***************************************************************************)
(* Transaction on a small instance: two identifiers, one of them the       *)
(* generator's first, so that a batch can fail at its second op.           *)
(***************************************************************************)
EXTENDS Transaction, TLC

CONSTANTS a, u, g1, num, vec

MCIds == {u, g1}
MCHexId == <<g1>>
MCFields == {a}
MCValues == {Null, num, vec}
MCNumbers == {num}
MCPlus == [p \in {num} \X {num} |-> num]
MCDim == [v \in {vec} |-> 1]

Raw(id, v) == [id |-> id, body |-> [f \in {a} |-> v]]

MCRawInputs ==
  {Raw(Absent, vec), Raw(u, Missing), Raw(u, vec), Raw(g1, num), NotObject}

Update(shape, op, v) ==
  [shape |-> shape, ops |-> [f \in {a} |-> [op |-> op, arg |-> v]]]

MCUpdateInputs ==
  {Update("ok", "set", num), Update("ok", "inc", num), Update("ok", "unset", Null),
   Update("bad", "keep", Null)}
=============================================================================
