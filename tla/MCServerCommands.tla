-------------------------- MODULE MCServerCommands ---------------------------
(* ServerCommands with three identifiers, two of them the generator's and    *)
(* one of these also sent by clients, and batches of up to three documents.  *)
EXTENDS ServerCommands

CONSTANTS a, u, g1, g2, num, vec

MCIds == {u, g1, g2}
MCHexId == <<g1, g2>>
MCFields == {a}
MCValues == {Null, num, vec}
MCNumbers == {num}
MCPlus == [p \in {num} \X {num} |-> num]
MCDim == [v \in {vec} |-> 1]

Raw(id, v) == [id |-> id, body |-> [f \in {a} |-> v]]

MCRawInputs == {Raw(Absent, vec), Raw(Absent, num), Raw(u, vec), Raw(g1, num), NotObject}

Update(op, v) == [shape |-> "ok", ops |-> [f \in {a} |-> [op |-> op, arg |-> v]]]

MCUpdateInputs == {Update("set", num), Update("inc", num)}
=============================================================================
