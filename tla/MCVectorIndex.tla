---------------------------- MODULE MCVectorIndex ----------------------------
(* VectorIndex with four documents and vectors of two floats.  The vectors *)
(* are unit vectors in fifths.  The queries are one nearer to the first,   *)
(* one at the same angle to both, the zero vector, and one of another      *)
(* length.  The text rankings are few, because the vector index yields     *)
(* every order of the documents by itself.                                 *)
EXTENDS VectorIndex
CONSTANTS v1, v2
MCVectors == {v1, v2}
MCUnit == [v \in MCVectors |-> IF v = v1 THEN <<5, 0>> ELSE <<3, 4>>]
MCQueries == {<<5, 0>>, <<2, 1>>, <<0, 0>>, <<5>>}
MCTextRanks == {<<>>, <<3>>, <<2, 1>>, <<4, 1, 3>>, <<1, 2, 3, 4>>}
=============================================================================
