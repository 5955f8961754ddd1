----------------------------- MODULE MCTextIndex -----------------------------
(* TextIndex with three documents over two stems.                           *)
EXTENDS TextIndex
CONSTANTS d1, d2, d3, moo, cow, MaxLen
MCIds == {d1, d2, d3}
MCTerms == {moo, cow}
(* Texts of at most MaxLen tokens, the empty one included.                    *)
MCTexts == {x \in [MCTerms -> 0..MaxLen] : SumFunction(x) <= MaxLen}
=============================================================================
