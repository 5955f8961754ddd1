---------------------------- MODULE MCAggregation ----------------------------
(***************************************************************************)
(* Aggregation of up to four documents in two groups, one of them keyed by *)
(* both 1 and 1.0; the third key, of a missing group field, is Null.       *)
(***************************************************************************)
EXTENDS Aggregation

Text == [rank |-> 3, lane |-> "Str", n |-> 0]

MCGroupKeys == {I64(1), F64(1)}
MCFieldValues == {I64(1), I64(2), F64(-1), F64(1), Text}
=============================================================================
