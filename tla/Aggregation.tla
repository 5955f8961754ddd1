----------------------------- MODULE Aggregation -----------------------------
(***************************************************************************)
(* Aggregation (engine/src/agg.rs): one pass over a query's stream of      *)
(* documents collects (group key, field value) pairs, a stable sort by key *)
(* makes each group a contiguous run, and one result document is made per  *)
(* run.                                                                    *)
(*                                                                         *)
(* The state is the pass: `pairs`, one longer at each step.  What agg()    *)
(* would return if the stream ended there is an operator over it.          *)
(*                                                                         *)
(* A value is [rank, lane, n]: its band in the total order, its type, and  *)
(* its place within the band.  For a number n is the number: floats are    *)
(* those that are integers, whose sums are exact.                          *)
(***************************************************************************)
EXTENDS StdVec, SequencesExt

CONSTANTS
  GroupKeys,    \* values of the group field
  FieldValues,  \* values of the aggregated field
  Missing,      \* the document has no such field
  MaxI64,       \* largest I64; the smallest is -MaxI64 - 1
  MaxStream     \* bound: longest stream

Lanes == {"Null", "Bool", "I64", "F64", "Str", "Array", "Object"}
Value == [rank : Int, lane : Lanes, n : Int]

(* Missing is no value.                                                    *)
ASSUME AggAssumption ==
  /\ GroupKeys \subseteq Value /\ FieldValues \subseteq Value
  /\ Missing \notin Value
  /\ MaxI64 \in Nat /\ MaxStream \in Nat

VARIABLE pairs  \* <<key, value or Missing>>, in stream order

NullValue == [rank |-> 0, lane |-> "Null", n |-> 0]
I64(k) == [rank |-> 2, lane |-> "I64", n |-> k]
F64(k) == [rank |-> 2, lane |-> "F64", n |-> k]

(* Value's total order; 1 and 1.0 are equal in it.                         *)
Less(v, w) == v.rank < w.rank \/ (v.rank = w.rank /\ v.n < w.n)
Same(v, w) == v.rank = w.rank /\ v.n = w.n

IsNumber(v) == v # Missing /\ v.lane \in {"I64", "F64"}

-----------------------------------------------------------------------------
(* Grouping.                                                               *)

(* Fault: the sort is not stable.                                          *)
ByKeyUnstable ==
  LET before(i, j) == \/ Less(pairs[i][1], pairs[j][1])
                      \/ Same(pairs[i][1], pairs[j][1]) /\ i > j
      order == Ranked(DOMAIN pairs, before)
  IN  [k \in DOMAIN order |-> pairs[order[k]]]

(* The stable sort of the pairs by key.                                    *)
ByKey ==
  LET before(i, j) == \/ Less(pairs[i][1], pairs[j][1])
                      \/ Same(pairs[i][1], pairs[j][1]) /\ i < j
      order == Ranked(DOMAIN pairs, before)
  IN  [k \in DOMAIN order |-> pairs[order[k]]]

(* Where a run of equal keys starts.                                       *)
Starts(sorted) ==
  {i \in DOMAIN sorted : i = 1 \/ ~Same(sorted[i][1], sorted[i - 1][1])}

(* The runs, in order: each goes up to the next.                           *)
RunsOf(sorted) ==
  LET first  == Ranked(Starts(sorted), <)
      end(k) == IF k = Len(first) THEN Len(sorted) ELSE first[k + 1] - 1
  IN  [k \in DOMAIN first |-> SubSeq(sorted, first[k], end(k))]

Runs == RunsOf(ByKey)

FieldsOf(run) == [i \in DOMAIN run |-> run[i][2]]

Present(run) == Filtered(FieldsOf(run), ToSet(FieldsOf(run)) \ {Missing})

OrNull(v) == IF v = Missing THEN NullValue ELSE v

-----------------------------------------------------------------------------
(* sum and mean: an integer and a float accumulator, the float one in use  *)
(* from the first float on.                                                *)

Zero == [int |-> 0, flt |-> 0, seen |-> FALSE]

(* Fault: integers after a float reach the integer accumulator only.       *)
AddNumericIntOnly(acc, v) ==
  IF ~IsNumber(v) THEN acc
  ELSE IF v.lane = "I64" THEN [acc EXCEPT !.int = @ + v.n]
  ELSE [acc EXCEPT !.seen = TRUE,
                   !.flt = (IF @ = 0 /\ acc.int # 0 THEN acc.int ELSE @) + v.n]

(* add_numeric: a float finding the float accumulator at zero adds the     *)
(* integer one to it, whether or not it is the first float.                *)
AddNumeric(acc, v) ==
  IF ~IsNumber(v) THEN acc
  ELSE IF v.lane = "I64"
  THEN [acc EXCEPT !.int = @ + v.n, !.flt = IF acc.seen THEN @ + v.n ELSE @]
  ELSE [acc EXCEPT !.seen = TRUE,
                   !.flt = (IF @ = 0 /\ acc.int # 0 THEN acc.int ELSE @) + v.n]

(* The accumulators after each of a run's documents.                       *)
Accumulated(run) ==
  LET acc[k \in 0..Len(run)] == IF k = 0 THEN Zero ELSE AddNumeric(acc[k - 1], run[k][2])
  IN  acc

Numbers(run) == {k \in DOMAIN run : IsNumber(run[k][2])}

(* sum_values: integers stay integers unless the sum is too large for one. *)
Sum(run) ==
  LET acc == Accumulated(run)[Len(run)]
  IN  IF acc.seen THEN F64(acc.flt)
      ELSE IF acc.int \in (-MaxI64 - 1)..MaxI64 THEN I64(acc.int) ELSE F64(acc.int)

(* The mean as a fraction.                                                 *)
Mean(run) ==
  LET acc == Accumulated(run)[Len(run)]
      n   == Cardinality(Numbers(run))
  IN  IF n = 0 THEN NullValue
      ELSE [rank |-> 2, lane |-> "F64",
            n |-> <<IF acc.seen THEN acc.flt ELSE acc.int, n>>]

-----------------------------------------------------------------------------
(* The other functions.                                                    *)

(* The first of the least values.                                          *)
Minimum(run) ==
  LET vs == Present(run)
      least[k \in 0..(Len(vs) - 1)] ==
        IF k = 0 THEN vs[1]
        ELSE IF Less(vs[k + 1], least[k - 1]) THEN vs[k + 1] ELSE least[k - 1]
  IN  IF vs = <<>> THEN NullValue ELSE least[Len(vs) - 1]

(* The last of the greatest.                                               *)
Maximum(run) ==
  LET vs == Present(run)
      most[k \in 0..(Len(vs) - 1)] ==
        IF k = 0 THEN vs[1]
        ELSE IF Less(vs[k + 1], most[k - 1]) THEN most[k - 1] ELSE vs[k + 1]
  IN  IF vs = <<>> THEN NullValue ELSE most[Len(vs) - 1]

Collect(run) == [i \in DOMAIN run |-> OrNull(run[i][2])]
First(run) == OrNull(Head(run)[2])
Final(run) == OrNull(run[Len(run)][2])

-----------------------------------------------------------------------------
(* Group documents, here [key, res], and their order: by key, or by the    *)
(* result (a sort field that a group document lacks is Null in all), ties  *)
(* by key; then the limit, 0 being none.                                   *)

SortValue(group, field) ==
  CASE field = "_id"    -> group.key
    [] field = "result" -> group.res
    [] OTHER            -> NullValue

(* Fault: a descending sort leaves the ties ascending.                     *)
GroupBeforeTiesUp(field, desc, x, y) ==
  LET v == SortValue(x, field)
      w == SortValue(y, field)
  IN  \/ IF desc THEN Less(w, v) ELSE Less(v, w)
      \/ Same(v, w) /\ Less(x.key, y.key)

GroupBefore(field, desc, x, y) ==
  LET before(g, h) ==
        \/ Less(SortValue(g, field), SortValue(h, field))
        \/ Same(SortValue(g, field), SortValue(h, field)) /\ Less(g.key, h.key)
  IN  IF desc THEN before(y, x) ELSE before(x, y)

GroupDocs(Fn(_)) ==
  LET runs == Runs IN [k \in DOMAIN runs |-> [key |-> Head(runs[k])[1], res |-> Fn(runs[k])]]

Limited(docs, limit) ==
  IF limit = 0 \/ limit >= Len(docs) THEN docs ELSE SubSeq(docs, 1, limit)

SortedGroups(docs, field, desc, limit) ==
  LET order == Ranked(DOMAIN docs, LAMBDA i, j : GroupBefore(field, desc, docs[i], docs[j]))
  IN  Limited([k \in DOMAIN order |-> docs[order[k]]], limit)

-----------------------------------------------------------------------------
Init == pairs = <<>>

(* The pipelined pass hands on one more document.                          *)
Push(key, value) ==
  /\ Len(pairs) < MaxStream
  /\ pairs' = Append(pairs, <<OrNull(key), value>>)

Next == \E key \in GroupKeys \cup {Missing}, value \in FieldValues \cup {Missing} :
          Push(key, value)

Spec == Init /\ [][Next]_pairs

-----------------------------------------------------------------------------
(* Reference: what the contract (spec.md, "Aggregation decisions") says,   *)
(* from the stream itself.                                                 *)

(* Where the documents of a key are in the stream, and what they hold.     *)
Places(key) == {i \in DOMAIN pairs : Same(pairs[i][1], key)}
Members(key) ==
  LET at == Ranked(Places(key), <) IN [k \in DOMAIN at |-> pairs[at[k]]]

Total(run) ==
  LET total[k \in 0..Len(run)] ==
        IF k = 0 THEN 0
        ELSE total[k - 1] + IF IsNumber(run[k][2]) THEN run[k][2].n ELSE 0
  IN  total[Len(run)]

(* Some float met a float accumulator at zero that was already in use.     *)
Reseeded(run) ==
  \E k \in Numbers(run) :
    LET acc == Accumulated(run)[k - 1]
    IN  run[k][2].lane = "F64" /\ acc.seen /\ acc.flt = 0 /\ acc.int # 0

(* One group per distinct key, 1 and 1.0 being one, in key order; each has *)
(* all the stream's documents of its key, in stream order, so that         *)
(* collect, first, last and count are those of the stream.                 *)
GroupsExact ==
  LET runs == Runs
  IN  /\ \A i, j \in DOMAIN runs : i < j => Less(Head(runs[i])[1], Head(runs[j])[1])
      /\ \A i \in DOMAIN runs :
           LET run == runs[i]
               at  == Places(Head(run)[1])
           IN  /\ run = Members(Head(run)[1])
               /\ First(run) = OrNull(pairs[Min(at)][2])
               /\ Final(run) = OrNull(pairs[Max(at)][2])
               /\ Len(Collect(run)) = Cardinality(at)
      /\ \A p \in ToSet(pairs) : \E i \in DOMAIN runs : Same(Head(runs[i])[1], p[1])

(* Every sum is the total of its group's numbers, and stays an integer     *)
(* unless a float takes part or it overflows; and mean is that total over  *)
(* their number.  Except for groups where the float accumulator returns to *)
(* zero before another float: see SumIsTotal.                              *)
SumExactUnlessReseeded ==
  \A run \in ToSet(Runs) : ~Reseeded(run) =>
    LET total  == Total(run)
        floats == \E k \in Numbers(run) : run[k][2].lane = "F64"
        fits   == total \in (-MaxI64 - 1)..MaxI64
    IN  /\ Sum(run) = IF ~floats /\ fits THEN I64(total) ELSE F64(total)
        /\ Numbers(run) # {} => Mean(run).n = <<total, Cardinality(Numbers(run))>>

(* Sorting the groups by a result orders them totally, so that a limit     *)
(* cuts the same groups whatever order they were in before, and descending *)
(* is the reverse of ascending; extremes bound every value of their group. *)
GroupOrder ==
  /\ LET docs == GroupDocs(Sum)
     IN  \A field \in {"_id", "result", "other"} :
           LET up == SortedGroups(docs, field, FALSE, 0)
           IN  \A limit \in 0..2 :
                 /\ SortedGroups(Reverse(docs), field, FALSE, limit) = Limited(up, limit)
                 /\ SortedGroups(docs, field, TRUE, limit) = Limited(Reverse(up), limit)
  /\ \A run \in ToSet(Runs) : \A v \in ToSet(Present(run)) :
       ~Less(v, Minimum(run)) /\ ~Less(Maximum(run), v)

(* sum takes the group's numeric values (spec.md): their total, once each. *)
SumIsTotal == \A run \in ToSet(Runs) : Sum(run).n = Total(run)
=============================================================================
