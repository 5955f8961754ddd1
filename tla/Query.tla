------------------------------- MODULE Query ---------------------------------
(***************************************************************************)
(* Queries over a collection's documents and field indexes                 *)
(* (engine/src/query.rs): matching, the choice of a scan plan, the stream  *)
(* of matches each plan yields, and the sort/skip/limit pipeline.  A query *)
(* changes nothing, so it is an operator over the state of FieldIndex.     *)
(*                                                                         *)
(* A filter is a sequence of entries, in the order of the filter object:   *)
(*   [key |-> field, cond |-> condition]                                   *)
(*   [key |-> "$and" or "$or", subs |-> sequence of filters or NotArray]   *)
(*   [key |-> "$not"]                                                      *)
(* A criterion is a condition, a direct value or a sequence of operators,  *)
(* or a filter that an object has to meet:                                 *)
(*   [direct |-> value]                                                    *)
(*   [ops |-> operators], an operator being one of                         *)
(*     [op |-> "$eq" "$ne" "$gt" "$gte" "$lt" "$lte", arg |-> value]       *)
(*     [op |-> "$in" "$nin", list |-> sequence of values or NotArray]      *)
(*     [op |-> "$exists", flag |-> TRUE, FALSE or NotBool]                 *)
(*     [op |-> "$not", ops |-> operators or NotOps]                        *)
(*     [op |-> "$elemMatch", crit |-> criterion]                           *)
(*     [op |-> "unknown"]                                                  *)
(*   [sub |-> filter]                                                      *)
(***************************************************************************)
EXTENDS FieldIndex

CONSTANTS
  Elements,     \* Elements[v]: the elements of the array value v
  Members,      \* Members[v]: field -> value, the entries of the object value v
  NotArray,     \* an operand that had to be an array and is not
  NotBool,      \* an operand that had to be a boolean and is not
  NotOps,       \* an operand that had to be an operator object and is not
  NotObject,    \* a filter that is not an object
  Panic,        \* the query panics
  Unbounded,    \* Bound::Unbounded
  Criteria,     \* the filters asked, and the criteria inside them
  Nesting,      \* Nesting[c]: how deep criteria are nested in c
  SortFilters,  \* the filters asked with a sort,
  Pages         \* and the [skip, limit, want] asked with it

(* The criteria directly inside one: operands of $not and $elemMatch,      *)
(* conditions of a filter's entries, sub-filters.                          *)
Inner(c) ==
  IF "direct" \in DOMAIN c THEN {}
  ELSE IF "ops" \in DOMAIN c
  THEN {[ops |-> c.ops[i].ops] :
          i \in {k \in DOMAIN c.ops : c.ops[k].op = "$not" /\ c.ops[k].ops # NotOps}}
         \cup {c.ops[i].crit : i \in {k \in DOMAIN c.ops : c.ops[k].op = "$elemMatch"}}
  ELSE IF c.sub = NotObject THEN {}
  ELSE UNION {CASE c.sub[i].key \in {"$and", "$or"} ->
                     IF c.sub[i].subs = NotArray THEN {}
                     ELSE {[sub |-> c.sub[i].subs[j]] : j \in DOMAIN c.sub[i].subs}
                [] c.sub[i].key = "$not" -> {}
                [] OTHER -> {c.sub[i].cond} : i \in DOMAIN c.sub}

IsList(s) == Len(s) \in Nat /\ DOMAIN s = 1..Len(s)

(* Operands that are values are values.                                    *)
TypedOp(o) ==
  /\ o.op \in {"$eq", "$ne", "$gt", "$gte", "$lt", "$lte"} => o.arg \in Int
  /\ o.op \in {"$in", "$nin"} => o.list = NotArray \/ o.list \in Seq(Int)

(* A field is given a condition.                                           *)
TypedEntry(e) ==
  /\ e.key \in {"$and", "$or"} => e.subs = NotArray \/ IsList(e.subs)
  /\ e.key \notin {"$and", "$or", "$not"} => "sub" \notin DOMAIN e.cond

Filters == {c.sub : c \in {d \in Criteria : "sub" \in DOMAIN d}}

(* A filter is a tree.                                                     *)
ASSUME CriteriaAssumption ==
  /\ Nesting \in [Criteria -> Nat]
  /\ \A c \in Criteria :
       /\ \A d \in Inner(c) : d \in Criteria /\ Nesting[d] < Nesting[c]
       /\ \/ "direct" \in DOMAIN c /\ c = [direct |-> c.direct] /\ c.direct \in Int
          \/ /\ "ops" \in DOMAIN c /\ c = [ops |-> c.ops]
             /\ IsList(c.ops) /\ \A i \in DOMAIN c.ops : TypedOp(c.ops[i])
          \/ /\ "sub" \in DOMAIN c /\ c = [sub |-> c.sub]
             /\ c.sub # NotObject =>
                  IsList(c.sub) /\ \A i \in DOMAIN c.sub : TypedEntry(c.sub[i])

ASSUME QueryAssumption ==
  /\ {"$and", "$or", "$not"} \cap (Fields \cup {IdKey}) = {}
  /\ Panic \notin Seq(Int)
  /\ Unbounded \notin [value : Int, incl : BOOLEAN]
  /\ SortFilters \subseteq Filters
  /\ Pages \subseteq [skip : Nat, limit : Nat, want : Nat]

-----------------------------------------------------------------------------
(* Matching.                                                               *)

(* An element as the subject of a filter: only an object has fields.       *)
Subject(element) ==
  IF element \in DOMAIN Members THEN Members[element] ELSE <<>>

(* The document as the subject of a filter.                                *)
Row(id, body) == [f \in Fields \cup {IdKey} |-> IF f = IdKey THEN id ELSE body[f]]

Field(subject, key) == IF key \in DOMAIN subject THEN subject[key] ELSE Missing

(* What conditions and filters are asked about.                            *)
AllElements == UNION {Elements[v] : v \in DOMAIN Elements}

Presents ==
  Values \cup Ids \cup {Missing} \cup AllElements
    \cup UNION {{Members[v][f] : f \in DOMAIN Members[v]} : v \in DOMAIN Members}

Subjects ==
  {Row(id, body) : id \in Ids, body \in Bodies} \cup {Subject(e) : e \in AllElements}

InList(present, list) ==
  IF present = Missing THEN Null \in ToSet(list) ELSE present \in ToSet(list)

(* In the next three `meets` is the function Meets defined below.          *)
ElemMatch(meets, present, crit) ==
  /\ present # Missing
  /\ present \in DOMAIN Elements
  /\ \E e \in Elements[present] :
       (IF "sub" \in DOMAIN crit THEN Subject(e) ELSE e) \in meets[crit]

(* op_match_present on one operator; `present` is Missing for None.        *)
OpMatch(meets, present, o) ==
  CASE o.op = "$eq"  -> IF present = Missing THEN o.arg = Null ELSE present = o.arg
    [] o.op = "$ne"  -> IF present = Missing THEN o.arg # Null ELSE present # o.arg
    [] o.op = "$gt"  -> present # Missing /\ present > o.arg
    [] o.op = "$gte" -> present # Missing /\ present >= o.arg
    [] o.op = "$lt"  -> present # Missing /\ present < o.arg
    [] o.op = "$lte" -> present # Missing /\ present <= o.arg
    [] o.op = "$in"  -> o.list # NotArray /\ InList(present, o.list)
    [] o.op = "$nin" -> o.list # NotArray /\ ~InList(present, o.list)
    [] o.op = "$exists" -> o.flag # NotBool /\ o.flag = (present # Missing)
    [] o.op = "$not" -> o.ops # NotOps /\ present \notin meets[[ops |-> o.ops]]
    [] o.op = "$elemMatch" -> ElemMatch(meets, present, o.crit)
    [] OTHER -> FALSE

(* One entry of a filter; a field's is condition_match.                    *)
EntryMatch(meets, subject, e) ==
  CASE e.key = "$and" ->
         e.subs # NotArray /\ \A j \in DOMAIN e.subs : subject \in meets[[sub |-> e.subs[j]]]
    [] e.key = "$or"  ->
         e.subs # NotArray /\ \E j \in DOMAIN e.subs : subject \in meets[[sub |-> e.subs[j]]]
    [] e.key = "$not" -> FALSE
    [] OTHER -> Field(subject, e.key) \in meets[e.cond]

(* Meets[c]: the values that meet the condition c (a direct value requires *)
(* the field to be present), or the subjects that doc_matches the filter.  *)
Meets ==
  LET meets[c \in Criteria] ==
        CASE "direct" \in DOMAIN c -> {x \in Presents : x # Missing /\ x = c.direct}
          [] "ops" \in DOMAIN c ->
               {x \in Presents : \A i \in DOMAIN c.ops : OpMatch(meets, x, c.ops[i])}
          [] OTHER ->
               {s \in Subjects : /\ c.sub # NotObject
                                 /\ \A i \in DOMAIN c.sub : EntryMatch(meets, s, c.sub[i])}
  IN  [c \in Criteria |-> meets[c]]

DocMatches(id, filter) == Row(id, docs[id]) \in Meets[[sub |-> filter]]

Matches(filter) == {id \in DOMAIN docs : DocMatches(id, filter)}

-----------------------------------------------------------------------------
(* Plans.                                                                  *)

(* The stricter of two bounds; on equal values the exclusive one.          *)
TightenLower(cur, new) ==
  IF cur = Unbounded THEN new
  ELSE IF cur.value > new.value THEN cur
  ELSE IF cur.value < new.value THEN new
  ELSE IF cur.incl /\ ~new.incl THEN new ELSE cur

TightenUpper(cur, new) ==
  IF cur = Unbounded THEN new
  ELSE IF cur.value < new.value THEN cur
  ELSE IF cur.value > new.value THEN new
  ELSE IF cur.incl /\ ~new.incl THEN new ELSE cur

(* The bounds of a condition, tightened operator by operator.              *)
Lower(ops) ==
  LET lo[n \in 0..Len(ops)] ==
        IF n = 0 THEN Unbounded
        ELSE IF ops[n].op \in {"$eq", "$gt", "$gte"}
        THEN TightenLower(lo[n - 1], [value |-> ops[n].arg, incl |-> ops[n].op # "$gt"])
        ELSE lo[n - 1]
  IN  lo[Len(ops)]

Upper(ops) ==
  LET hi[n \in 0..Len(ops)] ==
        IF n = 0 THEN Unbounded
        ELSE IF ops[n].op \in {"$eq", "$lt", "$lte"}
        THEN TightenUpper(hi[n - 1], [value |-> ops[n].arg, incl |-> ops[n].op # "$lt"])
        ELSE hi[n - 1]
  IN  hi[Len(ops)]

(* index_plan_for: whether the condition can drive a scan, and the ranges  *)
(* [lo, hi] to fetch, one after the other.                                 *)
Point(v) == [lo |-> [value |-> v, incl |-> TRUE], hi |-> [value |-> v, incl |-> TRUE]]

Verifiable == {"$eq", "$ne", "$gt", "$gte", "$lt", "$lte",
               "$in", "$nin", "$not", "$exists", "$elemMatch"}

Drives(cond) ==
  \/ "direct" \in DOMAIN cond
  \/ /\ \A i \in DOMAIN cond.ops :
          /\ cond.ops[i].op \in Verifiable
          /\ cond.ops[i].op = "$in" => cond.ops[i].list # NotArray
     /\ \E i \in DOMAIN cond.ops :
          cond.ops[i].op \in {"$eq", "$gt", "$gte", "$lt", "$lte", "$in"}

Ins(cond) == {i \in DOMAIN cond.ops : cond.ops[i].op = "$in"}

(* The list of the first $in drives.                                       *)
InValues(cond) == cond.ops[Min(Ins(cond))].list

(* Fault: an $in list is walked in its own order.                          *)
RangesAsListed(cond) ==
  IF "direct" \in DOMAIN cond THEN <<Point(cond.direct)>>
  ELSE IF Ins(cond) = {} THEN <<[lo |-> Lower(cond.ops), hi |-> Upper(cond.ops)]>>
  ELSE LET values == InValues(cond) IN [i \in DOMAIN values |-> Point(values[i])]

Ranges(cond) ==
  IF "direct" \in DOMAIN cond THEN <<Point(cond.direct)>>
  ELSE IF Ins(cond) = {} THEN <<[lo |-> Lower(cond.ops), hi |-> Upper(cond.ops)]>>
  ELSE LET values == Ranked(ToSet(InValues(cond)), LAMBDA v, w : v < w)
       IN  [i \in DOMAIN values |-> Point(values[i])]

(* The entries of a filter, in order, an $and giving way to those of its   *)
(* elements: where plan_from_entries looks.                                *)
Conjuncts ==
  LET conjuncts[c \in Criteria] ==
        IF "sub" \notin DOMAIN c \/ c.sub = NotObject THEN <<>>
        ELSE FlattenSeq([i \in DOMAIN c.sub |->
               IF c.sub[i].key # "$and" THEN <<c.sub[i]>>
               ELSE IF c.sub[i].subs = NotArray THEN <<>>
               ELSE FlattenSeq([j \in DOMAIN c.sub[i].subs |->
                      conjuncts[[sub |-> c.sub[i].subs[j]]]])])
  IN  [c \in Criteria |-> conjuncts[c]]

(* plan: the first of these that can drive an index scan does.             *)
Drivers(filter) ==
  LET entries == Conjuncts[[sub |-> filter]]
  IN  {i \in DOMAIN entries : entries[i].key \in DOMAIN fields /\ Drives(entries[i].cond)}

Driver(filter) == Conjuncts[[sub |-> filter]][Min(Drivers(filter))]

-----------------------------------------------------------------------------
(* Streams.                                                                *)

LowerIndex(entries, lo) ==
  IF lo = Unbounded THEN 0
  ELSE IF lo.incl THEN PartitionPoint(entries, LAMBDA x : x.value < lo.value)
  ELSE PartitionPoint(entries, LAMBDA x : x.value <= lo.value)

(* Fault: an inclusive upper bound stops before its value.                 *)
UpperIndexShort(entries, hi) ==
  IF hi = Unbounded THEN Len(entries)
  ELSE PartitionPoint(entries, LAMBDA x : x.value < hi.value)

UpperIndex(entries, hi) ==
  IF hi = Unbounded THEN Len(entries)
  ELSE IF hi.incl THEN PartitionPoint(entries, LAMBDA x : x.value <= hi.value)
  ELSE PartitionPoint(entries, LAMBDA x : x.value < hi.value)

(* ids_range slices entries[s..e], which panics when s > e.                *)
IdsRange(entries, range) ==
  LET s == LowerIndex(entries, range.lo)
      e == UpperIndex(entries, range.hi)
  IN  IF s > e THEN Panic ELSE [k \in 1..(e - s) |-> entries[s + k].id]

(* The matches in the order an unsorted query visits them, or Panic.  A    *)
(* scan visits the documents in the map's order, here some order.          *)
Stream(filter) ==
  IF Drivers(filter) = {} THEN Filtered(SetToSeq(DOMAIN docs), Matches(filter))
  ELSE LET driver  == Driver(filter)
           entries == fields[driver.key]
           ranges  == Ranges(driver.cond)
           fetched == [i \in DOMAIN ranges |-> IdsRange(entries, ranges[i])]
       IN  IF \E i \in DOMAIN fetched : fetched[i] = Panic THEN Panic
           ELSE Filtered(FlattenSeq(fetched), Matches(filter))

(* A sort on an indexed field walks the index.                             *)
IndexedSort(filter, f, desc) ==
  LET walk == IF desc THEN Reverse(fields[f]) ELSE fields[f]
  IN  Filtered([k \in DOMAIN walk |-> walk[k].id], Matches(filter))

(* sorted_matches: collect the matches and sort them.                      *)
SortedMatches(filter, f, desc) ==
  LET sorted == Ranked(Matches(filter),
                       LAMBDA x, y : Before(Entry(docs, x, f), Entry(docs, y, f)))
  IN  IF desc THEN Reverse(sorted) ELSE sorted

(* What has been counted and handed on, and whether the walk is over.      *)
Walk == [seen |-> 0, out |-> <<>>, stop |-> FALSE]

(* Fault: the limit counts the skipped matches too.                        *)
EmitCountingSkipped(s, id, page) ==
  IF s.stop THEN s
  ELSE IF s.seen + 1 <= page.skip THEN [s EXCEPT !.seen = @ + 1]
  ELSE [seen |-> s.seen + 1, out |-> Append(s.out, id),
        stop |-> \/ page.want > 0 /\ Len(s.out) + 1 >= page.want
                 \/ page.limit > 0 /\ s.seen + 1 >= page.limit]

(* The streaming loop on one match: count it, hand it to the terminal when *)
(* it comes after `skip`, stop after `limit` of those (0: no limit) or     *)
(* when the terminal has had the `want` it asked for (0: never).           *)
Emit(s, id, page) ==
  IF s.stop THEN s
  ELSE IF s.seen + 1 <= page.skip THEN [s EXCEPT !.seen = @ + 1]
  ELSE [seen |-> s.seen + 1, out |-> Append(s.out, id),
        stop |-> \/ page.want > 0 /\ Len(s.out) + 1 >= page.want
                 \/ page.limit > 0 /\ Len(s.out) + 1 >= page.limit]

Emitted(stream, page) ==
  LET walked[n \in 0..Len(stream)] ==
        IF n = 0 THEN Walk ELSE Emit(walked[n - 1], stream[n], page)
  IN  walked[Len(stream)].out

(* The slice of the collected and sorted matches.                          *)
Sliced(sorted, page) ==
  LET min(m, n) == IF m <= n THEN m ELSE n
      start == min(page.skip, Len(sorted))
      end   == IF page.limit = 0 THEN Len(sorted) ELSE min(start + page.limit, Len(sorted))
  IN  SubSeq(sorted, start + 1, IF page.want = 0 THEN end ELSE min(end, start + page.want))

-----------------------------------------------------------------------------
(* A driving condition whose bounds no value can satisfy.                  *)
Crossed(ops) ==
  LET lo == Lower(ops)
      hi == Upper(ops)
  IN  /\ lo # Unbounded /\ hi # Unbounded
      /\ \/ lo.value > hi.value
         \/ lo.value = hi.value /\ ~(lo.incl /\ hi.incl)

(* "The verification keeps the index-driven and full-scan results          *)
(* identical" (query.rs): whichever indexes exist, a query yields exactly  *)
(* the documents that match, each once.  Only a condition with crossed     *)
(* bounds, which matches nothing, can panic instead.                       *)
PlanMatchesScan ==
  \A filter \in Filters :
    LET stream == Stream(filter)
    IN  IF stream = Panic
        THEN /\ Matches(filter) = {}
             /\ Crossed(Driver(filter).cond.ops)
        ELSE ToSet(stream) = Matches(filter) /\ IsInjective(stream)

(* An index-driven query returns its matches in index order, so that skip  *)
(* and limit cut the same documents every time; an $in list is walked in   *)
(* value order, whatever its own order.                                    *)
IndexOrder ==
  \A filter \in Filters :
    LET stream == Stream(filter)
        key    == Driver(filter).key
    IN  Drivers(filter) # {} /\ stream # Panic =>
          \A i, j \in DOMAIN stream : i < j =>
            Before(Entry(docs, stream[i], key), Entry(docs, stream[j], key))

(* The same sort, skip and limit return the same documents in the same     *)
(* order whether or not the sort field is indexed, to the terminal that    *)
(* wants every document as to the one that wants only the first.           *)
SortAgrees ==
  \A filter \in SortFilters, f \in DOMAIN fields, desc \in BOOLEAN :
    LET walked == IndexedSort(filter, f, desc)
        sorted == SortedMatches(filter, f, desc)
    IN  \A page \in Pages : Emitted(walked, page) = Sliced(sorted, page)
=============================================================================
