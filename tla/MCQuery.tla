------------------------------ MODULE MCQuery --------------------------------
(***************************************************************************)
(* Query on two fields, three documents and the values Null, 1 and an      *)
(* array of both and of an object.  The `_id`s are strings, which rank     *)
(* above the numbers and below the arrays.                                 *)
(***************************************************************************)
EXTENDS Query

CONSTANTS f, g

MCIds == {10, 11, 12}
MCFields == {f, g}
Arr == 20
Obj == 30   \* {f: 1}

MCValues == {0, 1, Arr}
MCElements == [v \in {Arr} |-> {0, 1, Obj}]
MCMembers == [v \in {Obj} |-> [field \in {f} |-> 1]]

-----------------------------------------------------------------------------
(* The filters asked of every reachable state.                             *)

Bound1(args) == [op : {"$eq", "$gt", "$gte", "$lt", "$lte"}, arg : args]

(* Of an element: f is 1; and, true of scalars too, it has no g.           *)
ElementFilter == <<[key |-> f, cond |-> [direct |-> 1]]>>
NoFieldFilter == <<[key |-> g, cond |-> [ops |-> <<[op |-> "$exists", flag |-> FALSE]>>]]>>

Others ==
  [op : {"$ne"}, arg : {0, 1}]
    \cup [op : {"$in", "$nin"}, list : {<<>>, <<Arr, 0>>, <<1, Arr, 1>>}]
    \cup {[op |-> "$in", list |-> NotArray], [op |-> "$nin", list |-> NotArray]}
    \cup [op : {"$exists"}, flag : BOOLEAN \cup {NotBool}]
    \cup {[op |-> "$not", ops |-> <<[op |-> "$gt", arg |-> 1]>>],
          [op |-> "$not", ops |-> NotOps],
          [op |-> "$elemMatch", crit |-> [direct |-> 1]],
          [op |-> "$elemMatch", crit |-> [ops |-> <<[op |-> "$gt", arg |-> 0]>>]],
          [op |-> "$elemMatch", crit |-> [sub |-> ElementFilter]],
          [op |-> "$elemMatch", crit |-> [sub |-> NoFieldFilter]],
          [op |-> "unknown"]}

OpLists ==
  {<<o>> : o \in Bound1(Values) \cup Others}
    \cup {<<o1, o2>> : o1 \in Bound1({1}), o2 \in Bound1({1, Arr})}
    \cup {<<o1, o2>> : o1 \in Bound1({Arr}), o2 \in Bound1({1})}
    \cup {<<o1, o2>> : o1 \in {[op |-> "$gte", arg |-> 1]}, o2 \in Others}

Conditions == [direct : Values] \cup [ops : OpLists]

Few == {[direct |-> 1], [ops |-> <<[op |-> "$gt", arg |-> 0]>>],
        [ops |-> <<[op |-> "$exists", flag |-> FALSE]>>]}

Asked ==
  {NotObject, <<>>, <<[key |-> "$not"]>>}
    \cup {<<[key |-> f, cond |-> c]>> : c \in Conditions}
    \cup {<<[key |-> IdKey, cond |-> [direct |-> 10]]>>}
    \cup {<<[key |-> f, cond |-> c], [key |-> g, cond |-> d]>> : c, d \in Few}
    \cup {<<[key |-> k, subs |-> s]>> :
            k \in {"$and", "$or"},
            s \in {NotArray, <<>>, <<NotObject>>}
                    \cup {<<<<[key |-> f, cond |-> c]>>, <<[key |-> g, cond |-> d]>>>> :
                            c, d \in Few}}
    \cup {<<[key |-> "$or", subs |-> <<<<[key |-> f, cond |-> c]>>>>],
            [key |-> "$and", subs |-> <<<<>>, <<[key |-> g, cond |-> d]>>>>]>> :
            c, d \in Few}

-----------------------------------------------------------------------------
(* The criteria inside those filters, and how deep they nest.              *)
RECURSIVE Closure(_), Depth(_)
Closure(cs) == IF cs = {} THEN {} ELSE cs \cup Closure(UNION {Inner(c) : c \in cs})
Depth(c) == IF Inner(c) = {} THEN 0 ELSE 1 + Max({Depth(d) : d \in Inner(c)})

MCCriteria == Closure({[sub |-> filter] : filter \in Asked})
MCNesting == [c \in MCCriteria |-> Depth(c)]

MCSortFilters ==
  {<<>>, <<[key |-> f, cond |-> [ops |-> <<[op |-> "$exists", flag |-> TRUE]>>]]>>}
MCPages == [skip : 0..3, limit : 0..3, want : 0..1]

-----------------------------------------------------------------------------
(* A filter never panics: "malformed filters never panic" (query.rs), and  *)
(* a contradictory range is not even malformed; a scan answers it.         *)
NeverPanics == \A filter \in Filters : Stream(filter) # Panic

(* "{$eq: null} and the direct value null both match explicit null and     *)
(* absence" (spec.md), as "{f: null} matches both" (index.rs).             *)
NullMatchesMissing ==
  \A id \in DOMAIN docs :
    docs[id][f] \in {Null, Missing} =>
      DocMatches(id, <<[key |-> f, cond |-> [direct |-> Null]]>>)
=============================================================================
