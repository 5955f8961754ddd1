------------------------------- MODULE Values -------------------------------
(***************************************************************************)
(* The value tree of src/engine/src/value.rs: the dotted paths that reach  *)
(* into a document ($set, $inc and $unset go through them; a filter names  *)
(* a field), and the total order that the field indexes, the sorts and the *)
(* groups stand on.                                                        *)
(*                                                                         *)
(* A text is a sequence of characters, a token of a path is a text, and an *)
(* object keeps its entries in insertion order, as the Vec of the code.    *)
(* Numbers are scaled: an i64 has Width bits, an f64 a sign, ExpBits bits  *)
(* of exponent and FracBits of fraction, with the layout of IEEE 754 and   *)
(* its subnormals, infinities and NaNs; an i128 has twice Width bits and   *)
(* wraps.  The thresholds of the code (63, 74, 1075) are the same          *)
(* expressions of the three widths.                                        *)
(*                                                                         *)
(* One caller parses texts, compares values, and edits a document, one     *)
(* call after the other.  The module has recursive operators, over trees:  *)
(* it is checked by TLC only.                                              *)
(***************************************************************************)
EXTENDS Integers, Sequences, SequencesExt, FiniteSets

CONSTANTS
    Texts,      \* the texts parsed as paths
    Paths,      \* the paths used to edit the document
    Written,    \* the values written
    Numbers,    \* the numbers compared
    Compared,   \* the values of every kind compared
    MaxIndex,   \* usize::MAX
    MaxNodes,   \* a document with more nodes is edited no further
    Width, FracBits, ExpBits

ASSUME ValuesAssumption ==
    /\ {MaxIndex, MaxNodes, Width, FracBits, ExpBits} \subseteq Nat \ {0}
    /\ FracBits + 1 <= Width

VARIABLES doc, call

vars == <<doc, call>>

-----------------------------------------------------------------------------
(* Values.                                                                 *)

Null == [kind |-> "null"]
Bool(b) == [kind |-> "bool", bool |-> b]
I64(n) == [kind |-> "i64", int |-> n]
F64(neg, exp, frac) == [kind |-> "f64", neg |-> neg, exp |-> exp, frac |-> frac]
Str(text) == [kind |-> "str", text |-> text]
Array(items) == [kind |-> "array", items |-> items]
Object(entries) == [kind |-> "object", entries |-> entries]

IsContainer(v) == v.kind \in {"array", "object"}

Children(v) ==
    CASE v.kind = "array"  -> v.items
      [] v.kind = "object" -> [i \in DOMAIN v.entries |-> v.entries[i].value]
      [] OTHER             -> << >>

-----------------------------------------------------------------------------
(* Paths: parse_path scans a text once.  `word` is path[start..i].         *)

Started == [toks |-> << >>, word |-> << >>,
            in_bracket |-> FALSE, had_bracket |-> FALSE, bad |-> FALSE]

\* Fault: bare characters between `]` and the next separator are a token.
FlushJunk(s) ==
    CASE s.word # << >> -> [s EXCEPT !.toks = Append(@, s.word)]
      [] s.had_bracket  -> s
      [] OTHER          -> [s EXCEPT !.bad = TRUE]

\* The bare token before a `.` or a `[`: a token of its own, nothing at all
\* after a `]`, and an error when it is missing or follows a `]`.
Flush(s) ==
    CASE s.word = << >> /\ s.had_bracket  -> s
      [] s.word # << >> /\ ~s.had_bracket -> [s EXCEPT !.toks = Append(@, s.word)]
      [] OTHER                            -> [s EXCEPT !.bad = TRUE]

Opened(s, bracket) ==
    [Flush(s) EXCEPT !.word = << >>, !.in_bracket = bracket, !.had_bracket = FALSE]

Closed(s) ==
    [s EXCEPT !.bad = @ \/ s.word = << >>, !.toks = Append(@, s.word),
              !.word = << >>, !.in_bracket = FALSE, !.had_bracket = TRUE]

Scan(s, c) ==
    CASE s.bad                      -> s
      [] c = "." /\ ~s.in_bracket   -> Opened(s, FALSE)
      [] c = "[" /\ ~s.in_bracket   -> Opened(s, TRUE)
      [] c = "]" /\ s.in_bracket    -> Closed(s)
      [] OTHER                      -> [s EXCEPT !.word = Append(@, c)]

\* The tokens of a path, and none for an InvalidPath.
ParsePath(path) ==
    LET s == FoldLeft(Scan, Started, path) IN
    CASE s.bad \/ s.in_bracket              -> << >>
      [] s.had_bracket /\ s.word = << >>    -> s.toks
      [] ~s.had_bracket /\ s.word # << >>   -> Append(s.toks, s.word)
      [] OTHER                              -> << >>

Digits == <<"0", "1", "2", "3", "4", "5", "6", "7", "8", "9">>

IndexLike(tok) == tok # << >> /\ Range(tok) \subseteq Range(Digits)

Decimal(tok) ==
    FoldLeft(LAMBDA n, c : 10 * n + (CHOOSE d \in 0..9 : Digits[d + 1] = c), 0, tok)

\* An array reads a token as an index when it is all digits and fits usize.
IsIndex(tok) == IndexLike(tok) /\ Decimal(tok) <= MaxIndex

\* Where a token leads in a node: `pos` is a child's position or the one
\* after the last, `err` says why there is none.  An object always has one.
Slot(node, tok) ==
    LET keys == {i \in DOMAIN Children(node) : node.entries[i].key = tok}
        end  == Len(Children(node)) + 1
    IN CASE node.kind = "object" ->
                [err |-> "", pos |-> IF keys = {} THEN end ELSE CHOOSE i \in keys : TRUE]
         [] node.kind = "array" /\ ~IsIndex(tok) -> [err |-> "NotAnIndex", pos |-> 0]
         [] node.kind = "array" /\ IsIndex(tok)  ->
                IF Decimal(tok) < end
                THEN [err |-> "", pos |-> Decimal(tok) + 1]
                ELSE [err |-> "IndexOutOfRange", pos |-> 0]
         [] OTHER -> [err |-> "CannotDescend", pos |-> 0]

Missing == [kind |-> "missing"]

\* get_path: a step that does not match reads nothing.
RECURSIVE At(_, _)
At(node, toks) ==
    IF toks = << >> THEN node
    ELSE LET slot == Slot(node, Head(toks)) IN
         IF slot.err = "" /\ slot.pos \in DOMAIN Children(node)
         THEN At(Children(node)[slot.pos], Tail(toks))
         ELSE Missing

\* The container made for a missing or null field: an array padded with Null
\* up to the index that comes next, or an object.  An index too large for
\* usize counts as 0.
ContainerFor(rest) ==
    IF IndexLike(Head(rest))
    THEN Array([i \in 1..(IF IsIndex(Head(rest)) THEN Decimal(Head(rest)) ELSE 0) + 1 |-> Null])
    ELSE Object(<< >>)

\* Fault: a scalar in the way gives place to a container.
EnsuredOver(child, rest) == IF IsContainer(child) THEN child ELSE ContainerFor(rest)

\* A null on the way becomes a container; a scalar stays, and the next step
\* fails on it, as ensure_container does.
Ensured(child, rest) == IF child = Null THEN ContainerFor(rest) ELSE child

\* The child at `pos`, or the one about to be pushed there.
Child(node, pos) == IF pos \in DOMAIN Children(node) THEN Children(node)[pos] ELSE Null

Placed(node, pos, tok, v) ==
    LET put(s, x) == IF pos \in DOMAIN s THEN [s EXCEPT ![pos] = x] ELSE Append(s, x)
    IN IF node.kind = "array" THEN [node EXCEPT !.items = put(@, v)]
                              ELSE [node EXCEPT !.entries = put(@, [key |-> tok, value |-> v])]

\* set_path_inner: what it leaves in the node, an error half-way included.
RECURSIVE SetIn(_, _, _)
SetIn(node, toks, v) ==
    LET tok  == Head(toks)
        rest == Tail(toks)
        slot == Slot(node, tok)
        into == SetIn(Ensured(Child(node, slot.pos), rest), rest, v)
    IN CASE slot.err # "" -> [node |-> node, reply |-> slot.err]
         [] slot.err = "" /\ rest = << >> ->
                [node |-> Placed(node, slot.pos, tok, v), reply |-> "set"]
         [] OTHER -> [node |-> Placed(node, slot.pos, tok, into.node), reply |-> into.reply]

\* Fault: the last child takes the place of the removed one.
WithoutSwap(node, pos) ==
    LET cut(s) == SubSeq([s EXCEPT ![pos] = s[Len(s)]], 1, Len(s) - 1)
    IN IF node.kind = "array" THEN [node EXCEPT !.items = cut(@)]
                              ELSE [node EXCEPT !.entries = cut(@)]

Without(node, pos) ==
    IF node.kind = "array" THEN [node EXCEPT !.items = RemoveAt(@, pos)]
                           ELSE [node EXCEPT !.entries = RemoveAt(@, pos)]

\* remove_path_inner: an index past the end is an error at the leaf only.
RECURSIVE RemoveIn(_, _)
RemoveIn(node, toks) ==
    LET tok  == Head(toks)
        rest == Tail(toks)
        slot == Slot(node, tok)
        into == RemoveIn(Children(node)[slot.pos], rest)
    IN CASE slot.err = "IndexOutOfRange" /\ rest # << >> -> [node |-> node, reply |-> "nothing"]
         [] slot.err # "" /\ ~(slot.err = "IndexOutOfRange" /\ rest # << >>) ->
                [node |-> node, reply |-> slot.err]
         [] slot.err = "" /\ slot.pos \notin DOMAIN Children(node) ->
                [node |-> node, reply |-> "nothing"]
         [] slot.pos \in DOMAIN Children(node) /\ rest = << >> ->
                [node |-> Without(node, slot.pos), reply |-> "removed"]
         [] OTHER -> [node |-> Placed(node, slot.pos, tok, into.node), reply |-> into.reply]

-----------------------------------------------------------------------------
(* The order.  A comparison is -1, 0 or 1, or it is a panic: a build with  *)
(* debug assertions refuses an integer against an infinity or a NaN.       *)
(* `debug` says which build compares.                                      *)

Panic == 2

Opposite(c) == IF c = Panic THEN Panic ELSE -c

Sign(n) == IF n < 0 THEN -1 ELSE IF n > 0 THEN 1 ELSE 0

Bias == 2 ^ (ExpBits - 1) - 1
NonFinite == 2 ^ ExpBits - 1        \* the exponent of the infinities and NaNs
IsNaN(f) == f.kind = "f64" /\ f.exp = NonFinite /\ f.frac # 0

\* An i128 keeps twice Width bits of a shifted number.
Shl(n, s) ==
    LET m == 2 ^ (2 * Width) IN ((n * 2 ^ s + m \div 2) % m) - m \div 2

\* Fault: the signs decide one shift too early.
CmpDyadicEarly(i, f) ==
    LET exp  == f.exp - (Bias + FracBits)
        mant == IF f.neg THEN -(f.frac + 2 ^ FracBits) ELSE f.frac + 2 ^ FracBits
    IN CASE f.exp = 0 /\ f.frac = 0         -> Sign(i)
         [] exp < 0 /\ -exp < FracBits      -> Sign(Shl(i, -exp) - mant)
         [] exp < 0 /\ -exp >= FracBits     -> IF i = 0 THEN Sign(-mant) ELSE Sign(i)
         [] OTHER                           -> Sign(i - Shl(mant, exp))

\* What cmp_i64_f64 computes: f is mant * 2^exp, and a shift that fits an i128
\* makes the comparison exact; past it the signs decide.  The zeros come
\* first; the implicit bit is set for the subnormals too, and an infinity or
\* a NaN is taken for a number of the largest exponent.
CmpDyadic(i, f) ==
    LET exp  == f.exp - (Bias + FracBits)
        mant == IF f.neg THEN -(f.frac + 2 ^ FracBits) ELSE f.frac + 2 ^ FracBits
        fits == IF exp < 0 THEN -exp <= Width - 1
                           ELSE exp <= 2 * Width - 1 - (FracBits + 1)
    IN CASE f.exp = 0 /\ f.frac = 0 -> Sign(i)
         [] ~(f.exp = 0 /\ f.frac = 0) /\ fits ->
                IF exp < 0 THEN Sign(Shl(i, -exp) - mant) ELSE Sign(i - Shl(mant, exp))
         [] ~(f.exp = 0 /\ f.frac = 0) /\ ~fits /\ i = 0 -> Sign(-mant)
         [] OTHER -> IF exp >= 0 /\ (i > 0) = (mant > 0) THEN -Sign(i) ELSE Sign(i)

\* cmp_i64_f64: Ord and PartialEq call it unchecked, and its first line
\* asserts that f is finite.
CmpI64F64(debug, i, f) == IF debug /\ f.exp = NonFinite THEN Panic ELSE CmpDyadic(i, f)

\* A float in units of the smallest subnormal; an infinity comes out past
\* every finite one.
Magnitude(f) ==
    LET m == IF f.exp = 0 THEN f.frac ELSE (2 ^ FracBits + f.frac) * 2 ^ (f.exp - 1)
    IN IF f.neg THEN -m ELSE m

\* cmp_f64: IEEE's comparison, with the NaNs equal and last.
CmpF64(a, b) ==
    CASE IsNaN(a) /\ IsNaN(b)   -> 0
      [] IsNaN(a) /\ ~IsNaN(b)  -> 1
      [] ~IsNaN(a) /\ IsNaN(b)  -> -1
      [] OTHER                  -> Sign(Magnitude(a) - Magnitude(b))

Byte(c) ==
    CASE c = "." -> 46 [] c = "[" -> 91 [] c = "]" -> 93 [] c = "a" -> 97
      [] OTHER -> 48 + Decimal(<<c>>)

\* Sequences compare by their first difference, or panic there, and a prefix
\* comes first.
Lexical(differences, a, b) ==
    LET at == {i \in DOMAIN differences : differences[i] # 0}
    IN IF at = {} THEN Sign(Len(a) - Len(b)) ELSE differences[Min(at)]

Common(a, b) == 1..Min({Len(a), Len(b)})

CmpStr(a, b) == Lexical([i \in Common(a, b) |-> Sign(Byte(a[i]) - Byte(b[i]))], a, b)

ByKeys(entries) == SortSeq(entries, LAMBDA x, y : CmpStr(x.key, y.key) < 0)

Rank(v) ==
    CASE v.kind = "null" -> 0 [] v.kind = "bool" -> 1 [] v.kind \in {"i64", "f64"} -> 2
      [] v.kind = "str" -> 3 [] v.kind = "array" -> 4 [] v.kind = "object" -> 5

RECURSIVE Cmp(_, _, _)

\* cmp_objects_canonical: the entries in the order of their keys.
CmpObjects(debug, a, b) ==
    LET sa == ByKeys(a)
        sb == ByKeys(b)
    IN Lexical([i \in Common(sa, sb) |->
                    LET keys == CmpStr(sa[i].key, sb[i].key)
                    IN IF keys # 0 THEN keys ELSE Cmp(debug, sa[i].value, sb[i].value)], sa, sb)

\* Ord::cmp.
Cmp(debug, a, b) ==
    CASE a.kind = "i64" /\ b.kind = "f64" -> CmpI64F64(debug, a.int, b)
      [] a.kind = "f64" /\ b.kind = "i64" -> Opposite(CmpI64F64(debug, b.int, a))
      [] {a.kind, b.kind} # {"i64", "f64"} /\ Rank(a) # Rank(b) -> Sign(Rank(a) - Rank(b))
      [] a.kind = b.kind ->
            CASE a.kind = "null"   -> 0
              [] a.kind = "bool"   -> IF a.bool = b.bool THEN 0 ELSE IF b.bool THEN -1 ELSE 1
              [] a.kind = "i64"    -> Sign(a.int - b.int)
              [] a.kind = "f64"    -> CmpF64(a, b)
              [] a.kind = "str"    -> CmpStr(a.text, b.text)
              [] a.kind = "array"  ->
                    Lexical([i \in Common(a.items, b.items) |->
                                Cmp(debug, a.items[i], b.items[i])], a.items, b.items)
              [] a.kind = "object" -> CmpObjects(debug, a.entries, b.entries)

\* PartialEq::eq, an implementation of its own: 0 for equal, 1 for not, or a
\* panic.  Arrays of different lengths are not compared any further.
RECURSIVE Equal(_, _, _)
Equal(debug, a, b) ==
    LET same(c) == IF c = Panic THEN Panic ELSE IF c = 0 THEN 0 ELSE 1
    IN CASE a.kind = "i64" /\ b.kind = "f64" -> same(CmpI64F64(debug, a.int, b))
         [] a.kind = "f64" /\ b.kind = "i64" -> same(CmpI64F64(debug, b.int, a))
         [] a.kind = "f64" /\ b.kind = "f64" -> same(CmpF64(a, b))
         [] a.kind = "array" /\ b.kind = "array" ->
               IF Len(a.items) # Len(b.items) THEN 1
               ELSE Lexical([i \in DOMAIN a.items |-> Equal(debug, a.items[i], b.items[i])],
                            a.items, b.items)
         [] a.kind = "object" /\ b.kind = "object" ->
               same(CmpObjects(debug, a.entries, b.entries))
         [] a.kind = b.kind /\ a.kind \notin {"f64", "array", "object"} ->
               IF a = b THEN 0 ELSE 1
         [] OTHER -> 1

-----------------------------------------------------------------------------
(* The caller.                                                             *)

RECURSIVE Nodes(_)
Nodes(v) == 1 + FoldLeft(LAMBDA n, c : n + Nodes(c), 0, Children(v))

Init ==
    /\ doc = Object(<< >>)
    /\ call = [op |-> "none"]

Idle == call.op = "none"

\* The pure functions neither read the document nor change it: calling them
\* on the empty one is enough.
Pure == Idle /\ doc = Object(<< >>)

Parse ==
    /\ Pure
    /\ \E text \in Texts : call' = [op |-> "parse", text |-> text, toks |-> ParsePath(text)]
    /\ UNCHANGED doc

Compare ==
    /\ Pure
    /\ \E debug \in BOOLEAN :
        \/ \E a, b \in Numbers :
              call' = [op |-> "compare", debug |-> debug, a |-> a, b |-> b, c |-> b]
        \/ \E a, b, c \in Compared :
              call' = [op |-> "compare", debug |-> debug, a |-> a, b |-> b, c |-> c]
    /\ UNCHANGED doc

\* The caller drops the answer.
Forget ==
    /\ ~Idle
    /\ call' = [op |-> "none"]
    /\ UNCHANGED doc

Editing == Idle /\ Nodes(doc) <= MaxNodes

Edit(toks, after, v) ==
    /\ doc' = after.node
    /\ call' = [op |-> "edit", toks |-> toks, value |-> v, before |-> doc, reply |-> after.reply]

Invalid == [node |-> doc, reply |-> "InvalidPath"]

SetPath ==
    /\ Editing
    /\ \E path \in Paths, v \in Written :
          LET toks == ParsePath(path)
          IN Edit(toks, IF toks = << >> THEN Invalid ELSE SetIn(doc, toks, v), v)

RemovePath ==
    /\ Editing
    /\ \E path \in Paths :
          LET toks == ParsePath(path)
          IN Edit(toks, IF toks = << >> THEN Invalid ELSE RemoveIn(doc, toks), Missing)

Next == Parse \/ Compare \/ Forget \/ SetPath \/ RemovePath

Spec == Init /\ [][Next]_vars

-----------------------------------------------------------------------------
(* Paths: what is promised.                                                *)

\* The grammar of the module's comment: a key, then any number of `.key` and
\* `[token]`.  Every way to read a text, as the tokens it gives.
Bare(text) == text # << >> /\ Range(text) \cap {".", "["} = {}
Bracketed(text) == text # << >> /\ "]" \notin Range(text)

RECURSIVE Continued(_)
Continued(text) ==
    IF text = << >> THEN {<< >>}
    ELSE UNION {
        LET word == IF Head(text) = "." THEN SubSeq(text, 2, n) ELSE SubSeq(text, 2, n - 1) IN
        IF \/ Head(text) = "." /\ Bare(word)
           \/ Head(text) = "[" /\ text[n] = "]" /\ Bracketed(word)
        THEN {<<word>> \o r : r \in Continued(SubSeq(text, n + 1, Len(text)))}
        ELSE {} : n \in 2..Len(text)}

Readings(text) ==
    UNION {{<<SubSeq(text, 1, n)>> \o r : r \in Continued(SubSeq(text, n + 1, Len(text)))}
           : n \in {k \in DOMAIN text : Bare(SubSeq(text, 1, k))}}

\* The scanner of parse_path, with its two flags and its early returns,
\* accepts exactly the texts the documented grammar can read, in the one way
\* it can: no text is ambiguous, none is let through half read.
PathGrammar ==
    call.op = "parse" =>
        Readings(call.text) = IF call.toks = << >> THEN {} ELSE {call.toks}

\* The places of a tree where no child is, in document order, with canonical
\* array indices.
RECURSIVE LeavesOf(_)
LeavesOf(v) ==
    IF Children(v) = << >> THEN <<[at |-> << >>, value |-> v]>>
    ELSE FlattenSeq([i \in DOMAIN Children(v) |->
            LET step   == IF v.kind = "array" THEN <<Digits[i]>> ELSE v.entries[i].key
                leaves == LeavesOf(Children(v)[i])
            IN [j \in DOMAIN leaves |-> [leaves[j] EXCEPT !.at = <<step>> \o @]]])

Leaves(v) == Range(LeavesOf(v))

RECURSIVE Canonical(_, _)
Canonical(node, toks) ==
    IF toks = << >> THEN << >>
    ELSE LET slot == Slot(node, Head(toks)) IN
         IF slot.pos \notin DOMAIN Children(node) THEN toks
         ELSE <<IF node.kind = "array" THEN <<Digits[slot.pos]>> ELSE Head(toks)>>
              \o Canonical(Children(node)[slot.pos], Tail(toks))

Edited == call.op = "edit" /\ call.reply # "InvalidPath"

\* set_path writes at its path and nowhere else, whatever it answers.  Where
\* it succeeds the path then reads the value, and where it fails the path
\* reads what it read.  Every other leaf of the document stays where it was,
\* except a null or an empty container on the way; what appears besides is
\* the padding of an array.  No scalar is ever overwritten on the way.
SetStaysOnPath ==
    Edited /\ call.value # Missing =>
        LET path == Canonical(doc, call.toks)
            Fillable(l) == IsStrictPrefix(l.at, path)
                           /\ l.value \in {Null, Array(<< >>), Object(<< >>)}
        IN /\ At(doc, call.toks) =
                IF call.reply = "set" THEN call.value ELSE At(call.before, call.toks)
           /\ \A l \in Leaves(call.before) \ Leaves(doc) : IsPrefix(path, l.at) \/ Fillable(l)
           /\ \A l \in Leaves(doc) \ Leaves(call.before) : IsPrefix(path, l.at) \/ l.value = Null

\* remove_path answers true exactly when the path read something; then that
\* subtree is gone, the later elements of an array have moved down by one,
\* and every other leaf is where it was, in the order it had.  In any other
\* case, the errors included, the document is unchanged.
RemoveIsExact ==
    Edited /\ call.value = Missing =>
        LET path   == Canonical(call.before, call.toks)
            parent == At(call.before, Front(path))
            last   == Len(path)
            Later(l) == /\ parent.kind = "array" /\ IsStrictPrefix(Front(path), l.at)
                        /\ Decimal(l.at[last]) > Decimal(path[last])
            Moved(l) == IF Later(l) THEN [l EXCEPT !.at[last] = <<Digits[Decimal(@)]>>] ELSE l
            kept   == SelectSeq(LeavesOf(call.before), LAMBDA l : ~IsPrefix(path, l.at))
        IN /\ (call.reply = "removed") = (At(call.before, call.toks) # Missing)
           /\ IF call.reply = "removed"
              THEN SelectSeq(LeavesOf(doc), LAMBDA l : l.at # Front(path))
                    = [i \in DOMAIN kept |-> Moved(kept[i])]
              ELSE doc = call.before

-----------------------------------------------------------------------------
(* The order: what is promised.                                            *)

\* The exact value of a number, in units of the smallest subnormal.
Exact(x) == IF x.kind = "i64" THEN x.int * 2 ^ (Bias + FracBits - 1) ELSE Magnitude(x)

Numeric(x) == x.kind \in {"i64", "f64"}

\* A NaN with its sign bit set against an integer, in a build that answers:
\* see NaNIsLast.
Misplaced(debug, values) ==
    /\ ~debug
    /\ \E x \in values : x.kind = "i64"
    /\ \E x \in values : IsNaN(x) /\ x.neg

\* An integer and a float that is not finite.
Refused(a, b) ==
    /\ {a.kind, b.kind} = {"i64", "f64"}
    /\ \E x \in {a, b} : x.kind = "f64" /\ x.exp = NonFinite

\* Ord::cmp, where it answers, is a total order on values of every kind, and
\* agrees with the separate PartialEq::eq: an index keeps its entries sorted
\* by one and finds them again by the other.  On numbers it is the order of
\* their exact values, across integers and floats, at every magnitude, with
\* the NaNs last.  It answers always in a release build; with debug
\* assertions, never when an integer meets an infinity or a NaN, on the top
\* level or as the first difference of two containers, and always otherwise.
\* Equality panics on no more than the order does.
OrderIsTotalAndExact ==
    LET a == call.a  b == call.b  c == call.c
        cmp(x, y) == Cmp(call.debug, x, y)
    IN call.op = "compare" /\ ~Misplaced(call.debug, {a, b, c}) =>
        /\ cmp(a, b) = Panic => call.debug /\
                \E x \in Leaves(a), y \in Leaves(b) : Refused(x.value, y.value)
        /\ Refused(a, b) => call.debug = (cmp(a, b) = Panic)
        /\ cmp(b, a) = Opposite(cmp(a, b))
        /\ cmp(a, b) # Panic => (Equal(call.debug, a, b) = 0) = (cmp(a, b) = 0)
        /\ Equal(call.debug, a, b) = Panic => cmp(a, b) = Panic
        /\ cmp(a, b) <= 0 /\ cmp(b, c) <= 0 => cmp(a, c) \in {-1, 0, Panic}
        /\ cmp(a, b) # Panic /\ Numeric(a) /\ Numeric(b) =>
                CASE ~IsNaN(a) /\ ~IsNaN(b) -> cmp(a, b) = Sign(Exact(a) - Exact(b))
                  [] ~IsNaN(a) /\ IsNaN(b)  -> cmp(a, b) = -1
                  [] IsNaN(a) /\ IsNaN(b)   -> cmp(a, b) = 0
                  [] OTHER                  -> cmp(a, b) = 1

\* Violated: value.rs documents that a NaN orders after +inf, and so after
\* every number.  Against an integer the sign bit of the NaN decides, in a
\* build that does not panic.
NaNIsLast ==
    call.op = "compare" /\ Numeric(call.a) /\ IsNaN(call.b) /\ ~IsNaN(call.a) =>
        Cmp(call.debug, call.a, call.b) \in {-1, Panic}

\* Violated: cmp_i64_f64 is documented for a finite float and asserts it.  The
\* order and the equality of Value call it on whatever floats they are given.
FiniteAsserted ==
    call.op = "compare" =>
        Panic \notin {Cmp(call.debug, call.a, call.b), Equal(call.debug, call.a, call.b)}
=============================================================================
