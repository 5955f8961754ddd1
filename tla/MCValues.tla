------------------------------ MODULE MCValues ------------------------------
(***************************************************************************)
(* Values on small texts, documents and widths.                            *)
(***************************************************************************)
EXTENDS Values

\* Every text of at most seven of these characters: `a[a]a.a` is the shortest
\* with a bare word after a bracket and before a dot.
MCTexts == UNION {[1..n -> {".", "[", "]", "a"}] : n \in 0..7}

\* Dotted paths of at most three tokens: a key, two indices, one of them with
\* a leading zero, and one index past MaxIndex; and one invalid path.
Tokens == {<<"a">>, <<"0">>, <<"0", "1">>, <<"1", "1">>}

Dotted(toks) == Head(toks) \o FlattenSeq([i \in DOMAIN Tail(toks) |-> <<".">> \o Tail(toks)[i]])

MCPaths == {Dotted(t) : t \in UNION {[1..n -> Tokens] : n \in 1..3}} \cup {<<"a", ".">>}

One == I64(1)
MCWritten == {Null, One}

\* Every float of the scaled layout, and every integer.
MCNumbers ==
    {I64(n) : n \in -(2 ^ (Width - 1))..(2 ^ (Width - 1) - 1)}
    \cup {F64(neg, exp, frac) : neg \in BOOLEAN, exp \in 0..NonFinite, frac \in 0..(2 ^ FracBits - 1)}

\* Scalars of every kind, with numbers equal across the two types, zeros of
\* both signs, infinities and NaNs, and containers that differ in length, in
\* order of keys, in the type of an equal number and in an infinity.
Half == F64(FALSE, Bias - 1, 0)
OneF == F64(FALSE, Bias, 0)
Inf(neg) == F64(neg, NonFinite, 0)
NaN(neg) == F64(neg, NonFinite, 1)
Entry(key, v) == [key |-> <<key>>, value |-> v]

MCCompared ==
    {Null, Bool(FALSE), Bool(TRUE), I64(0), One, Half, OneF, F64(TRUE, 0, 0),
     Inf(TRUE), Inf(FALSE), NaN(FALSE), NaN(TRUE),
     Str(<< >>), Str(<<"a">>), Str(<<"a", "1">>), Str(<<"1">>),
     Array(<< >>), Array(<<One>>), Array(<<OneF>>), Array(<<One, Null>>), Array(<<Half>>),
     Array(<<Inf(FALSE)>>), Array(<<OneF, Inf(FALSE)>>),
     Object(<< >>), Object(<<Entry("a", One)>>), Object(<<Entry("1", Null)>>),
     Object(<<Entry("a", One), Entry("1", Null)>>), Object(<<Entry("1", Null), Entry("a", OneF)>>),
     Object(<<Entry("1", One), Entry("a", Null)>>), Object(<<Entry("1", Inf(TRUE))>>)}
=============================================================================
