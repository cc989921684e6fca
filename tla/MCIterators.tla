----------------------------- MODULE MCIterators -----------------------------
(***************************************************************************)
(* Small programs of iterator ops for TLC.  The elements are one-field     *)
(* tuples, as those of constant_stream are; a zip makes tuples of them,    *)
(* which the map "first" or "sum" turns into one-field tuples again.       *)
(***************************************************************************)
EXTENDS IteratorsToLLVM

CONSTANT MaxLen   \* bound on the length of a source's stream

MCPredicate(f, v) == v[1] % 2 = 1

MCMapFunc(f, v) ==
  CASE f = "inc" -> <<v[1] + 1>>
    [] f = "sum" -> <<v[1][1] + v[2][1]>>

MCReduceFunc(f, acc, v) ==
  CASE f = "sum" -> <<acc[1] + v[1]>>
    [] f = "sub" -> <<2 * acc[1] + v[1]>>   \* depends on the order

Element == {<<1>>, <<2>>}
SeqsUpTo(n) == UNION {[1 .. l -> Element] : l \in 0 .. n}

\* A plan from a sequence of nodes, each after its inputs: <<kind, func, ups>>
\* and the elements of its sources.
MkPlan(ns, data, stmts) ==
  LET nodes == 1 .. Len(ns)
      ups == [n \in nodes |-> ns[n][3]]
      below[n \in nodes] == {n} \cup UNION {below[ups[n][k]] : k \in DOMAIN ups[n]}
  IN [nodes |-> nodes,
      kind  |-> [n \in nodes |-> ns[n][1]],
      func  |-> [n \in nodes |-> ns[n][2]],
      ups   |-> ups,
      data  |-> [n \in nodes |-> IF n \in DOMAIN data THEN data[n] ELSE << >>],
      below |-> [n \in nodes |-> below[n]],
      stmts |-> stmts]

Const == <<"constant_stream", "", << >>>>
View == <<"tabular_view_to_stream", "", << >>>>
Value == <<"value_to_stream", "", << >>>>
Sink(n) == [op |-> "sink", input |-> n]
ToValue(n) == [op |-> "stream_to_value", input |-> n]

\* map and filter on a source, printed; the first element of the same stream,
\* which both statements consume from the start; then an ordered reduction.
Chains ==
  {MkPlan(<<Const, <<"map", "inc", <<1>>>>, <<"filter", "odd", <<2>>>>,
            <<"reduce", "sub", <<3>>>>>>,
          <<d>>, stmts)
     : d \in SeqsUpTo(MaxLen),
       stmts \in {<<Sink(3), ToValue(3)>>, <<ToValue(4), Sink(4)>>}}

\* A zip of two sources, one of them filtered.
Zips ==
  {MkPlan(<<Const, View, <<"filter", "odd", <<2>>>>, <<"zip", "", <<1, 3>>>>>>,
          <<d, e>>, <<Sink(4)>>)
     : d \in SeqsUpTo(MaxLen - 1), e \in SeqsUpTo(MaxLen)}

\* A zip with a one-element stream below a map and a reduce, printed and read.
Folds ==
  {MkPlan(<<View, Value, <<"zip", "", zip>>, <<"map", "sum", <<3>>>>,
            <<"reduce", "sum", <<4>>>>>>,
          <<d, <<v>>>>, <<ToValue(5), Sink(5), Sink(4)>>)
     : d \in SeqsUpTo(MaxLen), v \in Element, zip \in {<<1, 2>>, <<2, 1>>}}

\* A reduction of a reduction, zipped with a source: streams that are asked
\* again after their end.
Nested ==
  {MkPlan(<<Const, <<"reduce", "sum", <<1>>>>, <<"reduce", "sub", <<2>>>>, Const,
            <<"zip", "", <<3, 4>>>>>>,
          <<d, << >>, << >>, e>>, <<Sink(5), Sink(3)>>)
     : d \in SeqsUpTo(MaxLen - 1), e \in SeqsUpTo(1)}

MCPlans == Chains \cup Zips \cup Folds \cup Nested

=============================================================================
