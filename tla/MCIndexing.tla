----------------------------- MODULE MCIndexing -----------------------------
(* Tensors of rank two and three, and index tuples of every kind.          *)
EXTENDS IndexingProperties

Tensor(dims, data, const, keep) ==
  [k |-> "tensor", dims |-> dims, shape |-> dims, data |-> data, dtype |-> "i64", const |-> const, keep |-> keep]
Cube == Tensor(<<3, 2, 2>>, [i \in 1 .. 12 |-> i], FALSE, TRUE)
Literal(dims, data) == [k |-> "literal", dims |-> dims, data |-> data, dtype |-> "i64"]
Square(keep) == Wrapped(Literal(<<2, 2>>, <<5, 6, 7, 8>>), NoType, keep)
Rows == Tensor(<<2, 2, 2>>, [i \in 1 .. 8 |-> 20 + i], FALSE, TRUE)
Row == Tensor(<<1, 2, 2>>, [i \in 1 .. 4 |-> 40 + i], FALSE, TRUE)
Frame(x, y, z) == [n \in {"x", "y", "z"} |-> CASE n = "x" -> x [] n = "y" -> y [] n = "z" -> z]
Obj(i, v) == [obj |-> i, v |-> v]
MCFrames ==
  {Frame(Obj(1, Cube), Obj(1, Cube), Obj(3, Row)), Frame(Obj(1, Cube), Obj(2, Square(TRUE)), Obj(3, Rows)),
   Frame(Obj(1, Square(FALSE)), Obj(2, Square(TRUE)), Obj(3, IndexScalar(1)))}

Num(i) == [k |-> "int", v |-> i]
List(dims, data) == [k |-> "list", dims |-> dims, data |-> data]
Arg(dims, data) == IndexTensor(dims, data, FALSE)     \* known at run time only
Size(i) == [Wrapped(Literal(<< >>, <<i>>), [shape |-> << >>, dtype |-> "index"], FALSE) EXCEPT !.const = FALSE]
Bare(e) == [bare |-> TRUE, elems |-> <<e>>]
Tuple(elems) == [bare |-> FALSE, elems |-> elems]

Elements ==
  {Num(0), Num(1), FullSlice, Slice(0, 1, Absent), Slice(1, Absent, Absent), Slice(0, 3, 2), NoneIndex,
   List(<<2, 1>>, <<1, 0>>), ARangeOp(0, 2, 1)}
Rare ==
  {Ellipsis, Size(1), Arg(<<2, 1>>, <<1, 1>>), List(<<2, 1>>, <<0, 0>>), List(<<1, 2>>, <<1, 0>>), List(<<0, 1>>, << >>),
   [Slice(0, 2, 2) EXCEPT !.dyn = TRUE], [Slice(0, 5, 2) EXCEPT !.dyn = TRUE], Slice(Absent, Absent, -1)}
AllReads ==
  {Bare(e) : e \in {Num(1), NoneIndex, Ellipsis, FullSlice, Slice(0, 2, Absent), Size(0)}}
    \cup {Tuple(<<e>>) : e \in Elements \cup Rare}
    \cup {Tuple(<<e, f>>) : e, f \in Elements} \cup {Tuple(<<e, f>>) : e \in Rare, f \in Elements}
    \cup {Tuple(<<f, e>>) : e \in Rare, f \in Elements}
    \cup {Tuple(<<e, f, g>>) : e, f, g \in {Num(1), FullSlice, NoneIndex, ARangeOp(0, 2, 1),
                                            Slice(0, 2, Absent)}}
    \cup {Tuple(<<FullSlice, FullSlice, FullSlice, NoneIndex, NoneIndex>>), Tuple(<<Ellipsis, List(<<1, 2>>, <<1, 0>>)>>)}
AllWrites ==
  {Bare(Num(0)), Bare(Ellipsis), Tuple(<<Num(1), FullSlice>>), Tuple(<<FullSlice, FullSlice>>),
   Tuple(<<List(<<2, 1>>, <<1, 0>>)>>), Tuple(<<List(<<2, 1>>, <<0, 0>>)>>), Tuple(<<Arg(<<2, 1>>, <<1, 1>>)>>),
   Tuple(<<Slice(1, 2, Absent)>>), Tuple(<<Num(0), Num(1)>>), Tuple(<<NoneIndex, Num(0)>>),
   Tuple(<<List(<<0, 1>>, << >>)>>), Bare(NoneIndex), Tuple(<<FullSlice, Num(1)>>)}
MCOperands == {Literal(<< >>, <<2>>), Literal(<<2, 2>>, <<1, 2, 3, 4>>)}
AllRanges ==
  {[start |-> a, stop |-> b, step |-> c, foldable |-> f, fold |-> g] :
     a \in {0, 1, 3}, b \in {Absent, 2, 5}, c \in {Absent, 2, 3}, f \in BOOLEAN, g \in BOOLEAN}

\* The first statement is one of a few, the last any.
MCReads ==
  <<{Bare(Ellipsis), Tuple(<<Slice(1, Absent, Absent)>>), Tuple(<<List(<<2, 1>>, <<1, 0>>)>>), Bare(Num(1))},
    AllReads>>
MCWrites == <<{Bare(Num(0)), Tuple(<<Slice(1, 2, Absent)>>), Tuple(<<List(<<2, 1>>, <<1, 0>>)>>)}, AllWrites>>
MCRanges == <<{r \in AllRanges : r.start = 0 /\ r.step = 2 /\ r.fold /\ r.stop # Absent}, AllRanges>>
=============================================================================
