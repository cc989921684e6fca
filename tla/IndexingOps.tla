----------------------------- MODULE IndexingOps -----------------------------
(***************************************************************************)
(* Values of the Indexing dialect and what its ops compute.                *)
(*                                                                         *)
(* A value has its static type (dtype, and shape with Dyn for a size that  *)
(* is not known) and what it is at run time: the sizes dims and the        *)
(* elements, in row-major order, in data.  const says that an              *)
(* arith.constant op defines it; keep is the _fold flag of the Python      *)
(* object around it.                                                       *)
(***************************************************************************)
EXTENDS Integers, FiniteSets, SequencesExt

Dyn == -1        \* ShapedType::kDynamic
Junk == -1000    \* an element the ops leave undefined

Product(s) == LET p[i \in 0 .. Len(s)] == IF i = 0 THEN 1 ELSE p[i - 1] * s[i] IN p[Len(s)]
Total(s) == LET p[i \in 0 .. Len(s)] == IF i = 0 THEN 0 ELSE p[i - 1] + s[i] IN p[Len(s)]
Stride(dims, i) == Product(SubSeq(dims, i + 1, Len(dims)))

\* Coordinates, from 0, of the k-th element, and the way back.
Coord(dims, k) == [i \in DOMAIN dims |-> ((k - 1) \div Stride(dims, i)) % dims[i]]
InRange(dims, c) == \A i \in DOMAIN dims : c[i] \in 0 .. dims[i] - 1
Position(dims, c) == 1 + Total([i \in DOMAIN dims |-> c[i] * Stride(dims, i)])
At(t, c) == IF InRange(t.dims, c) THEN t.data[Position(t.dims, c)] ELSE Junk
Filled(dims, Elem(_)) == [k \in 1 .. Product(dims) |-> Elem(Coord(dims, k))]

Runtime(t, dims, shape, data) ==
  [t EXCEPT !.dims = dims, !.shape = shape, !.data = data, !.const = FALSE, !.keep = TRUE]

(***************************************************************************)
(* indexing.gather and indexing.scatter.  The last dimension of indices    *)
(* holds coordinates along the axes gd; the other axes follow whole.       *)
(***************************************************************************)
Omit(shape, gd) ==
  FlattenSeq([a \in DOMAIN shape |-> IF a - 1 \in ToSet(gd) THEN << >> ELSE <<shape[a]>>])

inferReturnTypes(shape, indexShape, gd) == Front(indexShape) \o Omit(shape, gd)

WellFormed(indices, gd, rank) ==
  /\ Len(gd) = Last(indices.dims) /\ Cardinality(ToSet(gd)) = Len(gd)
  /\ ToSet(gd) \subseteq 0 .. rank - 1

\* Where element c of a gather's result, or of a scatter's source, lies.
Target(c, rank, indices, gd) ==
  LET b == SubSeq(c, 1, Len(indices.dims) - 1)
      rest == SubSeq(c, Len(indices.dims), Len(c))
  IN [a \in 1 .. rank |->
        IF a - 1 \in ToSet(gd)
        THEN At(indices, b \o <<(CHOOSE j \in DOMAIN gd : gd[j] = a - 1) - 1>>)
        ELSE rest[Cardinality((0 .. a - 1) \ ToSet(gd))]]

GatherOp(source, indices, gd) ==
  LET dims == inferReturnTypes(source.dims, indices.dims, gd)
      rank == Len(source.dims)
  IN Runtime(source, dims, inferReturnTypes(source.shape, indices.shape, gd),
             IF WellFormed(indices, gd, rank)
             THEN Filled(dims, LAMBDA c : At(source, Target(c, rank, indices, gd)))
             ELSE [k \in 1 .. Product(dims) |-> Junk])

\* Two elements for one place: the op does not say which one stays.
ScatterOp(source, dest, indices, gd) ==
  LET rank == Len(dest.dims)
      fits == /\ WellFormed(indices, gd, rank)
              /\ source.dims = inferReturnTypes(dest.dims, indices.dims, gd)
      to == [k \in DOMAIN source.data |-> Target(Coord(source.dims, k), rank, indices, gd)]
      Elem(c) == LET from == {k \in DOMAIN to : to[k] = c}
                 IN IF from = {} THEN At(dest, c)
                    ELSE IF Cardinality(from) = 1 THEN source.data[CHOOSE k \in from : TRUE]
                    ELSE Junk
  IN Runtime(dest, dest.dims, dest.shape,
             IF fits THEN Filled(dest.dims, Elem) ELSE [k \in DOMAIN dest.data |-> Junk])

\* indexing.concatenate, or np.concatenate, of equal shapes along the last axis.
Joined(tens) ==
  LET width == Last(tens[1].dims)
      dims == Append(Front(tens[1].dims), Len(tens) * width)
      Elem(c) == LET i == Last(c)
                 IN At(tens[i \div width + 1], Append(Front(c), i % width))
  IN [tens[1] EXCEPT !.dims = dims, !.shape = Append(Front(@), Len(tens) * width),
        !.data = IF \A i \in DOMAIN tens : tens[i].dims = tens[1].dims
                 THEN Filled(dims, Elem) ELSE [k \in 1 .. Product(dims) |-> Junk]]

(***************************************************************************)
(* indexing.arange.                                                        *)
(***************************************************************************)
getARangeLen(start, stop, step) ==
  (stop - start) \div step + (IF (stop - start) % step = 0 THEN 0 ELSE 1)

\* ARangeOp::verify, once start, stop and step are attributes.
VerifiesARange(start, stop, step) ==
  start >= 0 /\ stop >= 1 /\ step >= 1 /\ stop - start > 1

\* The elements the loop of ARangeOp::fold and np.arange go through.
ARangeLoop(start, stop, step) ==
  LET loop[i \in Int] == IF i < stop THEN <<i>> \o loop[i + step] ELSE << >>
  IN loop[start]

IndexTensor(dims, data, const) ==
  [k |-> "tensor", dims |-> dims, shape |-> dims, data |-> data, dtype |-> "index",
   const |-> const, keep |-> TRUE]

\* Defect: a static length, without the last element of a step that does not divide.
ARangeOpFloors(start, stop, step) ==
  LET data == ARangeLoop(start, stop, step)
  IN [IndexTensor(<<Len(data), 1>>, data, FALSE) EXCEPT !.shape = <<(stop - start) \div step, 1>>]

\* Its operands make the length unknown: inferReturnTypes says tensor<?x1xindex>.
ARangeOp(start, stop, step) ==
  LET data == ARangeLoop(start, stop, step)
  IN [IndexTensor(<<Len(data), 1>>, data, FALSE) EXCEPT !.shape = <<Dyn, 1>>]

(***************************************************************************)
(* tensor.expand_shape: its verifier wants every group of result axes to   *)
(* make up one source axis.                                                *)
(***************************************************************************)
ExpandShapeOp(t, dims, shape, groups) ==
  LET fits == /\ FlattenSeq(groups) = [i \in 1 .. Len(shape) |-> i - 1]
              /\ \A g \in DOMAIN groups :
                   LET sizes == [i \in DOMAIN groups[g] |-> shape[groups[g][i] + 1]]
                   IN Product(sizes) = t.shape[g]
  IN Runtime(t, dims, shape, IF fits THEN t.data ELSE [k \in DOMAIN t.data |-> Junk])

=============================================================================
