------------------------- MODULE IndexingProperties -------------------------
(***************************************************************************)
(* What an index expression means, stated on the axes of the tensor: every *)
(* element of the tuple takes the axes that follow those of the elements   *)
(* before it; the indexers (ints, index tensors, slices that select)       *)
(* choose, together, one coordinate along each of their axes for every     *)
(* point of their common shape; the axes nobody chooses from follow.       *)
(***************************************************************************)
EXTENDS Indexing

Width(e) == IF e.k \in {"None", "Ellipsis"} THEN 0
            ELSE IF e.k \in {"list", "tensor"} THEN Last(e.dims) ELSE 1

\* The tuple with as many full slices as it leaves axes out.
Spelled(elems, rank) ==
  LET colons == [i \in 1 .. rank - Total([j \in DOMAIN elems |-> Width(elems[j])]) |-> FullSlice]
      d == SelectInSeq(elems, LAMBDA e : e.k = "Ellipsis")
  IN IF d = 0 THEN elems \o colons ELSE SubSeq(elems, 1, d - 1) \o colons \o SubSeq(elems, d + 1, Len(elems))

Start(x, j) == Total([i \in 1 .. j - 1 |-> Width(x[i])])

Selects(e, n) == ~(e.step \in {Absent, 1} /\ e.start \in {Absent, 0} /\ (e.stop = Absent \/ e.stop >= n))
IsIndexer(x, j, dims) ==
  CASE x[j].k = "None"  -> FALSE
    [] x[j].k = "slice" -> Selects(x[j], dims[Start(x, j) + 1])
    [] OTHER            -> TRUE

\* The coordinates an element selects, as an index tensor.
Selected(e, n) ==
  CASE e.k = "int"    -> [dims |-> <<1, 1>>, data |-> <<e.v>>]
    [] e.k = "scalar" -> [dims |-> <<1, 1>>, data |-> e.data]
    [] e.k = "slice"  -> LET step == IF e.step = Absent THEN 1 ELSE e.step
                             data == ARangeLoop(Clipped(e.start, n, 0), Clipped(e.stop, n, n), step)
                         IN [dims |-> <<Len(data), 1>>, data |-> data]
    [] OTHER          -> [dims |-> e.dims, data |-> e.data]

Indexers(x, dims) == {j \in DOMAIN x : IsIndexer(x, j, dims)}
Chosen(x, dims, j) == Selected(x[j], dims[Start(x, j) + 1])
Axes(x, j) == {Start(x, j) + w : w \in 1 .. Width(x[j])}

\* The expression is one the documentation gives a meaning to.
Meaningful(elems, dims) ==
  LET x == Spelled(elems, Len(dims))
  IN /\ Total([j \in DOMAIN elems |-> Width(elems[j])]) <= Len(dims)
     /\ Cardinality({j \in DOMAIN elems : elems[j].k = "Ellipsis"}) <= 1
     /\ \A j \in DOMAIN elems : elems[j].k = "slice" => elems[j].step > 0
     /\ \A i, j \in Indexers(x, dims) : Front(Chosen(x, dims, i).dims) = Front(Chosen(x, dims, j).dims)
     /\ \A j \in Indexers(x, dims) : \A k \in DOMAIN Chosen(x, dims, j).data :
          LET w == ((k - 1) % Width(x[j])) + 1
          IN Chosen(x, dims, j).data[k] \in 0 .. dims[Start(x, j) + w] - 1

\* The sizes of what is read, and the place of its element c in the tensor.
MeantDims(x, dims) ==
  LET J == Indexers(x, dims)
      taken == UNION {Axes(x, j) : j \in J}
      common == IF J = {} THEN << >> ELSE Front(Chosen(x, dims, CHOOSE j \in J : TRUE).dims)
  IN common \o Omit(dims, SetToSeq({a - 1 : a \in taken}))
MeantPlace(x, dims, c) ==
  LET J == Indexers(x, dims)
      taken == UNION {Axes(x, j) : j \in J}
      n == IF J = {} THEN 0 ELSE Len(Chosen(x, dims, CHOOSE j \in J : TRUE).dims) - 1
  IN [a \in DOMAIN dims |->
        IF a \in taken
        THEN LET j == CHOOSE i \in J : a \in Axes(x, i)
             IN At(Chosen(x, dims, j), SubSeq(c, 1, n) \o <<a - Start(x, j) - 1>>)
        ELSE c[n + Cardinality((1 .. a) \ taken)]]

\* None adds an axis of size 1 where it stands.
WithNewAxes(x, dims) ==
  FlattenSeq([j \in DOMAIN x |-> IF x[j].k = "None" THEN <<1>> ELSE <<dims[Start(x, j) + 1]>>])

(***************************************************************************)
(* Where the code is known to mean something else.                         *)
(***************************************************************************)
Kinds(elems, K) == {j \in DOMAIN elems : elems[j].k \in K}
Proper(elems, dims) ==
  LET x == Spelled(elems, Len(dims)) IN {j \in Indexers(x, dims) : x[j].k = "slice"}

\* _compute_idx_tensor_extent counts a selecting slice before an index tensor
\* twice, and the columns of one between two index tensors are not sorted.
SliceBeforeTensor(elems, dims) ==
  LET x == Spelled(elems, Len(dims))
  IN \E i \in Proper(elems, dims), j \in Kinds(x, {"list", "tensor"}) : i < j

\* ... and a None as an axis; _expand_dims does not know of gathered axes.
NewAxisAndIndexer(elems, dims) ==
  Kinds(elems, {"None"}) # {} /\ Indexers(Spelled(elems, Len(dims)), dims) # {}

\* _expand_dims inserts the last axis first, at its place in the result.
TwoNewAxes(elems) == Cardinality(Kinds(elems, {"None"})) > 1

\* _canonicalize_tuple_index takes an index tensor for one index.
WideAfterEllipsis(elems) ==
  \E i \in Kinds(elems, {"Ellipsis"}), j \in DOMAIN elems :
    (\E w \in Kinds(elems, {"list", "tensor"}) : Width(elems[w]) > 1) /\ i < j

\* Without a coordinate _build_gather returns the tensor itself.
SelectsNothing(elems) == \E j \in Kinds(elems, {"list", "tensor"}) : 0 \in ToSet(elems[j].dims)

\* A size that is not known is below every stop.
SlicesUnknownSize(elems, dims, shape) ==
  LET x == Spelled(elems, Len(dims)) IN \E j \in Proper(elems, dims) : shape[Start(x, j) + 1] = Dyn

\* A slice with bounds that are Scalars is not clipped to the axis.
BeyondAxis(elems, dims) ==
  LET x == Spelled(elems, Len(dims))
  IN \E j \in Proper(elems, dims) : x[j].dyn /\ x[j].stop > dims[Start(x, j) + 1]

Defined(t) == \A k \in DOMAIN t.data : t.data[k] # Junk

Expected(elems, t) ==
  /\ Meaningful(elems, t.dims) /\ Defined(t)
  /\ ~SliceBeforeTensor(elems, t.dims) /\ ~NewAxisAndIndexer(elems, t.dims) /\ ~TwoNewAxes(elems)
  /\ ~WideAfterEllipsis(elems) /\ ~SelectsNothing(elems) /\ ~SlicesUnknownSize(elems, t.dims, t.shape)
  /\ ~BeyondAxis(elems, t.dims)

(***************************************************************************)
(* Properties.                                                             *)
(***************************************************************************)
(* x[idx] is made of the elements the expression means, in their order.    *)
(* What the code rejects it may reject.                                    *)
GetMeansIndex ==
  last.k = "get" /\ last.r.v # Raised =>
  LET elems == last.idx.elems
      t == last.x
      x == Spelled(elems, Len(t.dims))
  IN Expected(elems, t) =>
     IF Kinds(elems, {"None"}) # {}
     THEN last.r.v.data = t.data /\ last.r.v.dims = WithNewAxes(x, t.dims)
     ELSE LET dims == MeantDims(x, t.dims)
          IN /\ last.r.v.data = Filled(dims, LAMBDA c : At(t, MeantPlace(x, t.dims, c)))
             /\ last.r.v.k = "tensor" => last.r.v.dims = dims

(* After x[idx] = z the variable x has the elements of z                   *)
(* where the expression means them to go, and those of x elsewhere.        *)
SetWritesIndex ==
  last.k = "set" /\ last.r.v # Raised /\ ~Whole(last.idx) =>
  LET elems == last.idx.elems
      t == last.x
      x == Spelled(elems, Len(t.dims))
      dims == MeantDims(x, t.dims)
      place == [k \in 1 .. Product(dims) |-> MeantPlace(x, t.dims, Coord(dims, k))]
  IN Expected(elems, t) /\ Kinds(elems, {"None"}) = {} /\ Product(dims) = Len(last.z.data)
       /\ (\A k, l \in DOMAIN place : place[k] = place[l] => k = l) =>
     frame[last.name].v.data =
       Filled(t.dims, LAMBDA c : IF \E k \in DOMAIN place : place[k] = c
                                 THEN last.z.data[CHOOSE k \in DOMAIN place : place[k] = c]
                                 ELSE At(t, c))

(* Variables that stand for one array hold one value, until it is written  *)
(* to a second time.                                                       *)
AliasesAgree ==
  \A m, n \in Names : array[m] = array[n] /\ writes[array[m]] <= 1 => frame[m].v = frame[n].v

(* An op that is marked unique never meets a coordinate twice, whatever    *)
(* the index tensors hold at run time.  (Two indexers whose sizes differ   *)
(* at run time only cannot be joined: what they make is undefined.)        *)
UniqueIsTrue ==
  last.k \in {"get", "set"} /\ last.r.gathered # NoneIndex =>
  LET indexer == last.r.gathered
  IN indexer.unique /\ Defined(indexer.indices) => DistinctCoordinates(indexer.indices)

(* Static shapes agree with the sizes at run time.                         *)
StaticShapes ==
  \A n \in Names :
    LET v == frame[n].v
    IN Len(v.shape) = Len(v.dims) /\ \A i \in DOMAIN v.dims : v.shape[i] \in {Dyn, v.dims[i]}

(* The length the type of a canonicalised arange says is the number of     *)
(* elements it folds to.                                                   *)
ARangeLength ==
  last.k = "arange" /\ last.v # Raised /\ last.r.step # Absent /\ VerifiesARange(last.r.start, last.r.stop, last.r.step)
  => getARangeLen(last.r.start, last.r.stop, last.r.step) = last.v.dims[1]

(* What is worked out while the IR is built is what it computes when it is *)
(* run: the shapes and the lengths of ranges.                              *)
BuildAgreesWithRun == StaticShapes /\ ARangeLength
=============================================================================
