------------------------------ MODULE Indexing ------------------------------
(***************************************************************************)
(* The Python frontend of the Indexing dialect: a function body whose      *)
(* statements build IR for tensors held in local variables.                *)
(*                                                                         *)
(*   y = x[idx]   y = x op z   y = arange(...)   y = x   x[idx] = z        *)
(*                                                                         *)
(* A value is a record of IndexingOps with k = "scalar" or "tensor"; a     *)
(* Python number or array has k = "literal".  Elements of an index tuple   *)
(* are values, ints, lists of ints, slices, None and Ellipsis.             *)
(***************************************************************************)
EXTENDS IndexingOps

CONSTANTS
  Names, Targets, \* local variables, and those that are assigned to
  Frames,         \* what they may hold when the body starts
  Reads, Writes,  \* for each statement, the index expressions of getitem and setitem
  Ranges,         \* for each statement, the arguments of arange
  Operands,       \* second operands of arithmetic that are not local variables
  MaxStatements   \* bound on the statements of the body

ASSUME BoundAssumption ==
  MaxStatements \in Nat /\ Targets \subseteq Names /\ IsFiniteSet(Names)

\* An object wraps one value, whichever variables it is in.
ASSUME FramesAssumption ==
  \A f \in Frames : \A m, n \in Names :
    /\ f[n].obj \in 1 .. Cardinality(Names)
    /\ f[m].obj = f[n].obj => f[m].v = f[n].v

Absent == 99                     \* None in a slice or an argument

\* A value of the program: its static type says of its sizes what is known.
IsValue(v) ==
  /\ DOMAIN v = {"k", "dims", "shape", "data", "dtype", "const", "keep"}
  /\ v.k \in {"scalar", "tensor"} /\ (v.k = "scalar" => v.dims = << >>)
  /\ v.dims \in Seq(Nat) /\ v.shape \in Seq(Nat \cup {Dyn}) /\ Len(v.shape) = Len(v.dims)
  /\ \A i \in 1 .. Len(v.dims) : v.shape[i] \in {Dyn, v.dims[i]}

\* Steps are positive, as ARangeOp::verify wants them, but for the reversal of
\* a whole axis, which is not supported.
IsIndex(idx) ==
  /\ idx.elems \in Seq(ToSet(idx.elems))
  /\ \A i \in DOMAIN idx.elems :
       LET e == idx.elems[i]
       IN /\ e.k \in {"scalar", "tensor"} => IsValue(e)
          /\ e.k = "tensor" => e.dims # << >> /\ Last(e.shape) # Dyn
          /\ e.k = "list" => e.dims \in Seq(Nat) /\ e.dims # << >>
          /\ e.k = "slice" => /\ e.start \in Int /\ e.stop \in Int /\ e.step \in Int /\ e.dyn \in BOOLEAN
                              /\ e.step >= 1 \/ (e.step = -1 /\ e.start = Absent /\ e.stop = Absent)

ASSUME ValuesAssumption ==
  /\ \A f \in Frames : \A n \in Names : IsValue(f[n].v)
  /\ \A n \in 1 .. MaxStatements :
       /\ \A idx \in Reads[n] \cup Writes[n] : IsIndex(idx)
       /\ \A r \in Ranges[n] : r.start \in Int /\ r.stop \in Int /\ r.step \in Int /\ r.step >= 1

VARIABLES
  frame,    \* f_locals: for each variable the object in it and the value it wraps
  objects,  \* number of objects made so far
  array,    \* ghost: which array a variable stands for, as Python sees assignment
  writes,   \* ghost: how often each array was written to
  last,     \* the last statement with its operands and its result
  steps     \* statements executed
vars == <<frame, objects, array, writes, last, steps>>

Raised == [k |-> "raised"]
NoneIndex == [k |-> "None"]
Ellipsis == [k |-> "Ellipsis"]
Slice(start, stop, step) == [k |-> "slice", start |-> start, stop |-> stop, step |-> step, dyn |-> FALSE]
FullSlice == Slice(Absent, Absent, Absent)

(***************************************************************************)
(* Literals and arithmetic.                                                *)
(***************************************************************************)
TypeOf(v) == [shape |-> v.shape, dtype |-> v.dtype]
NoType == [shape |-> << >>, dtype |-> "inferred"]

\* A number for a tensor type becomes a tensor of ones, whatever the number.
constant(value, type) ==
  IF type.shape # << >> /\ value.dims = << >>
  THEN [dims |-> type.shape, data |-> [k \in 1 .. Product(type.shape) |-> 1], dtype |-> type.dtype]
  ELSE [dims |-> value.dims, data |-> value.data,
        dtype |-> IF type = NoType THEN value.dtype ELSE type.dtype]

\* ArithValueMeta.__call__ around a Python value.
Wrapped(value, type, fold) ==
  LET c == constant(value, type)
  IN [k |-> IF c.dims = << >> THEN "scalar" ELSE "tensor", dims |-> c.dims, shape |-> c.dims,
      data |-> c.data, dtype |-> c.dtype, const |-> TRUE, keep |-> fold]

IndexScalar(d) == Wrapped([dims |-> << >>, data |-> <<d>>], [shape |-> << >>, dtype |-> "index"], TRUE)
as_index_tensor(val) == Wrapped(val, [shape |-> << >>, dtype |-> "index"], TRUE)

fold(v) == v.const /\ v.keep

Apply(op, a, b) == CASE op = "add" -> a + b [] op = "sub" -> a - b [] op = "mul" -> a * b
Elementwise(op, a, b) == [k \in DOMAIN a |-> Apply(op, a[k], b[k])]

\* A number cannot be broadcast to a type with a size that is not known.
Operand(self, other) ==
  IF other.k # "literal" THEN other
  ELSE IF other.dims = << >> /\ Dyn \in ToSet(self.shape) THEN Raised
  ELSE Wrapped(other, TypeOf(self), TRUE)

Computed(self, rhs, data) ==
  IF fold(self) /\ fold(rhs)
  THEN Wrapped([dims |-> self.dims, data |-> data], [NoType EXCEPT !.dtype = self.dtype], TRUE)
  ELSE Runtime(self, self.dims, self.shape, data)

\* Also what __radd__, __rsub__ and __rmul__ do.
binary_op(self, other, op) ==
  LET rhs == Operand(self, other)
  IN IF rhs.k # self.k \/ TypeOf(rhs) # TypeOf(self) THEN Raised
     ELSE Computed(self, rhs, Elementwise(op, self.data, rhs.data))

(***************************************************************************)
(* arange(start, stop, step, fold), where foldable says that all arguments *)
(* are literals or foldable constants.  Without a step, a start other than *)
(* 0 fails: on step.fold(), or in ARangeOp.__init__.                       *)
(***************************************************************************)
arange(start, stop, step, foldable, folds) ==
  LET Made(a, b, s) == IF foldable /\ folds
                       THEN LET data == ARangeLoop(a, b, s)
                            IN as_index_tensor([dims |-> <<Len(data), 1>>, data |-> data])
                       ELSE ARangeOp(a, b, s)
  IN CASE stop = Absent /\ step = Absent    -> Made(0, start, 1)
       [] stop # Absent /\ step # Absent    -> Made(start, stop, step)
       [] stop # Absent /\ step = Absent /\ start = 0 -> Made(0, stop, 1)
       [] OTHER                             -> Raised

\* slice(start, stop, step).indices(n), for a positive step.
Clipped(i, n, default) ==
  IF i = Absent THEN default
  ELSE LET j == IF i < 0 THEN i + n ELSE i IN IF j < 0 THEN 0 ELSE IF j > n THEN n ELSE j

(***************************************************************************)
(* _expand_dims.                                                           *)
(***************************************************************************)
InsertOne(s, d) ==
  LET i == IF d > Len(s) THEN Len(s) ELSE d
  IN SubSeq(s, 1, i) \o <<1>> \o SubSeq(s, i + 1, Len(s))

InsertOnes(shape, newaxis_dims) ==
  LET n == Len(newaxis_dims)
      inserted[i \in 0 .. n] ==
        IF i = 0 THEN shape ELSE InsertOne(inserted[i - 1], newaxis_dims[n + 1 - i])
  IN inserted[n]

\* The loop that builds reassoc_list; << >> if pop() fails.
Reassociate(rank, newaxis_dims) ==
  FoldLeft(LAMBDA g, i :
             LET grown == Append(g, <<rank + i - 1>>)
                 d == IF newaxis_dims[i] = 0 THEN 1 ELSE newaxis_dims[i]
             IN IF g = << >> \/ d >= Len(grown) THEN << >>
                ELSE RemoveAt([grown EXCEPT ![d] = @ \o grown[d + 1]], d + 1),
           [i \in 1 .. rank |-> <<i - 1>>], [i \in DOMAIN newaxis_dims |-> i])

expand_dims(inp, newaxis_dims) ==
  LET groups == Reassociate(Len(inp.shape), newaxis_dims)
  IN CASE newaxis_dims = << >> -> inp
       [] newaxis_dims # << >> /\ inp.k = "scalar" ->
            IF fold(inp) THEN as_index_tensor([dims |-> [i \in DOMAIN newaxis_dims |-> 1], data |-> inp.data])
            ELSE [Runtime(inp, [i \in DOMAIN newaxis_dims |-> 1], [i \in DOMAIN newaxis_dims |-> 1],
                          inp.data) EXCEPT !.k = "tensor"]
       [] newaxis_dims # << >> /\ inp.k = "tensor" /\ fold(inp) ->
            as_index_tensor([dims |-> InsertOnes(inp.shape, newaxis_dims), data |-> inp.data])
       [] newaxis_dims # << >> /\ inp.k = "tensor" /\ ~fold(inp) /\ groups = << >> -> Raised
       [] OTHER -> ExpandShapeOp(inp, InsertOnes(inp.dims, newaxis_dims), InsertOnes(inp.shape, newaxis_dims),
                                groups)

(***************************************************************************)
(* Index tuples.                                                           *)
(***************************************************************************)
IsScalar(e) == e.k = "scalar" /\ e.dtype = "index"
IsIndexTensor(e) == e.k = "tensor" /\ e.dtype = "index"
Basic(e) == e.k \in {"None", "Ellipsis", "slice"}

is_advanced_int_indexer(idx) ==
  /\ \E i \in DOMAIN idx : ~Basic(idx[i]) /\ ~IsScalar(idx[i])
  /\ \A i \in DOMAIN idx : Basic(idx[i]) \/ idx[i].k = "list" \/ IsIndexTensor(idx[i])

\* Defect: every None counts as an index.
CanonicalizeCountsNone(idx, rank) ==
  LET given == Len(SelectSeq(idx, LAMBDA e : e.k # "Ellipsis"))
      colons == [i \in 1 .. rank - given |-> FullSlice]
      dots == {i \in DOMAIN idx : idx[i].k = "Ellipsis"}
  IN IF given > rank \/ Cardinality(dots) > 1 THEN <<Raised>>
     ELSE IF dots = {} THEN idx \o colons
     ELSE LET d == CHOOSE i \in dots : TRUE
          IN SubSeq(idx, 1, d - 1) \o colons \o SubSeq(idx, d + 1, Len(idx))

\* An index tensor counts as one index, however many axes it takes.
canonicalize_tuple_index(idx, rank) ==
  LET cast == [i \in DOMAIN idx |-> IF is_advanced_int_indexer(idx) /\ idx[i].k = "list"
                                    THEN as_index_tensor(idx[i]) ELSE idx[i]]
      len_without_none == Cardinality({i \in DOMAIN idx : idx[i].k \notin {"None", "Ellipsis"}})
      colons == [i \in 1 .. rank - len_without_none |-> FullSlice]
      ellipses == {i \in DOMAIN idx : idx[i].k = "Ellipsis"}
  IN IF len_without_none > rank \/ Cardinality(ellipses) > 1 THEN <<Raised>>
     ELSE IF ellipses = {} THEN cast \o colons
     ELSE LET d == CHOOSE i \in ellipses : TRUE
          IN SubSeq(cast, 1, d - 1) \o colons \o SubSeq(cast, d + 1, Len(idx))

\* Every other element of idx counts as an axis, and what the slices before
\* the first index tensor collapsed counts twice.
compute_idx_tensor_extent(collapsed_dims, idx, idx_advanced_axes) ==
  FoldLeft(LAMBDA s, i :
             IF i \in idx_advanced_axes
             THEN LET width == Last(idx[i].shape)
                  IN [dims |-> s.dims \o [j \in 1 .. width |-> s.prev + j], prev |-> s.prev + width]
             ELSE [s EXCEPT !.prev = @ + 1],
           [dims |-> collapsed_dims, prev |-> IF collapsed_dims = << >> THEN -1 ELSE Last(collapsed_dims)],
           [i \in DOMAIN idx |-> i]).dims

\* A slice at the current axis.  A size that is not known is negative, and so
\* below every stop.
VisitSlice(s, e, in_shape) ==
  LET size == IF s.in_axis < Len(in_shape) THEN in_shape[s.in_axis + 1] ELSE Junk
      unit == e.step \in {Absent, 1}
      start == IF unit /\ e.start = 0 /\ ~e.dyn THEN Absent ELSE e.start
      stop == IF unit /\ e.stop # Absent /\ e.stop >= size THEN Absent ELSE e.stop
      step == IF unit THEN Absent ELSE e.step
      whole == start = Absent /\ stop = Absent /\ step \in {Absent, -1}
      ara == IF e.dyn THEN ARangeOp(start, stop, step)     \* arange() of three arguments
             ELSE ARangeOp(Clipped(start, size, 0), Clipped(stop, size, size),
                           IF unit THEN 1 ELSE step)
      fails == \/ e.dyn /\ unit                       \* a Scalar has no >=
               \/ e.dyn /\ (start = Absent \/ stop = Absent)  \* nor None a fold()
               \/ whole /\ step = -1                  \* not yet supported
               \/ size = Junk /\ (e.stop # Absent \/ ~whole)   \* no such axis
               \/ ~whole /\ ~e.dyn /\ size = Dyn      \* slice.indices() of a negative length
      next == [s EXCEPT !.in_axis = @ + 1, !.out_axis = @ + 1]
  IN IF fails THEN [s EXCEPT !.ok = FALSE]
     ELSE IF whole THEN next
     ELSE [next EXCEPT !.indices = Append(@, ara), !.collapsed_dims = Append(@, s.in_axis)]

IndexTensors(idx) == FlattenSeq([i \in DOMAIN idx |-> IF IsIndexTensor(idx[i]) THEN <<idx[i]>> ELSE << >>])

\* One round of the loop over the elements of the canonical tuple.
VisitIndex(s, i, idx, in_shape) ==
  LET e == idx[i]
      axes == IF is_advanced_int_indexer(idx) THEN {j \in DOMAIN idx : IsIndexTensor(idx[j])} ELSE {}
      contiguous == \A a, b \in axes : \A c \in a .. b : c \in axes
      here == axes # {} /\ i = IF contiguous THEN CHOOSE a \in axes : \A b \in axes : a <= b ELSE 1
      t == IF ~here THEN s
           ELSE [s EXCEPT !.indices = @ \o IndexTensors(idx),
                          !.collapsed_dims = compute_idx_tensor_extent(@, idx, axes),
                          !.ok = @ /\ \A a, b \in axes : idx[a].shape = idx[b].shape]
  IN IF ~t.ok THEN t ELSE
     CASE i \in axes       -> [t EXCEPT !.in_axis = @ + Last(e.shape)]
       [] IsScalar(e)      -> [t EXCEPT !.indices = Append(@, expand_dims(e, <<0, 1>>)),
                                        !.collapsed_dims = Append(@, t.in_axis), !.in_axis = @ + 1]
       [] e.k = "None"     -> [t EXCEPT !.newaxis_dims = Append(@, t.out_axis), !.out_axis = @ + 1]
       [] e.k = "slice"    -> VisitSlice(t, e, in_shape)
       [] OTHER            -> [t EXCEPT !.ok = FALSE]

\* concatenate(tens, -1), which asserts that the static shapes are equal.
concatenate(tens) ==
  IF \E i \in DOMAIN tens : tens[i].shape # tens[1].shape THEN Raised
  ELSE IF \A i \in DOMAIN tens : fold(tens[i])
  THEN Joined(tens)
  ELSE [Joined(tens) EXCEPT !.const = FALSE, !.keep = TRUE]

Coordinates(t) == {SubSeq(t.data, j * Last(t.dims) + 1, (j + 1) * Last(t.dims)) :
                     j \in 0 .. Product(Front(t.dims)) - 1}
DistinctCoordinates(t) == Cardinality(Coordinates(t)) = Product(Front(t.dims))

\* Defect: index tensors that are only known at run time are taken to be distinct.
UniqueUnlessSeen(indices, advanced) == IF fold(indices) THEN DistinctCoordinates(indices) ELSE TRUE

unique_indices(indices, advanced) ==
  IF fold(indices) THEN DistinctCoordinates(indices) ELSE ~advanced

Indexer(s, indices, advanced) ==
  IF ~s.ok \/ indices = Raised THEN Raised
  ELSE [k |-> "indexer", indices |-> indices, newaxis_dims |-> s.newaxis_dims,
        collapsed_dims |-> SortSeq(s.collapsed_dims, <),
        unique |-> indices # NoneIndex /\ unique_indices(indices, advanced)]

indices_to_indexer(idx, in_shape) ==
  LET canonical == canonicalize_tuple_index(idx, Len(in_shape))
      visited[i \in 0 .. Len(canonical)] ==
        IF i = 0
        THEN [in_axis |-> 0, out_axis |-> 0, collapsed_dims |-> << >>, indices |-> << >>,
              newaxis_dims |-> << >>, ok |-> TRUE]
        ELSE VisitIndex(visited[i - 1], i, canonical, in_shape)
      s == visited[Len(canonical)]
  IN Indexer(s, IF s.indices = << >> THEN NoneIndex ELSE concatenate(s.indices),
             is_advanced_int_indexer(canonical))

IsEmpty(indexer) == indexer.indices = NoneIndex \/ 0 \in ToSet(indexer.indices.shape)

(***************************************************************************)
(* Reading and writing.  idx is [bare |-> x[e] rather than x[e, ...],      *)
(* elems |-> ...].  gathered is the indexer of the op that was built, if   *)
(* any.                                                                    *)
(***************************************************************************)
Whole(idx) == IF idx.bare THEN idx.elems[1] \in {Ellipsis, FullSlice}
              ELSE \A i \in DOMAIN idx.elems : idx.elems[i] = FullSlice

\* int indices as index constants.
AsScalars(elems) == [i \in DOMAIN elems |-> IF elems[i].k = "int" THEN IndexScalar(elems[i].v) ELSE elems[i]]

Result(v) == [v |-> v, gathered |-> NoneIndex]

build_gather(ten, indexer) ==
  IF indexer = Raised THEN Result(Raised)
  ELSE IF IsEmpty(indexer) THEN Result(expand_dims(ten, indexer.newaxis_dims))
  ELSE [v |-> expand_dims(GatherOp(ten, indexer.indices, indexer.collapsed_dims), indexer.newaxis_dims),
        gathered |-> indexer]

getitem(ten, idx) ==
  LET elems == AsScalars(idx.elems)
  IN CASE Whole(idx)                                   -> Result(ten)
       [] idx.bare /\ idx.elems[1] = NoneIndex         -> Result(expand_dims(ten, <<0>>))
       [] idx.bare /\ idx.elems[1].k # "int" /\ idx.elems[1] # NoneIndex /\ ~Whole(idx)
            -> Result(Raised)                          \* list() of something that has no elements
       [] (idx.bare => idx.elems[1].k = "int") /\ ~Whole(idx) ->
            IF Len(elems) = Len(ten.shape) /\ \A i \in DOMAIN elems : elems[i].k = "scalar" /\ fold(elems[i])
            THEN LET c == [i \in DOMAIN elems |-> elems[i].data[1]]
                 IN Result([Runtime(ten, << >>, << >>, <<At(ten, c)>>) EXCEPT !.k = "scalar"])
            ELSE build_gather(ten, indices_to_indexer(elems, ten.shape))

\* Defect: scatters along the first axes, not along those that were indexed.
ScatterAlongFirst(dest, from, indexer) ==
  LET gd == [i \in DOMAIN indexer.collapsed_dims |-> i - 1]
  IN IF indexer = Raised \/ indexer.indices = NoneIndex THEN Result(Raised)
     ELSE IF inferReturnTypes(dest.shape, indexer.indices.shape, gd) # from.shape THEN Result(Raised)
     ELSE IF IsEmpty(indexer) THEN Result(dest)
     ELSE [v |-> ScatterOp(from, dest, indexer.indices, gd), gathered |-> indexer]

\* Returns the written tensor, or dest where nothing is written.
build_scatter(dest, from, indexer) ==
  IF indexer = Raised \/ indexer.indices = NoneIndex THEN Result(Raised)
  ELSE IF inferReturnTypes(dest.shape, indexer.indices.shape, indexer.collapsed_dims) # from.shape
  THEN Result(Raised)
  ELSE IF IsEmpty(indexer) THEN Result(dest)
  ELSE [v |-> ScatterOp(from, dest, indexer.indices, indexer.collapsed_dims), gathered |-> indexer]

setitem(dest, idx, source) ==
  CASE Whole(idx)                            -> Result(IF dest.shape = source.shape THEN dest ELSE Raised)
    [] ~Whole(idx) /\ idx.bare /\ idx.elems[1].k # "int" -> Result(Raised)
    [] OTHER                                 ->
         build_scatter(dest, IF source.k = "scalar" THEN expand_dims(source, <<0>>) ELSE source,
                       indices_to_indexer(AsScalars(idx.elems), dest.shape))

\* Defect: only the variable of the statement is updated.
UpdateOneVar(name, new) ==
  /\ frame' = [frame EXCEPT ![name] = [obj |-> objects + 1, v |-> new]]
  /\ objects' = objects + 1

\* _update_caller_vars: maybe_cast makes an object of its own for every variable.
update_caller_vars(name, new) ==
  LET same == {n \in Names : frame[n].obj = frame[name].obj}
      order == SetToSeq(same)
  IN /\ frame' = [n \in Names |-> IF n \in same
                                  THEN [obj |-> objects + (CHOOSE i \in DOMAIN order : order[i] = n), v |-> new]
                                  ELSE frame[n]]
     /\ objects' = objects + Cardinality(same)

(***************************************************************************)
(* Statements.  An exception ends the body.                                *)
(***************************************************************************)
Nothing == [k |-> "nothing"]

Init ==
  /\ \E f \in Frames :
       /\ frame = [n \in Names |-> [obj |-> f[n].obj, v |-> f[n].v]]
       /\ array = [n \in Names |-> f[n].obj]
  /\ objects = Cardinality(Names)
  /\ writes = [a \in 1 .. Cardinality(Names) + MaxStatements |-> 0]
  /\ last = Nothing /\ steps = 0

Executed(v) == steps' = IF v = Raised THEN MaxStatements ELSE steps + 1

Assigned(y, v) ==
  IF v = Raised THEN UNCHANGED <<frame, objects, array>>
  ELSE /\ frame' = [frame EXCEPT ![y] = [obj |-> objects + 1, v |-> v]]
       /\ objects' = objects + 1
       /\ array' = [array EXCEPT ![y] = Cardinality(Names) + steps + 1]

Get(y, x, idx) ==
  /\ frame[x].v.k = "tensor"
  /\ \E r \in {getitem(frame[x].v, idx)} :
        /\ last' = [k |-> "get", x |-> frame[x].v, idx |-> idx, r |-> r]
        /\ IF Whole(idx)
           THEN /\ frame' = [frame EXCEPT ![y] = frame[x]] /\ array' = [array EXCEPT ![y] = array[x]]
                /\ UNCHANGED objects
           ELSE Assigned(y, r.v)
        /\ Executed(r.v)
  /\ UNCHANGED writes

Set(x, idx, z) ==
  /\ frame[x].v.k = "tensor"
  /\ \E r \in {setitem(frame[x].v, idx, frame[z].v)} :
        /\ last' = [k |-> "set", name |-> x, x |-> frame[x].v, idx |-> idx, z |-> frame[z].v, r |-> r]
        /\ IF r.v = Raised \/ Whole(idx)
           THEN UNCHANGED <<frame, objects>>
           ELSE update_caller_vars(x, r.v)
        /\ writes' = [writes EXCEPT ![array[x]] = @ + 1]
        /\ Executed(r.v)
  /\ UNCHANGED array

Compute(y, x, op, z) ==
  /\ LET v == binary_op(frame[x].v, z, op)
     IN /\ last' = [k |-> "compute", x |-> frame[x].v, op |-> op, z |-> z, v |-> v]
        /\ Assigned(y, v) /\ Executed(v)
  /\ UNCHANGED writes

Range_(y, r) ==
  /\ LET v == arange(r.start, r.stop, r.step, r.foldable, r.fold)
     IN /\ last' = [k |-> "arange", r |-> r, v |-> v]
        /\ Assigned(y, v) /\ Executed(v)
  /\ UNCHANGED writes

Alias(y, x) ==
  /\ frame' = [frame EXCEPT ![y] = frame[x]] /\ array' = [array EXCEPT ![y] = array[x]]
  /\ last' = Nothing /\ steps' = steps + 1
  /\ UNCHANGED <<objects, writes>>

Next ==
  LET n == steps + 1
  IN /\ steps < MaxStatements
     /\ \E x \in Names, y \in Targets :
          \/ \E idx \in Reads[n] : Get(y, x, idx)
          \/ \E idx \in Writes[n], z \in Names : Set(x, idx, z)
          \/ \E op \in {"add", "sub", "mul"}, z \in Operands \cup {frame[m].v : m \in Names} :
               Compute(y, x, op, z)
          \/ \E r \in Ranges[n] : Range_(y, r)
          \/ Alias(y, x)

Spec == Init /\ [][Next]_vars
=============================================================================
