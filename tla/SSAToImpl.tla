------------------------------ MODULE SSAToImpl ------------------------------
(* src/ssa_to_impl.py, and src/fuse_proj_into_scan.py, the one optimisation *)
(* on what it produces.                                                    *)
EXTENDS RelData
LOCAL INSTANCE SequencesExt
LOCAL R == INSTANCE RelImpl

convert_datatype(type) ==
  IF type.d = "ssa" THEN [op |-> "type", type |-> Type("impl", type.t, type.null)]
  ELSE Raise("datatype conversion not yet implemented")

convert_bag(bag) ==
  ThenAll(Map(convert_datatype, Types(bag)), LAMBDA ts :
    [op |-> "bag", schema |-> R!Bag(Map(LAMBDA t : t.type, ts), Names(bag))])

create_tuple_of_bag(bag) == R!Tuple(Types(bag), Names(bag))

LiteralRewriter(e) == Then(convert_datatype(e.result), LAMBDA t : R!Literal(e.val, t.type))
(* arg is the schema of the region's one block argument. *)
ColumnRewriter(e, arg) ==
  IF e.col_name \notin Elems(Names(arg)) THEN Raise("assert: no tuple has the column")
  ELSE Then(convert_datatype(e.result), LAMBDA t : R!IndexByName(e.col_name, t.type))

RECURSIVE ExprToImpl(_, _)
CompareRewriter(e, arg) ==
  ThenAll(<<ExprToImpl(e.left, arg), ExprToImpl(e.right, arg)>>, LAMBDA s :
    R!Compare(s[1], s[2], e.comparator))
AndRewriter(e, arg) ==
  ThenAll(<<ExprToImpl(e.lhs, arg), ExprToImpl(e.rhs, arg)>>, LAMBDA s : R!And(s[1], s[2]))
BinOpRewriter(e, arg) ==
  ThenAll(<<ExprToImpl(e.lhs, arg), ExprToImpl(e.rhs, arg)>>, LAMBDA s :
    R!BinOp(s[1], s[2], e.operator))
YieldTupleRewriter(e, arg) ==
  ThenAll(Map(LAMBDA x : ExprToImpl(x, arg), e.ops), LAMBDA es : R!YieldTuple(es))
YieldValueRewriter(e, arg) == Then(ExprToImpl(e.value, arg), LAMBDA x : R!YieldValue(x))
ExprToImpl(e, arg) ==
  CASE e.op = "literal"     -> LiteralRewriter(e)
    [] e.op = "column"      -> ColumnRewriter(e, arg)
    [] e.op = "compare"     -> CompareRewriter(e, arg)
    [] e.op = "and"         -> AndRewriter(e, arg)
    [] e.op = "bin_op"      -> BinOpRewriter(e, arg)
    [] e.op = "yield_tuple" -> YieldTupleRewriter(e, arg)
    [] e.op = "yield_value" -> YieldValueRewriter(e, arg)

RECURSIVE ToImpl(_)
OrderByRewriter(o) ==
  Then(ToImpl(o.input), LAMBDA i :
    R!MergeSort(i, Map(LAMBDA k : k.col, o.by), Map(LAMBDA k : k.order, o.by)))
ProjectRewriter(o) ==
  Then(ToImpl(o.input), LAMBDA i :
    LET arg == create_tuple_of_bag(i.result)
    IN  ThenAll(<<convert_bag(o.result), ExprToImpl(o.projection, arg)>>, LAMBDA s :
          R!Project(i, s[1].schema, arg, s[2])))
CartesianProductRewriter(o) ==
  ThenAll(<<ToImpl(o.left), ToImpl(o.right)>>, LAMBDA s : R!CartesianProduct(s[1], s[2]))
SelectRewriter(o) ==
  Then(ToImpl(o.input), LAMBDA i :
    LET arg == create_tuple_of_bag(i.result)
    IN  Then(ExprToImpl(o.predicates, arg), LAMBDA ps : R!Select(i, arg, ps)))
TableRewriter(o) ==
  Then(convert_bag(o.result), LAMBDA b : R!FullTableScanOp(o.table_name, b.schema, <<>>))
AggregateRewriter(o) ==
  Then(ToImpl(o.input), LAMBDA i :
    R!Aggregate(i, o.col_names, o.functions, Names(o.result), o.by))
LimitRewriter(o) == Then(ToImpl(o.input), LAMBDA i : R!Limit(i, o.n))

ToImpl(o) ==
  CASE o.op = "table"             -> TableRewriter(o)
    [] o.op = "select"            -> SelectRewriter(o)
    [] o.op = "aggregate"         -> AggregateRewriter(o)
    [] o.op = "project"           -> ProjectRewriter(o)
    [] o.op = "cartesian_product" -> CartesianProductRewriter(o)
    [] o.op = "order_by"          -> OrderByRewriter(o)
    [] o.op = "limit"             -> LimitRewriter(o)

ssa_to_impl(query) == ToImpl(query)

-----------------------------------------------------------------------------
RECURSIVE ColsRead(_)
ColsRead(e) ==
  CASE e.op = "index_by_name" -> <<e.col_name>>
    [] e.op = "literal"       -> <<>>
    [] e.op = "compare"       -> ColsRead(e.left) \o ColsRead(e.right)
    [] e.op \in {"and", "bin_op"} -> ColsRead(e.lhs) \o ColsRead(e.rhs)

(* A projection of a table becomes a scan of the columns it reads.  The     *)
(* types given to those columns are the types of the values yielded.        *)
ProjScanFuser(o) ==
  LET yielded == o.projection.ops
      used_cols == FromKeys(FlattenSeq(Map(ColsRead, yielded)))
      col_types == Map(LAMBDA e : e.result, yielded)
      scan == R!FullTableScanOp(o.input.table_name, R!Bag(col_types, used_cols), used_cols)
  IN  IF Len(used_cols) = Len(o.input.result) THEN o
      ELSE IF \A i \in DOMAIN yielded : yielded[i].op = "index_by_name" THEN scan
      ELSE R!Project(scan, o.result, R!Tuple(col_types, Names(scan.result)), o.projection)

RECURSIVE fuse_proj_into_scan(_)
fuse_proj_into_scan(o) ==
  CASE o.op = "full_table_scan" -> o
    [] o.op = "cartesian_product" ->
         [o EXCEPT !.left = fuse_proj_into_scan(@), !.right = fuse_proj_into_scan(@)]
    [] o.op = "project" /\ o.input.op = "full_table_scan" -> ProjScanFuser(o)
    [] OTHER -> [o EXCEPT !.input = fuse_proj_into_scan(@)]
=============================================================================
