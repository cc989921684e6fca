------------------------------- MODULE AlgToSSA ------------------------------
(***************************************************************************)
(* src/alg_to_ssa.py.  Three walks: operators, inner ones first, so that    *)
(* the schema of an input is known; expressions, which take their types     *)
(* from the operator around them; and the yields of each region into one.   *)
(***************************************************************************)
EXTENDS RelData
LOCAL S == INSTANCE RelSSA

convert_datatype(type) ==
  IF type.d = "alg" THEN Type("ssa", type.t, type.null)
  ELSE Raise("datatype conversion not yet implemented")

(* Second walk, with the operator it climbs to given by its input's schema. *)
find_type_in_parent_operator_inputs(name, schema) == LookupType(schema, name)

LiteralRewriter(e) == S!Literal(e.val, convert_datatype(e.type))
ColumnRewriter(e, schema) ==
  LET type == find_type_in_parent_operator_inputs(e.col_name, schema)
  IN  IF type = NoType THEN Raise("element not found in parent schema")
      ELSE S!Column(e.col_name, type)

RECURSIVE ExprToSSA(_, _)
CompareRewriter(e, schema) ==
  ThenAll(<<ExprToSSA(e.left, schema), ExprToSSA(e.right, schema)>>, LAMBDA s :
    S!Compare(s[1], s[2], e.comparator))
BinOpRewriter(e, schema) ==
  ThenAll(<<ExprToSSA(e.lhs, schema), ExprToSSA(e.rhs, schema)>>, LAMBDA s :
    S!BinOp(s[1], s[2], e.operator))
ExprToSSA(e, schema) ==
  CASE e.op = "literal" -> LiteralRewriter(e)
    [] e.op = "column"  -> ColumnRewriter(e, schema)
    [] e.op = "compare" -> CompareRewriter(e, schema)
    [] e.op = "bin_op"  -> BinOpRewriter(e, schema)

(* Third walk. *)
ProjectYieldCombiner(es) == S!YieldTuple(es)

(* The two last are popped and their conjunction pushed, until one is left. *)
RECURSIVE AndAll(_)
AndAll(es) ==
  IF Len(es) = 1 THEN es[1]
  ELSE AndAll(Append(SubSeq(es, 1, Len(es) - 2), S!And(es[Len(es)], es[Len(es) - 1])))
SelectYieldCombiner(es) ==
  IF es = <<>> THEN Raise("IndexError: no yield") ELSE S!YieldValue(AndAll(es))

(* First walk. *)
RECURSIVE find_type_of_expression(_, _)
find_type_of_expression(e, bag) ==
  CASE e.op = "column"  -> [op |-> "type", type |-> LookupType(bag, e.col_name)]
    [] e.op = "literal" -> [op |-> "type", type |-> e.type]
    [] e.op = "bin_op"  -> find_type_of_expression(e.lhs, bag)
    [] OTHER            -> Raise("expression conversion not yet implemented")

RECURSIVE ToSSA(_)
ProjectRewriter(o) ==
  Then(ToSSA(o.input), LAMBDA i :
    ThenAll(Map(LAMBDA e : find_type_of_expression(e, i.result), o.projections), LAMBDA ts :
      ThenAll(Map(LAMBDA e : ExprToSSA(e, i.result), o.projections), LAMBDA es :
        S!Project(i, S!Bag(o.names, Map(LAMBDA t : t.type, ts)), ProjectYieldCombiner(es)))))
SelectRewriter(o) ==
  Then(ToSSA(o.input), LAMBDA i :
    ThenAll(Map(LAMBDA e : ExprToSSA(e, i.result), o.predicates), LAMBDA es :
      Then(SelectYieldCombiner(es), LAMBDA y : S!Select(i, y))))
CartesianProductRewriter(o) ==
  ThenAll(<<ToSSA(o.left), ToSSA(o.right)>>, LAMBDA s : S!CartesianProduct(s[1], s[2]))
OrderByRewriter(o) ==
  Then(ToSSA(o.input), LAMBDA i :
    S!OrderBy(i, Map(LAMBDA k : k.col, o.by), Map(LAMBDA k : k.order, o.by)))
TableRewriter(o) ==
  S!Table(o.table_name, S!Bag(Names(o.schema), Map(convert_datatype, Types(o.schema))))
AggregateRewriter(o) ==
  Then(ToSSA(o.input), LAMBDA i :
    S!Aggregate(i, o.col_names, o.functions, o.res_names, o.by))
LimitRewriter(o) == Then(ToSSA(o.input), LAMBDA i : S!Limit(i, o.n))

ToSSA(o) ==
  CASE o.op = "table"             -> TableRewriter(o)
    [] o.op = "select"            -> SelectRewriter(o)
    [] o.op = "aggregate"         -> AggregateRewriter(o)
    [] o.op = "project"           -> ProjectRewriter(o)
    [] o.op = "order_by"          -> OrderByRewriter(o)
    [] o.op = "limit"             -> LimitRewriter(o)
    [] o.op = "cartesian_product" -> CartesianProductRewriter(o)

alg_to_ssa(query) == ToSSA(query)
=============================================================================
