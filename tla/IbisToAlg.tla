------------------------------ MODULE IbisToAlg -----------------------------
(***************************************************************************)
(* src/ibis_to_alg.py.  The walk rewrites an operation before the regions   *)
(* it holds, so each rewriter sees its children still in the ibis dialect.  *)
(***************************************************************************)
EXTENDS RelData
LOCAL A == INSTANCE RelAlg

convert_datatype(type) == Type("alg", type.t, type.null)

RECURSIVE ToAlg(_)

(* A region of several operations; Between is the one that becomes two. *)
ToAlgList(l) ==
  LET Rewritten(e) ==
        IF e.op = "between"
        THEN <<A!Compare("<=", ToAlg(e.lower_bound), ToAlg(e.arg)),
               A!Compare("<=", ToAlg(e.arg), ToAlg(e.upper_bound))>>
        ELSE <<ToAlg(e)>>
      Cat[i \in 0..Len(l)] == IF i = 0 THEN <<>> ELSE Cat[i - 1] \o Rewritten(l[i])
  IN  Cat[Len(l)]

SchemaElementRewriter(s) == A!SchemaElement(s.elt_name, convert_datatype(s.elt_type))
UnboundTableRewriter(o) == A!Table(o.table_name, Map(SchemaElementRewriter, o.schema))
LiteralRewriter(o) == A!Literal(o.val, convert_datatype(o.type))
LimitRewriter(o) == Then(ToAlg(o.table), LAMBDA t : A!Limit(t, o.n))

Comparators == [equals |-> "=", greaterEqual |-> ">=", greaterThan |-> ">",
                lessThan |-> "<", lessEqual |-> "<="]
CompareRewriters(o) == A!Compare(Comparators[o.op], ToAlg(o.left), ToAlg(o.right))

TableColumnRewriter(o) == A!Column(o.col_name)

(* A selection is one of the three: predicates and projections exclude each *)
(* other, and its sort keys count only when it has neither.                 *)
SelectionRewriter(o) ==
  IF o.predicates # <<>> /\ o.projections # <<>>
  THEN Raise("assert: predicates and projections")
  ELSE Then(ToAlg(o.table), LAMBDA t :
    IF o.predicates # <<>> THEN A!Select(t, ToAlgList(o.predicates))
    ELSE IF o.projections # <<>> THEN A!Project(t, ToAlgList(o.projections), o.names)
    ELSE IF \E i \in DOMAIN o.sort_keys : o.sort_keys[i].expr.op # "table_column"
    THEN Raise("assert: a sort key that is not a column")
    ELSE A!OrderBy(t, Map(LAMBDA k : k.expr.col_name, o.sort_keys),
                      Map(LAMBDA k : k.order, o.sort_keys)))

CartesianProductRewriter(o) ==
  ThenAll(<<ToAlg(o.left), ToAlg(o.right)>>, LAMBDA s : A!CartesianProduct(s[1], s[2]))

Function == [sum |-> "sum", min |-> "min", max |-> "max", mean |-> "avg",
             countDistinct |-> "count_distinct", count |-> "count"]
get_col_name_and_function(m) ==
  IF m.op \notin DOMAIN Function THEN Raise("aggregation function not yet implemented")
  ELSE IF m.arg.op = "table_column"
  THEN [op |-> "metric", function |-> Function[m.op], col_name |-> m.arg.col_name]
  ELSE IF m.op = "count" THEN [op |-> "metric", function |-> "count", col_name |-> ""]
  ELSE Raise("KeyError: col_name")

AggregationRewriter(o) ==
  ThenAll(Map(get_col_name_and_function, o.metrics), LAMBDA ms :
    IF ms = <<>> THEN Raise("ValueError: no metrics")
    ELSE IF \E i \in DOMAIN o.by : o.by[i].op # "table_column"
    THEN Raise("assert: a key that is not a column")
    ELSE Then(ToAlg(o.table), LAMBDA t :
      A!Aggregate(t, Map(LAMBDA m : m.col_name, ms), Map(LAMBDA m : m.function, ms),
                  o.names, Map(LAMBDA b : b.col_name, o.by))))

Operators == [multiply |-> "*", divide |-> "/", subtract |-> "-", add |-> "+"]
BinOpRewriters(o) == A!BinOp(ToAlg(o.lhs), ToAlg(o.rhs), Operators[o.op])

ToAlg(o) ==
  CASE o.op = "unbound_table"          -> UnboundTableRewriter(o)
    [] o.op = "selection"              -> SelectionRewriter(o)
    [] o.op = "cartesian_product"      -> CartesianProductRewriter(o)
    [] o.op \in DOMAIN Comparators     -> CompareRewriters(o)
    [] o.op = "table_column"           -> TableColumnRewriter(o)
    [] o.op = "aggregation"            -> AggregationRewriter(o)
    [] o.op \in DOMAIN Operators       -> BinOpRewriters(o)
    [] o.op = "limit"                  -> LimitRewriter(o)
    [] o.op = "literal"                -> LiteralRewriter(o)

ibis_to_alg(query) == ToAlg(query)
=============================================================================
