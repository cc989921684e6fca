---------------------------- MODULE IbisFrontend ----------------------------
(***************************************************************************)
(* src/ibis_frontend.py: the visitor that turns an ibis query into the ibis *)
(* dialect.  An ibis node is a record with its class in the field node:     *)
(*   UnboundTable(name, schema)   InnerJoin(left, right, predicates)        *)
(*   Limit(table, n)              Aggregation(table, metrics, by)           *)
(*   Selection(table, predicates, selections, sort_keys)                    *)
(*   TableColumn(table, name)     Alias(arg, name)    Literal(value, dtype) *)
(*   SortKey(expr, ascending)     Between(arg, lower_bound, upper_bound)    *)
(*   arithmetic, comparisons and And(left, right), reductions(arg)          *)
(***************************************************************************)
EXTENDS RelData
LOCAL I == INSTANCE IbisDialect

Numeric == {"Multiply", "Subtract", "Add", "Divide"}
Comparisons == {"Equals", "GreaterEqual", "Greater", "LessEqual", "Less"}
Reductions == {"Sum", "Mean", "Max", "Min", "Count", "CountDistinct"}

(* ibis: the name a column of the result has. *)
GetName(n) == IF n.node \in {"TableColumn", "Alias"} THEN n.name ELSE "tmp"

convert_datatype(dtype) ==
  IF dtype.t \in TypeNames
  THEN [op |-> "type", type |-> Type("ibis", dtype.t, dtype.nullable)]
  ELSE Raise("datatype conversion not yet implemented")

(* A float becomes the integer it truncates to (halves are enough to tell), *)
(* a Decimal (in hundredths) and a date (in days) stay strings.             *)
convert_literal(literal) ==
  CASE literal.py = "int"     -> [op |-> "attr", attr |-> "integer", v |-> literal.v]
    [] literal.py = "float"   -> [op |-> "attr", attr |-> "integer", v |-> literal.v \div 2]
    [] literal.py \in {"str", "Decimal"} -> [op |-> "attr", attr |-> "string", v |-> literal.v]
    [] OTHER -> Raise("literal conversion not yet implemented")

visit_schema(schema) ==
  Map(LAMBDA s : Then(convert_datatype(s.dtype),
                      LAMBDA t : I!SchemaElement(s.name, t.type)), schema)

RECURSIVE visit(_)

(* Only an And that is itself an element of the list is split, once. *)
visit_ibis_expr_list(l) ==
  LET Visited(e) == IF e.node = "And" THEN <<visit(e.left), visit(e.right)>> ELSE <<visit(e)>>
      Cat[i \in 0..Len(l)] == IF i = 0 THEN <<>> ELSE Cat[i - 1] \o Visited(l[i])
  IN  Cat[Len(l)]

visit_numeric(e) ==
  ThenAll(<<visit(e.left), visit(e.right), convert_datatype(e.dtype)>>, LAMBDA s :
    CASE e.node = "Multiply" -> I!Multiply(s[1], s[2], s[3].type)
      [] e.node = "Subtract" -> I!Subtract(s[1], s[2], s[3].type)
      [] e.node = "Add"      -> I!Add(s[1], s[2], s[3].type)
      [] e.node = "Divide"   -> I!Divide(s[1], s[2], s[3].type))

visit_alias(e) == visit(e.arg)

visit_unbound_table(e) ==
  ThenAll(visit_schema(e.schema), LAMBDA schema : I!UnboundTable(e.name, schema))

(* A join is a product, and a selection above it if it has predicates. *)
visit_join(e) ==
  ThenAll(<<visit(e.left), visit(e.right)>>, LAMBDA s :
    LET product == I!CartesianProduct(s[1], s[2])
    IN  IF e.predicates = <<>> THEN product
        ELSE ThenAll(visit_ibis_expr_list(e.predicates), LAMBDA ps :
               I!Selection(product, ps, <<>>, <<>>, <<>>)))

visit_limit(e) == Then(visit(e.table), LAMBDA t : I!Limit(t, e.n))

visit_selection(e) ==
  Then(visit(e.table), LAMBDA t :
    ThenAll(visit_ibis_expr_list(e.predicates), LAMBDA preds :
      ThenAll(visit_ibis_expr_list(e.selections), LAMBDA projs :
        ThenAll(visit_ibis_expr_list(e.sort_keys), LAMBDA keys :
          I!Selection(t, preds, projs, keys, Map(GetName, e.selections))))))

visit_between(e) ==
  ThenAll(<<visit(e.arg), visit(e.lower_bound), visit(e.upper_bound)>>, LAMBDA s :
    I!Between(s[1], s[2], s[3]))

visit_sort_key(e) == Then(visit(e.expr), LAMBDA x : I!SortKey(x, e.ascending))

(* The names are those of the metrics: the keys of a grouping get none. *)
visit_aggregation(e) ==
  Then(visit(e.table), LAMBDA t :
    ThenAll(visit_ibis_expr_list(e.metrics), LAMBDA metrics :
      ThenAll(visit_ibis_expr_list(e.by), LAMBDA by :
        I!Aggregation(t, metrics, by, Map(GetName, e.metrics)))))

visit_table_column(e) == Then(visit(e.table), LAMBDA t : I!TableColumn(t, e.name))

create_logical_op(e) ==
  ThenAll(<<visit(e.left), visit(e.right)>>, LAMBDA s :
    CASE e.node = "Equals"       -> I!Equals(s[1], s[2])
      [] e.node = "GreaterEqual" -> I!GreaterEqual(s[1], s[2])
      [] e.node = "Greater"      -> I!GreaterThan(s[1], s[2])
      [] e.node = "LessEqual"    -> I!LessEqual(s[1], s[2])
      [] e.node = "Less"         -> I!LessThan(s[1], s[2]))

visit_literal(e) ==
  ThenAll(<<convert_literal(e.value), convert_datatype(e.dtype)>>, LAMBDA s :
    I!Literal(s[1], s[2].type))

visit_reduction(e) ==
  Then(visit(e.arg), LAMBDA a :
    CASE e.node = "Sum"   -> I!Sum(a)   [] e.node = "Mean" -> I!Mean(a)
      [] e.node = "Max"   -> I!Max(a)   [] e.node = "Min"  -> I!Min(a)
      [] e.node = "Count" -> I!Count(a) [] e.node = "CountDistinct" -> I!CountDistinct(a))

(* multipledispatch: a class without a function of its own raises. *)
visit(e) ==
  CASE e.node \in Numeric         -> visit_numeric(e)
    [] e.node = "Alias"           -> visit_alias(e)
    [] e.node = "UnboundTable"    -> visit_unbound_table(e)
    [] e.node = "InnerJoin"       -> visit_join(e)
    [] e.node = "Limit"           -> visit_limit(e)
    [] e.node = "Selection"       -> visit_selection(e)
    [] e.node = "Between"         -> visit_between(e)
    [] e.node = "SortKey"         -> visit_sort_key(e)
    [] e.node = "Aggregation"     -> visit_aggregation(e)
    [] e.node = "TableColumn"     -> visit_table_column(e)
    [] e.node \in Comparisons     -> create_logical_op(e)
    [] e.node = "Literal"         -> visit_literal(e)
    [] e.node \in Reductions      -> visit_reduction(e)
    [] OTHER                      -> Raise("conversion not yet implemented")

ibis_to_xdsl(query) == visit(query)
=============================================================================
