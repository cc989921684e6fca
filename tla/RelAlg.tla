------------------------------- MODULE RelAlg -------------------------------
(* The relational algebra dialect, dialects/rel_alg.py: operators nest      *)
(* their inputs and expressions as regions; columns go by name.             *)
EXTENDS RelData
LOCAL INSTANCE TLC

DataType == DataTypes("alg")
Functions == {"sum", "min", "max", "avg", "count", "count_distinct"}

Op(name) == [d |-> "alg", op |-> name]

BinOp(lhs, rhs, operator) == Op("bin_op") @@ [lhs |-> lhs, rhs |-> rhs, operator |-> operator]
Literal(val, type) == Op("literal") @@ [val |-> val, type |-> type]
Column(col_name) == Op("column") @@ [col_name |-> col_name]
Compare(comparator, left, right) ==
  Op("compare") @@ [comparator |-> comparator, left |-> left, right |-> right]

Order(col, order) == [col |-> col, order |-> order]
Limit(input, n) == Op("limit") @@ [input |-> input, n |-> n]
OrderBy(input, by, order) ==
  Op("order_by") @@ [input |-> input, by |-> Map(LAMBDA p : Order(p[1], p[2]), Pairs(by, order))]
Aggregate(input, col_names, functions, res_names, by) ==
  Op("aggregate") @@ [input |-> input, col_names |-> col_names, functions |-> functions,
                      res_names |-> res_names, by |-> by]
Select(input, predicates) == Op("select") @@ [input |-> input, predicates |-> predicates]
CartesianProduct(left, right) == Op("cartesian_product") @@ [left |-> left, right |-> right]
Project(input, projections, names) ==
  Op("project") @@ [input |-> input, projections |-> projections, names |-> names]
SchemaElement(name, type) == Op("schema_element") @@ [elt_name |-> name, elt_type |-> type]
Table(name, schema) == Op("table") @@ [table_name |-> name, schema |-> schema]
=============================================================================
