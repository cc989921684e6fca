---------------------------- MODULE IbisDialect ----------------------------
(* The operations of dialects/ibis_dialect.py, by the regions and           *)
(* attributes their builders store.                                        *)
EXTENDS RelData
LOCAL INSTANCE TLC

DataType == DataTypes("ibis")

Op(name) == [d |-> "ibis", op |-> name]

(* Expressions *)
TableColumn(table, col_name) == Op("table_column") @@ [table |-> table, col_name |-> col_name]
Subtract(lhs, rhs, type) == Op("subtract") @@ [lhs |-> lhs, rhs |-> rhs, output_type |-> type]
Add(lhs, rhs, type) == Op("add") @@ [lhs |-> lhs, rhs |-> rhs, output_type |-> type]
Divide(lhs, rhs, type) == Op("divide") @@ [lhs |-> lhs, rhs |-> rhs, output_type |-> type]
Multiply(lhs, rhs, type) == Op("multiply") @@ [lhs |-> lhs, rhs |-> rhs, output_type |-> type]
Equals(left, right) == Op("equals") @@ [left |-> left, right |-> right]
GreaterEqual(left, right) == Op("greaterEqual") @@ [left |-> left, right |-> right]
GreaterThan(left, right) == Op("greaterThan") @@ [left |-> left, right |-> right]
LessThan(left, right) == Op("lessThan") @@ [left |-> left, right |-> right]
LessEqual(left, right) == Op("lessEqual") @@ [left |-> left, right |-> right]
Between(arg, lower, upper) ==
  Op("between") @@ [arg |-> arg, lower_bound |-> lower, upper_bound |-> upper]
Literal(val, type) == Op("literal") @@ [val |-> val, type |-> type]
SortKey(expr, asc) == Op("sort_key") @@ [expr |-> expr, order |-> IF asc THEN "asc" ELSE "desc"]

(* Metrics *)
Sum(arg) == Op("sum") @@ [arg |-> arg]
Min(arg) == Op("min") @@ [arg |-> arg]
Max(arg) == Op("max") @@ [arg |-> arg]
Mean(arg) == Op("mean") @@ [arg |-> arg]
Count(arg) == Op("count") @@ [arg |-> arg]
CountDistinct(arg) == Op("countDistinct") @@ [arg |-> arg]

(* Relations *)
SchemaElement(name, type) == Op("schema_element") @@ [elt_name |-> name, elt_type |-> type]
UnboundTable(name, schema) == Op("unbound_table") @@ [table_name |-> name, schema |-> schema]
CartesianProduct(left, right) == Op("cartesian_product") @@ [left |-> left, right |-> right]
Limit(table, n) == Op("limit") @@ [table |-> table, n |-> n]
Selection(table, predicates, projections, sort_keys, names) ==
  Op("selection") @@ [table |-> table, predicates |-> predicates,
    projections |-> projections, sort_keys |-> sort_keys, names |-> names]
Aggregation(table, metrics, by, names) ==
  Op("aggregation") @@ [table |-> table, metrics |-> metrics, by |-> by, names |-> names]
=============================================================================
