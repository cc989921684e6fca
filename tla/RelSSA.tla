------------------------------- MODULE RelSSA -------------------------------
(* The relational SSA dialect, dialects/rel_ssa.py: every operation has a   *)
(* result type, a Bag with its schema for operators, a data type or Boolean *)
(* for expressions.                                                        *)
EXTENDS RelData
LOCAL INSTANCE TLC

DataType == DataTypes("ssa")
Boolean == Type("ssa", "bool", FALSE)
Functions == {"sum", "min", "max", "avg", "count", "count_distinct"}
Bag(names, types) == SchemaOf(names, types)

Op(name, result) == [d |-> "ssa", op |-> name, result |-> result]

Column(col_name, type) == Op("column", type) @@ [col_name |-> col_name]
BinOp(lhs, rhs, operator) ==
  Op("bin_op", lhs.result) @@ [lhs |-> lhs, rhs |-> rhs, operator |-> operator]
Compare(left, right, comparator) ==
  Op("compare", Boolean) @@ [left |-> left, right |-> right, comparator |-> comparator]
YieldValue(e) == Op("yield_value", NoType) @@ [value |-> e]
YieldTuple(es) == Op("yield_tuple", NoType) @@ [ops |-> es]
Literal(val, type) == Op("literal", type) @@ [val |-> val]
And(lhs, rhs) == Op("and", Boolean) @@ [lhs |-> lhs, rhs |-> rhs]

Order(col, order) == [col |-> col, order |-> order]
Limit(input, n) == Op("limit", input.result) @@ [input |-> input, n |-> n]
OrderBy(input, by, order) ==
  Op("order_by", input.result)
    @@ [input |-> input, by |-> Map(LAMBDA p : Order(p[1], p[2]), Pairs(by, order))]
Table(name, result) == Op("table", result) @@ [table_name |-> name]
Project(input, result, projection) ==
  Op("project", result) @@ [input |-> input, projection |-> projection]
Select(input, predicates) ==
  Op("select", input.result) @@ [input |-> input, predicates |-> predicates]
(* Columns are found by name, so the two sides may not share one. *)
CartesianProduct(left, right) ==
  LET l == Names(left.result)
      r == Names(right.result)
  IN  IF \E i \in DOMAIN r, j \in DOMAIN l : r[i] = l[j]
      THEN Raise("assert: a column of both sides")
      ELSE Op("cartesian_product", Bag(l \o r, Types(left.result) \o Types(right.result)))
             @@ [left |-> left, right |-> right]
Aggregate(input, col_names, functions, res_names, by) ==
  LET TypeOf(p) == IF p[2] \in {"count", "count_distinct"} THEN Type("ssa", "int64", FALSE)
                   ELSE LookupType(input.result, p[1])
  IN  Op("aggregate", Bag(res_names, Map(TypeOf, Pairs(col_names, functions))))
        @@ [input |-> input, col_names |-> col_names, functions |-> functions, by |-> by]
=============================================================================
