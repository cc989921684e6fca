------------------------------- MODULE RelImpl ------------------------------
(* The relational implementation dialect, dialects/rel_impl.py: the body of *)
(* an operator reads its fields from a block argument, a Tuple whose schema *)
(* is kept apart from the schema of the operator's input.                   *)
EXTENDS RelData
LOCAL INSTANCE TLC

DataType == DataTypes("impl")
Boolean == Type("impl", "bool", FALSE)
Functions == {"sum", "min", "max", "avg", "count", "count_distinct"}
Bag(types, names) == SchemaOf(names, types)
Tuple(types, names) == SchemaOf(names, types)

Op(name, result) == [d |-> "impl", op |-> name, result |-> result]

IndexByName(col_name, type) == Op("index_by_name", type) @@ [col_name |-> col_name]
BinOp(lhs, rhs, operator) ==
  Op("bin_op", lhs.result) @@ [lhs |-> lhs, rhs |-> rhs, operator |-> operator]
Compare(left, right, comparator) ==
  Op("compare", Boolean) @@ [left |-> left, right |-> right, comparator |-> comparator]
YieldValue(e) == Op("yield_value", NoType) @@ [value |-> e]
YieldTuple(es) == Op("yield_tuple", NoType) @@ [ops |-> es]
Literal(val, type) == Op("literal", type) @@ [val |-> val]
And(lhs, rhs) == Op("and", Boolean) @@ [lhs |-> lhs, rhs |-> rhs]

(* cols is <<>> for a scan of every column. *)
FullTableScanOp(name, result, cols) ==
  Op("full_table_scan", result) @@ [table_name |-> name, cols |-> cols]
Select(input, arg, predicates) ==
  Op("select", input.result) @@ [input |-> input, arg |-> arg, predicates |-> predicates]
CartesianProduct(left, right) ==
  LET l == Names(left.result)
      r == Names(right.result)
  IN  IF \E i \in DOMAIN r, j \in DOMAIN l : r[i] = l[j]
      THEN Raise("assert: a column of both sides")
      ELSE Op("cartesian_product", Bag(Types(left.result) \o Types(right.result), l \o r))
             @@ [left |-> left, right |-> right]
Project(input, result, arg, projection) ==
  Op("project", result) @@ [input |-> input, arg |-> arg, projection |-> projection]
Order(col, order) == [col |-> col, order |-> order]
MergeSort(input, by, order) ==
  Op("merge_sort", input.result)
    @@ [input |-> input, by |-> Map(LAMBDA p : Order(p[1], p[2]), Pairs(by, order))]
Aggregate(input, col_names, functions, res_names, by) ==
  LET TypeOf(p) == IF p[2] \in {"count", "count_distinct"} THEN Type("impl", "int64", FALSE)
                   ELSE LookupType(input.result, p[1])
  IN  Op("aggregate", Bag(Map(TypeOf, Pairs(col_names, functions)), res_names))
        @@ [input |-> input, col_names |-> col_names, functions |-> functions, by |-> by]
Limit(input, n) == Op("limit", input.result) @@ [input |-> input, n |-> n]
=============================================================================
