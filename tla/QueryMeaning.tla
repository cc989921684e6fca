----------------------------- MODULE QueryMeaning ----------------------------
(***************************************************************************)
(* What a query means on given tables, at every level of the lowering: the  *)
(* rows it produces, in order, each a tuple of values.  A column of a table *)
(* holds the integers of its physical form: hundredths or thousandths for   *)
(* decimals, seconds for timestamps.  Values are kept doubled, so that a    *)
(* literal with a half is a value too.                                      *)
(***************************************************************************)
EXTENDS RelData
LOCAL INSTANCE SequencesExt
LOCAL INSTANCE Folds
LOCAL F == INSTANCE IbisFrontend

CONSTANT Tables        \* table name -> [schema, rows], the rows as tuples

Null == -999999        \* what min of nothing is, and a field that is not there

Field(row, i) == IF i \in DOMAIN row THEN row[i] ELSE Null
ByName(names, row, n) == IF n \in Elems(names) THEN Field(row, Position(names, n)) ELSE Null

Compared(c, x, y) == /\ x # Null /\ y # Null
                     /\ CASE c = "=" -> x = y [] c = "!=" -> x # y [] c = "<" -> x < y
                          [] c = "<=" -> x <= y [] c = ">" -> x > y [] c = ">=" -> x >= y
Truth(b) == IF b THEN 2 ELSE 0
Computed(o, x, y) == IF x = Null \/ y = Null THEN Null
                     ELSE CASE o = "+" -> x + y [] o = "-" -> x - y
                            [] o = "*" -> (x * y) \div 2
                            [] o = "/" -> IF y <= 0 THEN Null ELSE (2 * x) \div y

(* A literal of type t: an integer, hundredths of a decimal, days.          *)
LiteralValue(v, t) == CASE t = "decimal3"  -> 2 * v * 10
                        [] t = "timestamp" -> 2 * v * DaySeconds
                        [] OTHER           -> 2 * v

RowsOf(name, cols) ==
  LET all == Names(Tables[name].schema)
      at == IF cols = <<>> THEN [i \in DOMAIN all |-> i] 
            ELSE Map(LAMBDA c : IF c \in Elems(all) THEN Position(all, c) ELSE 0, cols)
  IN  Map(LAMBDA row : [i \in DOMAIN at |-> IF at[i] = 0 THEN Null ELSE 2 * row[at[i]]],
          Tables[name].rows)

Product(l, r) == FlattenSeq(Map(LAMBDA x : Map(LAMBDA y : x \o y, r), l))
Firsts(n, rows) == SubSeq(rows, 1, IF n < Len(rows) THEN n ELSE Len(rows))

(* Stable sort by keys, the first the most significant. *)
Before(names, by, x, y) ==
  \E i \in DOMAIN by :
    /\ \A j \in 1..(i - 1) : ByName(names, x, by[j].col) = ByName(names, y, by[j].col)
    /\ LET a == ByName(names, x, by[i].col)
           b == ByName(names, y, by[i].col)
       IN  IF by[i].order = "asc" THEN a < b ELSE a > b
Insert(names, by, sorted, row) ==
  LET k == Len(SelectSeq(sorted, LAMBDA s : ~Before(names, by, row, s)))
  IN  SubSeq(sorted, 1, k) \o <<row>> \o SubSeq(sorted, k + 1, Len(sorted))
Sorted(names, by, rows) ==
  FoldLeft(LAMBDA acc, row : Insert(names, by, acc, row), <<>>, rows)

(* An aggregate function over the values of a column, the count of rows for *)
(* a count without one.                                                    *)
Aggregated(f, vals) ==
  LET known == SelectSeq(vals, LAMBDA v : v # Null)
      sum == FoldLeft(LAMBDA a, v : a + v, 0, known)
  IN  CASE f = "count"          -> 2 * Len(known)
        [] f = "count_distinct" -> 2 * Len(FromKeys(known))
        [] known = <<>>         -> Null
        [] f = "sum"            -> sum
        [] f = "avg"            -> sum \div Len(known)
        [] f = "min"            -> FoldLeft(LAMBDA a, v : IF v < a THEN v ELSE a, known[1], known)
        [] f = "max"            -> FoldLeft(LAMBDA a, v : IF v > a THEN v ELSE a, known[1], known)

(* One row for each group in the order the groups first appear, one for     *)
(* everything without keys; the row has the metrics and not the keys.       *)
Grouped(names, rows, cols, functions, by) ==
  LET KeyOf(row) == Map(LAMBDA b : ByName(names, row, b), by)
      keys == IF by = <<>> THEN <<<<>>>> ELSE FromKeys(Map(KeyOf, rows))
      Vals(c, group) == Map(LAMBDA row : IF c = "" THEN 0 ELSE ByName(names, row, c), group)
      Row(k) == LET group == SelectSeq(rows, LAMBDA row : KeyOf(row) = k)
                IN  [i \in DOMAIN cols |-> Aggregated(functions[i], Vals(cols[i], group))]
  IN  Map(Row, keys)

-----------------------------------------------------------------------------
(* The ibis query.                                                          *)
RECURSIVE QuerySchema(_)
QuerySchema(q) ==
  CASE q.node = "UnboundTable" -> Map(LAMBDA s : s.name, q.schema)
    [] q.node = "InnerJoin"    -> QuerySchema(q.left) \o QuerySchema(q.right)
    [] q.node = "Limit"        -> QuerySchema(q.table)
    [] q.node = "Selection"    -> IF q.selections = <<>> THEN QuerySchema(q.table)
                                  ELSE Map(F!GetName, q.selections)
    [] q.node = "Aggregation"  -> Map(F!GetName, q.metrics)

IbisOperator == [Multiply |-> "*", Subtract |-> "-", Add |-> "+", Divide |-> "/"]
IbisComparator == [Equals |-> "=", GreaterEqual |-> ">=", Greater |-> ">",
                   LessEqual |-> "<=", Less |-> "<"]
IbisFunction == [Sum |-> "sum", Mean |-> "avg", Max |-> "max", Min |-> "min",
                 Count |-> "count", CountDistinct |-> "count_distinct"]

RECURSIVE ExprValue(_, _, _)
ExprValue(e, names, row) ==
  CASE e.node = "TableColumn" -> ByName(names, row, e.name)
    [] e.node = "Alias"       -> ExprValue(e.arg, names, row)
    [] e.node = "Literal"     -> IF e.value.py = "float" THEN e.value.v
                                 ELSE LiteralValue(e.value.v, e.dtype.t)
    [] e.node \in F!Numeric   -> Computed(IbisOperator[e.node], ExprValue(e.left, names, row),
                                          ExprValue(e.right, names, row))
    [] e.node \in F!Comparisons ->
         Truth(Compared(IbisComparator[e.node], ExprValue(e.left, names, row),
                        ExprValue(e.right, names, row)))

RECURSIVE Holds(_, _, _)
Holds(e, names, row) ==
  CASE e.node = "And"     -> Holds(e.left, names, row) /\ Holds(e.right, names, row)
    [] e.node = "Between" -> LET x == ExprValue(e.arg, names, row)
                             IN  /\ Compared("<=", ExprValue(e.lower_bound, names, row), x)
                                 /\ Compared("<=", x, ExprValue(e.upper_bound, names, row))
    [] OTHER -> Compared(IbisComparator[e.node], ExprValue(e.left, names, row),
                         ExprValue(e.right, names, row))
HoldAll(es, names, rows) ==
  SelectSeq(rows, LAMBDA row : \A i \in DOMAIN es : Holds(es[i], names, row))

RECURSIVE QueryRows(_)
QueryRows(q) ==
  CASE q.node = "UnboundTable" -> RowsOf(q.name, <<>>)
    [] q.node = "InnerJoin" ->
         HoldAll(q.predicates, QuerySchema(q), Product(QueryRows(q.left), QueryRows(q.right)))
    [] q.node = "Limit" -> Firsts(q.n, QueryRows(q.table))
    [] q.node = "Selection" ->
         LET names == QuerySchema(q.table)
             kept == HoldAll(q.predicates, names, QueryRows(q.table))
             keys == Map(LAMBDA k : [col |-> F!GetName(k.expr),
                                     order |-> IF k.ascending THEN "asc" ELSE "desc"], q.sort_keys)
             ordered == IF keys = <<>> THEN kept ELSE Sorted(names, keys, kept)
         IN  IF q.selections = <<>> THEN ordered
             ELSE Map(LAMBDA row : Map(LAMBDA e : ExprValue(e, names, row), q.selections), ordered)
    [] q.node = "Aggregation" ->
         LET Metric(m) == IF m.node = "Alias" THEN m.arg ELSE m
             Col(m) == IF Metric(m).arg.node = "TableColumn" THEN Metric(m).arg.name ELSE ""
         IN  Grouped(QuerySchema(q.table), QueryRows(q.table), Map(Col, q.metrics),
                     Map(LAMBDA m : IbisFunction[Metric(m).node], q.metrics),
                     Map(LAMBDA b : b.name, q.by))

-----------------------------------------------------------------------------
(* rel_alg, rel_ssa and rel_impl.  A name is looked up in the schema of the *)
(* input, in rel_impl in the tuple that is the region's argument.           *)
RECURSIVE RelNames(_)
RelNames(o) ==
  IF o.d # "alg" THEN Names(o.result)
  ELSE CASE o.op = "table"     -> Names(o.schema)
         [] o.op = "project"   -> o.names
         [] o.op = "aggregate" -> o.res_names
         [] o.op = "cartesian_product" -> RelNames(o.left) \o RelNames(o.right)
         [] OTHER              -> RelNames(o.input)

RECURSIVE RelValue(_, _, _)
RelValue(e, names, row) ==
  CASE e.op \in {"column", "index_by_name"} -> ByName(names, row, e.col_name)
    [] e.op = "literal" -> LiteralValue(e.val.v, IF e.d = "alg" THEN e.type.t ELSE e.result.t)
    [] e.op = "bin_op"  -> Computed(e.operator, RelValue(e.lhs, names, row),
                                    RelValue(e.rhs, names, row))
    [] e.op = "compare" -> Truth(Compared(e.comparator, RelValue(e.left, names, row),
                                          RelValue(e.right, names, row)))

RECURSIVE RelHolds(_, _, _)
RelHolds(e, names, row) ==
  IF e.op = "and" THEN RelHolds(e.lhs, names, row) /\ RelHolds(e.rhs, names, row)
  ELSE Compared(e.comparator, RelValue(e.left, names, row), RelValue(e.right, names, row))

EnvNames(o) == IF o.d = "impl" THEN Names(o.arg) ELSE RelNames(o.input)
Predicates(o) == IF o.d = "alg" THEN o.predicates ELSE <<o.predicates.value>>
Projections(o) == IF o.d = "alg" THEN o.projections ELSE o.projection.ops

RECURSIVE RelRows(_)
RelRows(o) ==
  CASE o.op = "table" -> RowsOf(o.table_name, <<>>)
    [] o.op = "full_table_scan" -> RowsOf(o.table_name, o.cols)
    [] o.op = "select" ->
         LET names == EnvNames(o)
         IN  SelectSeq(RelRows(o.input), LAMBDA row :
               \A i \in DOMAIN Predicates(o) : RelHolds(Predicates(o)[i], names, row))
    [] o.op = "project" ->
         LET names == EnvNames(o)
         IN  Map(LAMBDA row : Map(LAMBDA e : RelValue(e, names, row), Projections(o)),
                 RelRows(o.input))
    [] o.op = "cartesian_product" -> Product(RelRows(o.left), RelRows(o.right))
    [] o.op \in {"order_by", "merge_sort"} -> Sorted(RelNames(o.input), o.by, RelRows(o.input))
    [] o.op = "limit" -> Firsts(o.n, RelRows(o.input))
    [] o.op = "aggregate" ->
         Grouped(RelNames(o.input), RelRows(o.input), o.col_names, o.functions, o.by)

-----------------------------------------------------------------------------
(* The iterators module, run on batches with the columns their loads name.  *)
RECURSIVE StdValue(_, _)
StdValue(e, row) ==
  LET L == StdValue(e.lhs, row)
      R == StdValue(e.rhs, row)
  IN  CASE e.op = "constant"     -> 2 * e.v
        [] e.op = "extractvalue" -> Field(row, e.position + 1)
        [] e.op = "addi" -> Computed("+", L, R)
        [] e.op = "subi" -> Computed("-", L, R)
        [] e.op = "muli" -> Computed("*", L, R)
        [] e.op = "andi" -> L /\ R
        [] e.op = "cmpi" -> Compared(<<"=", "!=", "<", "<=", ">", ">=">>[e.code + 1], L, R)

FuncOf(m, name) == SelectSeq(m.funcs, LAMBDA f : f.name = name)[1]

RECURSIVE ItRows(_, _)
ItRows(m, o) ==
  CASE o.op = "scan_columnar_batch" ->
         RowsOf(Head(m.batches[o.arg].name), Tail(m.batches[o.arg].name))
    [] o.op = "filter" -> SelectSeq(ItRows(m, o.input), LAMBDA row :
                            StdValue(FuncOf(m, o.func).body.value, row))
    [] o.op = "map"    -> Map(LAMBDA row : Map(LAMBDA e : StdValue(e, row),
                                               FuncOf(m, o.func).body.fields),
                              ItRows(m, o.input))
    [] o.op = "reduce" ->
         LET rows == ItRows(m, o.input)
         IN  IF rows = <<>> THEN <<>>
             ELSE <<FoldLeft(LAMBDA a, row : [a EXCEPT ![1] = Computed("+", @, Field(row, 1))],
                             rows[1], Tail(rows))>>

(* The rows of a program at any level. *)
Rows(p) == IF p.d = "it" THEN ItRows(p, p.main) ELSE RelRows(p)
=============================================================================
