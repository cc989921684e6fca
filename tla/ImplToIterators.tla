--------------------------- MODULE ImplToIterators ---------------------------
(***************************************************************************)
(* src/impl_to_iterators.py and dialects/iterators.py: a rel_impl query     *)
(* becomes a function main over one columnar batch per table load, and one  *)
(* function for each region.  Names are gone: a field is a position.        *)
(*                                                                         *)
(* A module is [main, batches, funcs]: the operation the sink consumes, the *)
(* load each argument of main stands for, and the functions in the order    *)
(* they are added.                                                         *)
(***************************************************************************)
EXTENDS RelData
LOCAL INSTANCE SequencesExt
LOCAL INSTANCE TLC

(* The iterators dialect *)
Stream(types) == types
ColumnarBatch(name, types) == [name |-> name, types |-> types]
Op(name, result) == [d |-> "it", op |-> name, result |-> result]
ScanColumnarBatch(arg, result) == Op("scan_columnar_batch", result) @@ [arg |-> arg]
ReduceOp(input, func, result) == Op("reduce", result) @@ [input |-> input, func |-> func]
FilterOp(input, func, result) == Op("filter", result) @@ [input |-> input, func |-> func]
MapOp(input, func, result) == Op("map", result) @@ [input |-> input, func |-> func]

(* arith and llvm, as far as the pass uses them *)
Value(name, result) == [d |-> "std", op |-> name, result |-> result]
Constant(v, width) == Value("constant", width) @@ [v |-> v]
ExtractValue(position, type) == Value("extractvalue", type) @@ [position |-> position]
Arith(name, lhs, rhs) == Value(name, lhs.result) @@ [lhs |-> lhs, rhs |-> rhs]
Cmpi(lhs, rhs, code) == Value("cmpi", "i1") @@ [lhs |-> lhs, rhs |-> rhs, code |-> code]

convert_datatype(type) ==
  CASE type.t = "bool"   -> [op |-> "type", type |-> "i1"]
    [] type.t = "int32"  -> [op |-> "type", type |-> "i32"]
    [] type.t \in {"int64", "timestamp", "decimal2", "decimal3"} -> [op |-> "type", type |-> "i64"]
    [] type.t = "string" -> [op |-> "type", type |-> "i8x8"]
    [] OTHER -> Raise("type conversion not yet implemented")

convert_bag(schema) ==
  ThenAll(Map(convert_datatype, Types(schema)), LAMBDA ts :
    [op |-> "stream", types |-> Stream(Map(LAMBDA t : t.type, ts))])

convert_tuple(schema) == convert_bag(schema)

(* Expressions: arg is the schema of the block argument. *)
AndRewriter(l, r) == Arith("andi", l, r)

(* The attribute of an integer literal is 64 bits wide whatever its type; a *)
(* decimal is taken in hundredths, a date in seconds.                       *)
LiteralRewriter(e) ==
  CASE e.result.t \in {"int32", "int64"}         -> Constant(e.val.v, "i64")
    [] e.result.t \in {"decimal2", "decimal3"}   -> Constant(e.val.v, "i64")
    [] e.result.t = "timestamp"                  -> Constant(e.val.v * DaySeconds, "i64")
    [] OTHER -> Raise("lowering of literals not yet implemented")

(* Mutant: positions count from one. *)
IndexFromOne(col_name, schema) == Position(Names(schema), col_name)
find_index_in_schema(col_name, schema) == Position(Names(schema), col_name) - 1

IndexByNameRewriter(e, arg) ==
  IF e.col_name \notin Elems(Names(arg)) THEN Raise("name not found in tuple schema")
  ELSE Then(convert_datatype(e.result), LAMBDA t :
         ExtractValue(find_index_in_schema(e.col_name, arg), t.type))

convert_comparator(c) == CASE c = "=" -> 0 [] c = "!=" -> 1 [] c = "<" -> 2
                           [] c = "<=" -> 3 [] c = ">" -> 4 [] c = ">=" -> 5
CompareRewriter(l, r, c) == Cmpi(l, r, convert_comparator(c))

BinOpRewriter(l, r, operator) ==
  CASE operator = "+" -> Arith("addi", l, r)
    [] operator = "*" -> Arith("muli", l, r)
    [] operator = "-" -> Arith("subi", l, r)
    [] OTHER -> Raise("BinOp conversion not yet implemented")

RECURSIVE ExprToStd(_, _)
ExprToStd(e, arg) ==
  CASE e.op = "index_by_name" -> IndexByNameRewriter(e, arg)
    [] e.op = "literal" -> LiteralRewriter(e)
    [] e.op = "compare" -> ThenAll(<<ExprToStd(e.left, arg), ExprToStd(e.right, arg)>>,
                                   LAMBDA s : CompareRewriter(s[1], s[2], e.comparator))
    [] e.op = "and"     -> ThenAll(<<ExprToStd(e.lhs, arg), ExprToStd(e.rhs, arg)>>,
                                   LAMBDA s : AndRewriter(s[1], s[2]))
    [] e.op = "bin_op"  -> ThenAll(<<ExprToStd(e.lhs, arg), ExprToStd(e.rhs, arg)>>,
                                   LAMBDA s : BinOpRewriter(s[1], s[2], e.operator))

(* return of the value; a tuple is put together field by field.             *)
YieldValueRewriter(y, arg) ==
  Then(ExprToStd(y.value, arg), LAMBDA v : [op |-> "return", value |-> v])
YieldTupleRewriter(y, arg) ==
  ThenAll(Map(LAMBDA e : ExprToStd(e, arg), y.ops), LAMBDA vs :
    [op |-> "return", fields |-> vs])

(* A function: its symbol, the fields of its argument, what it returns.     *)
FuncOp(name, arg, body) == [name |-> name, arg |-> arg, body |-> body]

(* Two structs of these types give the first with the sum of the fields 0.  *)
add_sum_function(types) == FuncOp(<<"sum_struct">>, types, [op |-> "sum of field 0"])

(* The name of a load, which is how main's arguments are told apart.        *)
LoadName(o) == <<o.table_name>> \o o.cols

RECURSIVE Scans(_)
Scans(o) == CASE o.op = "full_table_scan"   -> <<o>>
              [] o.op = "cartesian_product" -> Scans(o.left) \o Scans(o.right)
              [] OTHER                      -> Scans(o.input)

(* A load is skipped when the bare name of its table is among the names.    *)
get_batch_and_name_list(query) ==
  LET scans == Scans(query)
      Step(l, o) == IF IsRaise(l) THEN l
                    ELSE IF \E i \in DOMAIN l.batches : l.batches[i].name = <<o.table_name>>
                    THEN l
                    ELSE Then(convert_bag(o.result), LAMBDA b :
                      [l EXCEPT !.batches = Append(@, ColumnarBatch(LoadName(o), b.types))])
  IN  FoldLeft(Step, [op |-> "batches", batches |-> <<>>], scans)

(* table_mapping[name]: the last of equal names. *)
FullTableScanRewriter(o, batches) ==
  LET at == {i \in DOMAIN batches : batches[i].name = LoadName(o)}
  IN  IF at = {} THEN Raise("KeyError: a table load")
      ELSE Then(convert_bag(o.result), LAMBDA b :
             ScanColumnarBatch(CHOOSE i \in at : \A j \in at : j <= i, b.types))

(* Each case gives the operation, and its functions after those of the ops  *)
(* below it; the functions are numbered in that order by kind.              *)
Numbered(kind, funcs) ==
  <<kind, Len(SelectSeq(funcs, LAMBDA f : f.name[1] = kind))>>

(* The extraction of the field in sum_struct is built with a result type    *)
(* for every field, of which it has one.                                    *)
AggregateRewriter(o, below) ==
  Then(convert_bag(o.result), LAMBDA b :
    IF Len(b.types) # 1 THEN Raise("result types of sum_struct")
    ELSE [op |-> "built", it |-> ReduceOp(below.it, <<"sum_struct">>, b.types),
          funcs |-> Append(below.funcs, add_sum_function(b.types))])

SelectRewriter(o, below) ==
  ThenAll(<<convert_tuple(o.arg), YieldValueRewriter(o.predicates, o.arg),
            convert_bag(o.result)>>, LAMBDA s :
    LET name == Numbered("s", below.funcs)
    IN  [op |-> "built", it |-> FilterOp(below.it, name, s[3].types),
         funcs |-> Append(below.funcs, FuncOp(name, s[1].types, s[2]))])

ProjectRewriter(o, below) ==
  ThenAll(<<convert_tuple(o.arg), YieldTupleRewriter(o.projection, o.arg),
            convert_bag(o.result)>>, LAMBDA s :
    LET name == Numbered("m", below.funcs)
    IN  [op |-> "built", it |-> MapOp(below.it, name, s[3].types),
         funcs |-> Append(below.funcs, FuncOp(name, s[1].types, s[2]))])

(* No rewriter takes a sort, a limit or a product: it stays, and an operand *)
(* of it that is now a stream fails the verification after the pass.        *)
RECURSIVE ToIterators(_, _)
ToIterators(o, batches) ==
  CASE o.op = "full_table_scan" ->
         Then(FullTableScanRewriter(o, batches), LAMBDA s :
           [op |-> "built", it |-> s, funcs |-> <<>>])
    [] o.op = "aggregate" -> Then(ToIterators(o.input, batches), LAMBDA b : AggregateRewriter(o, b))
    [] o.op = "select"    -> Then(ToIterators(o.input, batches), LAMBDA b : SelectRewriter(o, b))
    [] o.op = "project"   -> Then(ToIterators(o.input, batches), LAMBDA b : ProjectRewriter(o, b))
    [] OTHER -> Raise("verify: a rel_impl operation on a stream")

impl_to_iterators(query) ==
  Then(get_batch_and_name_list(query), LAMBDA l :
    Then(ToIterators(query, l.batches), LAMBDA b :
      [d |-> "it", op |-> "module", main |-> b.it, batches |-> l.batches, funcs |-> b.funcs]))
=============================================================================
