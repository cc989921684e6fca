-------------------------------- MODULE RelOpt -------------------------------
(***************************************************************************)
(* tools/rel_opt.py: read an ibis query, apply the passes named on the      *)
(* command line one after the other, verifying the module after each, and   *)
(* print the result.  The lowerings come in the order of their dialects;    *)
(* each optimisation may be asked for any number of times at its level.     *)
(***************************************************************************)
EXTENDS RelData, QueryMeaning
LOCAL INSTANCE SequencesExt
LOCAL FE == INSTANCE IbisFrontend
LOCAL IA == INSTANCE IbisToAlg
LOCAL PP == INSTANCE ProjectionPushdown
LOCAL AS == INSTANCE AlgToSSA
LOCAL SI == INSTANCE SSAToImpl
LOCAL II == INSTANCE ImplToIterators
LOCAL A == INSTANCE RelAlg
LOCAL S == INSTANCE RelSSA
LOCAL R == INSTANCE RelImpl

CONSTANTS Queries,     \* the ibis queries that are tried
          MaxOpts      \* bound on the optimisations asked for

ASSUME MaxOptsAssumption == MaxOpts \in Nat

VARIABLES query,       \* the query in the input
          prog,        \* the module, at some level; an exception once one was raised
          passes,      \* the passes applied
          status       \* "parse", "passes", "printed" or "exited"

vars == <<query, prog, passes, status>>

Text == [d |-> "text", op |-> "text"]

-----------------------------------------------------------------------------
(* xDSL's verify: the types in a schema are types of the dialect, and what  *)
(* the dialect checks of an aggregate.                                      *)
DialectTypes(d) == CASE d = "alg" -> A!DataType [] d = "ssa" -> S!DataType
                     [] d = "impl" -> R!DataType
verify_aggregate(o, functions) ==
  /\ Len(o.functions) = Len(o.col_names)
  /\ Elems(o.functions) \subseteq functions

RECURSIVE verify(_)
verify(o) ==
  /\ o.d \in {"ssa", "impl"} => Elems(Types(o.result)) \subseteq DialectTypes(o.d)
  /\ o.op = "aggregate" => verify_aggregate(o, CASE o.d = "alg"  -> A!Functions
                                                 [] o.d = "ssa"  -> S!Functions
                                                 [] o.d = "impl" -> R!Functions)
  /\ CASE o.op \in {"table", "full_table_scan"} -> TRUE
       [] o.op = "cartesian_product" -> verify(o.left) /\ verify(o.right)
       [] OTHER -> verify(o.input)
Verified(p) == IF IsRaise(p) \/ p.d \in {"ibis", "it"} THEN p
               ELSE IF verify(p) THEN p ELSE Raise("verify")

(* An exception is caught by main, which prints it and exits with code 0.   *)
Applied(name, p) ==
  /\ prog' = Verified(p)
  /\ passes' = Append(passes, name)
  /\ status' = IF IsRaise(prog') THEN "exited" ELSE status
  /\ UNCHANGED query

Opts == Len(SelectSeq(passes, LAMBDA n : n \in {"projection-pushdown", "fuse-proj-into-scan"}))

Init ==
  /\ query \in Queries
  /\ prog = Text
  /\ passes = <<>>
  /\ status = "parse"

parse_ibis ==
  /\ status = "parse"
  /\ prog' = FE!ibis_to_xdsl(query)
  /\ status' = IF IsRaise(prog') THEN "exited" ELSE "passes"
  /\ UNCHANGED <<query, passes>>

At(d) == status = "passes" /\ prog.d = d

ibis_to_alg == At("ibis") /\ Applied("ibis-to-alg", IA!ibis_to_alg(prog))
projection_pushdown ==
  At("alg") /\ Opts < MaxOpts /\ Applied("projection-pushdown", PP!projection_pushdown(prog))
alg_to_ssa == At("alg") /\ Applied("alg-to-ssa", AS!alg_to_ssa(prog))
ssa_to_impl == At("ssa") /\ Applied("ssa-to-impl", SI!ssa_to_impl(prog))
fuse_proj_into_scan ==
  At("impl") /\ Opts < MaxOpts /\ Applied("fuse-proj-into-scan", SI!fuse_proj_into_scan(prog))
impl_to_iterators == At("impl") /\ Applied("impl-to-iterators", II!impl_to_iterators(prog))

(* Only the module after the last lowering is printed here. *)
output_resulting_program ==
  /\ At("it")
  /\ status' = "printed"
  /\ UNCHANGED <<query, prog, passes>>

Done == status \in {"printed", "exited"} /\ UNCHANGED vars

Next == \/ parse_ibis \/ ibis_to_alg \/ projection_pushdown \/ alg_to_ssa
        \/ ssa_to_impl \/ fuse_proj_into_scan \/ impl_to_iterators
        \/ output_resulting_program \/ Done

Spec == Init /\ [][Next]_vars /\ WF_vars(Next)

-----------------------------------------------------------------------------
(* The relations a query is made of. *)
RECURSIVE Subqueries(_)
Subqueries(q) ==
  {q} \cup CASE q.node = "UnboundTable" -> {}
             [] q.node = "InnerJoin"    -> Subqueries(q.left) \cup Subqueries(q.right)
             [] OTHER                   -> Subqueries(q.table)
Has(q, P(_)) == \E s \in Subqueries(q) : P(s)

Asked(name) == name \in Elems(passes)

(* What the lowering is known to lose.  A selection becomes one operator,   *)
(* so one that sorts and also filters or projects does not sort.            *)
SortForgotten(q) == q.node = "Selection" /\ q.sort_keys # <<>>
                      /\ (q.predicates # <<>> \/ q.selections # <<>>)
(* A literal keeps the hundredths of its value, a float its integer part.   *)
LiteralOf(e) == IF "right" \in DOMAIN e THEN e.right ELSE e
Rounds(e) == LiteralOf(e).node = "Literal" /\ LiteralOf(e).value.py = "float"
LosesScale(e) == LiteralOf(e).node = "Literal" /\ LiteralOf(e).dtype.t = "decimal3"
RoundsLiteral(q) == q.node = "Selection" /\ \E e \in Elems(q.predicates) : Rounds(e)
Thousandths(q) == q.node = "Selection" /\ \E e \in Elems(q.predicates) : LosesScale(e)
(* Fused with its scan, a column that is projected twice is loaded once.    *)
Unaliased(e) == IF e.node = "Alias" THEN e.arg ELSE e
RepeatsColumn(q) ==
  /\ q.node = "Selection"
  /\ \E i, j \in DOMAIN q.selections :
       i < j /\ Unaliased(q.selections[i]) = Unaliased(q.selections[j])
(* Fused with its scan, a projection loses the names it gives, and the scan *)
(* has as many fields as the projection computes values; one of no column,  *)
(* as is put on the side of a join that nobody reads, loads every column.   *)
RenamesOrComputes(q) ==
  q.node = "Selection" /\ \E e \in Elems(q.selections) : e.node # "TableColumn"
CrossJoin(q) == q.node = "InnerJoin" /\ q.predicates = <<>>
FusionLoses(q) == RepeatsColumn(q) \/ RenamesOrComputes(q) \/ CrossJoin(q)
(* The pushdown takes the names of an aggregate for those of the columns it *)
(* reads, so it drops from a join the columns that an aggregate gives.      *)
RECURSIVE NamedByAggregate(_)
NamedByAggregate(q) ==
  \/ q.node = "Aggregation"
  \/ q.node = "Limit" /\ NamedByAggregate(q.table)
  \/ q.node = "Selection" /\ q.selections = <<>> /\ NamedByAggregate(q.table)
JoinsAggregate(q) ==
  q.node = "InnerJoin" /\ (NamedByAggregate(q.left) \/ NamedByAggregate(q.right))
(* An aggregate that gives one field is lowered to a sum, whatever its      *)
(* function is, and a sum of no rows has no row.                            *)
OneSum(q) == q.by = <<>> /\ Len(q.metrics) = 1 /\ q.metrics[1].arg.node = "Sum"
OtherAggregate(q) == q.node = "Aggregation" /\ ~OneSum(q)
SumOfNothing(q) == q.node = "Aggregation" /\ QueryRows(q.table) = <<>>

(* What MLIR's verifier asks of the printed module: functions are called    *)
(* with the fields they take and give those announced.                      *)
RECURSIVE WellTypedExpr(_, _)
WellTypedExpr(e, arg) ==
  CASE e.op = "constant"     -> TRUE
    [] e.op = "extractvalue" -> e.position + 1 \in DOMAIN arg /\ arg[e.position + 1] = e.result
    [] OTHER -> /\ WellTypedExpr(e.lhs, arg) /\ WellTypedExpr(e.rhs, arg)
                /\ e.lhs.result = e.rhs.result
RECURSIVE WellTyped(_, _)
WellTyped(m, o) ==
  IF o.op = "scan_columnar_batch" THEN m.batches[o.arg].types = o.result
  ELSE LET f == FuncOf(m, o.func)
       IN  /\ WellTyped(m, o.input)
           /\ f.arg = o.input.result
           /\ o.op \in {"filter", "reduce"} => o.result = o.input.result
           /\ o.op = "filter" => WellTypedExpr(f.body.value, f.arg)
           /\ o.op = "map" => /\ \A e \in Elems(f.body.fields) : WellTypedExpr(e, f.arg)
                              /\ Map(LAMBDA e : e.result, f.body.fields) = o.result

(* A query in rel_alg, rel_ssa or rel_impl produces the rows of the ibis    *)
(* query, whether or not projections were pushed down or fused into scans   *)
(* and how often: what a pass drops is not used above.  Exempt are five     *)
(* forms, each with its name: at every level sorts that are forgotten and   *)
(* literals that are rounded; after a pushdown joins with an aggregate,     *)
(* the case NeededColumnsKept is about; after a fusion projections that     *)
(* rename, repeat or compute columns, and joins without a predicate.        *)
RelationsMeanQuery ==
  /\ prog.d \in {"alg", "ssa", "impl"}
  /\ ~Has(query, SortForgotten) /\ ~Has(query, RoundsLiteral)
  /\ Asked("projection-pushdown") => ~Has(query, JoinsAggregate)
  /\ Asked("fuse-proj-into-scan") => ~Has(query, FusionLoses)
  => Rows(prog) = QueryRows(query)

(* "map away all columns that aren't needed by this Operator or further up  *)
(* the tree" says projection_pushdown.py of the projections it puts below   *)
(* every operator: the columns that are needed stay, so that every operator *)
(* finds those it reads in its input.                                       *)
RECURSIVE FindsColumns(_)
FindsColumns(o) ==
  CASE o.op = "table" -> TRUE
    [] o.op = "cartesian_product" -> FindsColumns(o.left) /\ FindsColumns(o.right)
    [] OTHER -> /\ Elems(PP!find_cols_upstream(o, <<>>)) \subseteq Elems(RelNames(o.input))
                /\ FindsColumns(o.input)
NeededColumnsKept == prog.d = "alg" => FindsColumns(prog)

(* The iterators module, where columns are positions, computes the rows of  *)
(* the ibis query, after either optimisation, both or neither, when MLIR    *)
(* accepts it and the query has none of the forms named here.               *)
MeaningKept ==
  /\ ~Has(query, SortForgotten) /\ ~Has(query, RoundsLiteral) /\ ~Has(query, Thousandths)
  /\ Asked("fuse-proj-into-scan") => ~Has(query, RepeatsColumn)
IteratorsMeanQuery ==
  /\ prog.d = "it" /\ WellTyped(prog, prog.main)
  /\ MeaningKept /\ ~Has(query, OtherAggregate) /\ ~Has(query, SumOfNothing)
  => Rows(prog) = QueryRows(query)

=============================================================================
