------------------------- MODULE ProjectionPushdown -------------------------
(***************************************************************************)
(* src/projection_pushdown.py: four walks over a rel_alg query.  The code   *)
(* climbs to the parents of an operator to find the columns used upstream;  *)
(* here the walk hands that list down, computed from the parent as it is    *)
(* when the walk reaches the child.                                        *)
(***************************************************************************)
EXTENDS RelData
LOCAL INSTANCE SequencesExt
LOCAL A == INSTANCE RelAlg

All == "*"                 \* the None of the code: the output keeps every column

RECURSIVE find_cols_in_expr(_)
find_cols_in_expr(e) ==
  CASE e.op = "column"  -> <<e.col_name>>
    [] e.op = "literal" -> <<>>
    [] e.op = "compare" -> find_cols_in_expr(e.left) \o find_cols_in_expr(e.right)
    [] e.op = "bin_op"  -> find_cols_in_expr(e.lhs) \o find_cols_in_expr(e.rhs)

(* up is what find_cols_upstream finds for the parent of o. *)
find_cols_upstream(o, up) ==
  CASE o.op = "select"    -> FlattenSeq(Map(find_cols_in_expr, o.predicates)) \o up
    [] o.op = "project"   -> FlattenSeq(Map(find_cols_in_expr, o.projections))
    [] o.op = "aggregate" -> SelectSeq(o.col_names, LAMBDA c : c # "") \o o.by
    [] o.op = "order_by"  -> Map(LAMBDA k : k.col, o.by) \o up
    [] o.op \in {"limit", "cartesian_product"} -> up

(* The names an aggregate is said to have are those of its inputs. *)
RECURSIVE find_schema(_)
find_schema(o) ==
  CASE o.op = "table"     -> Names(o.schema)
    [] o.op = "project"   -> o.names
    [] o.op = "aggregate" -> o.col_names
    [] o.op = "cartesian_product" -> find_schema(o.left) \o find_schema(o.right)
    [] o.op \in {"select", "order_by", "limit"} -> find_schema(o.input)

(* Rewrite the operators below o with F, which gets what is used upstream.  *)
Below(o, up, F(_, _)) ==
  CASE o.op = "table" -> o
    [] o.op = "cartesian_product" ->
         ThenAll(<<F(o.left, up), F(o.right, up)>>,
                 LAMBDA s : [o EXCEPT !.left = s[1], !.right = s[2]])
    [] OTHER -> Then(F(o.input, up), LAMBDA i : [o EXCEPT !.input = i])

Columns(cols) == Map(LAMBDA c : A!Column(c), cols)
Keep(child, cols) == A!Project(child, Columns(cols), cols)

(* dict(zip(names, exprs))[n]: the last of equal names. *)
LastOf(names, n) == CHOOSE i \in DOMAIN names :
                    names[i] = n /\ \A j \in DOMAIN names : names[j] = n => j <= i

(* First walk: a projection keeps the columns used above it, in that order. *)
RECURSIVE ProjectionSimplifier(_, _)
ProjectionSimplifier(o, up) ==
  LET cols == FromKeys(up)
      simplified ==
        IF All \in Elems(cols) \/ Len(o.names) = Len(cols) THEN o
        ELSE IF \E c \in Elems(cols) : c \notin Elems(o.names) THEN Raise("KeyError: a column")
        ELSE A!Project(o.input, Map(LAMBDA c : o.projections[LastOf(o.names, c)], cols), cols)
  IN  IF o.op = "project"
      THEN Then(simplified, LAMBDA p :
             Below(p, find_cols_upstream(p, up), ProjectionSimplifier))
      ELSE Below(o, IF o.op = "table" THEN up ELSE find_cols_upstream(o, up),
                 ProjectionSimplifier)

(* What an inserted projection keeps: each column once.                     *)
ColsToKeep(above) == FromKeys(above)

(* Second walk: a projection below every operator that does not keep all.   *)
RECURSIVE ProjectionInference(_, _)
ProjectionInference(o, up) ==
  IF o.op \in {"project", "table"}
  THEN Below(o, IF o.op = "table" THEN up ELSE find_cols_upstream(o, up), ProjectionInference)
  ELSE
    LET above == find_cols_upstream(o, up)
        cols == ColsToKeep(above)
        (* The walk goes on below the inserted projection. *)
        Insert(child, cs) == Then(ProjectionInference(child, cs), LAMBDA c : Keep(c, cs))
        In(child) == SelectSeq(cols, LAMBDA c : c \in Elems(find_schema(child)))
    IN  IF All \in Elems(cols) THEN Below(o, above, ProjectionInference)
        ELSE IF o.op = "cartesian_product"
        THEN ThenAll(<<Insert(o.left, In(o.left)), Insert(o.right, In(o.right))>>,
                     LAMBDA s : [o EXCEPT !.left = s[1], !.right = s[2]])
        ELSE Then(Insert(o.input, cols), LAMBDA i : [o EXCEPT !.input = i])

(* Third walk: a projection of a projection is one. *)
RECURSIVE replace_expr(_, _, _)
replace_expr(e, names, exprs) ==
  CASE e.op = "column" -> IF e.col_name \in Elems(names) THEN exprs[LastOf(names, e.col_name)]
                          ELSE Raise("KeyError: a column")
    [] e.op = "literal" -> e
    [] e.op = "compare" -> ThenAll(<<replace_expr(e.left, names, exprs),
                                     replace_expr(e.right, names, exprs)>>,
                             LAMBDA s : [e EXCEPT !.left = s[1], !.right = s[2]])
    [] e.op = "bin_op"  -> ThenAll(<<replace_expr(e.lhs, names, exprs),
                                     replace_expr(e.rhs, names, exprs)>>,
                             LAMBDA s : [e EXCEPT !.lhs = s[1], !.rhs = s[2]])

RECURSIVE ProjectionFuser(_)
ProjectionFuser(o) ==
  IF o.op = "project" /\ o.input.op = "project"
  THEN ThenAll(Map(LAMBDA e : replace_expr(e, o.input.names, o.input.projections),
                   o.projections),
         LAMBDA es : ProjectionFuser(A!Project(o.input.input, es, o.names)))
  ELSE Below(o, <<>>, LAMBDA c, up : ProjectionFuser(c))

(* Fourth walk, inner operators first: drop the projections that keep       *)
(* every column, by its name and in its place.                              *)
(* Mutant: the columns are compared as sets. *)
KeepsEveryColumn(p) ==
  /\ p.op = "project"
  /\ \A i \in DOMAIN p.projections : p.projections[i].op = "column"
  /\ FlattenSeq(Map(find_cols_in_expr, p.projections)) = p.names
  /\ Elems(find_schema(p.input)) = Elems(p.names)

IsIdentity(p) ==
  /\ p.op = "project"
  /\ \A i \in DOMAIN p.projections : p.projections[i].op = "column"
  /\ FlattenSeq(Map(find_cols_in_expr, p.projections)) = p.names
  /\ find_schema(p.input) = p.names

RECURSIVE IdentityProjectionRemover(_)
IdentityProjectionRemover(o) ==
  Then(Below(o, <<>>, LAMBDA c, up : IdentityProjectionRemover(c)), LAMBDA p :
    IF IsIdentity(p) THEN p.input ELSE p)

projection_pushdown(query) ==
  Then(ProjectionSimplifier(query, <<All>>), LAMBDA q1 :
    Then(ProjectionInference(q1, <<All>>), LAMBDA q2 :
      Then(ProjectionFuser(q2), LAMBDA q3 : IdentityProjectionRemover(q3))))
=============================================================================
