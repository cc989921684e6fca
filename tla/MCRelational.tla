---------------------------- MODULE MCRelational ----------------------------
(***************************************************************************)
(* Either a query is lowered or a plan of the standalone operators is run:  *)
(* they share no state, and the other one stays at its beginning.  Queries: *)
(* four tables, and what stacks operators on them and joins them.  Plans:   *)
(* every operator, chained and joined, over all tables with two columns of  *)
(* up to two small numbers.                                                 *)
(***************************************************************************)
EXTENDS RelOpt, DatabaseIterators

VARIABLE running  \* "query" or "plan"

Dtype(t) == [t |-> t, nullable |-> TRUE]
Cols(cs) == Map(LAMBDA c : [name |-> c[1], dtype |-> Dtype(c[2])], cs)
ColTypes == [t |-> <<<<"a", "int32">>, <<"b", "int64">>, <<"c", "int64">>>>,
             u |-> <<<<"d", "decimal2">>, <<"e", "timestamp">>>>,
             w |-> <<<<"f", "decimal3">>, <<"b", "int64">>>>,
             x |-> <<<<"g", "string">>, <<"h", "float64">>>>]
Data == [t |-> <<<<1, 10, 2>>, <<2, 5, 2>>, <<1, 3, 1>>>>,
         u |-> <<<<150, 864>>, <<20, 1728>>>>,
         w |-> <<<<1500, 3>>, <<500, 5>>>>,
         x |-> <<<<1, 2>>>>]
MCTables == [n \in DOMAIN ColTypes |->
              [schema |-> Map(LAMBDA c : [elt_name |-> c[1], elt_type |-> Dtype(c[2])], ColTypes[n]),
               rows |-> Data[n]]]

Table(n) == [node |-> "UnboundTable", name |-> n, schema |-> Cols(ColTypes[n])]
Col(q, n) == [node |-> "TableColumn", table |-> q, name |-> n]
As(e, n) == [node |-> "Alias", arg |-> e, name |-> n]
Bin(o, l, r) == [node |-> o, left |-> l, right |-> r, dtype |-> Dtype("int64")]
Red(f, e, n) == As([node |-> f, arg |-> e], n)
Lit(py, v, t) == [node |-> "Literal", value |-> [py |-> py, v |-> v], dtype |-> Dtype(t)]

(* The literal that fits a column. *)
LitFor(n) == CASE n = "d" -> Lit("Decimal", 100, "decimal2")
               [] n = "f" -> Lit("Decimal", 100, "decimal3")
               [] n = "e" -> Lit("str", 2, "timestamp")
               [] n = "g" -> Lit("str", 1, "string")
               [] OTHER -> Lit("int", 2, "int64")

Sel(q, ps, es, ks) == [node |-> "Selection", table |-> q, predicates |-> ps,
                       selections |-> es, sort_keys |-> ks]
Where(q, p) == Sel(q, <<p>>, <<>>, <<>>)
Proj(q, es) == Sel(q, <<>>, es, <<>>)
Agg(q, ms, by) == [node |-> "Aggregation", table |-> q, metrics |-> ms, by |-> by]
Limit(q, n) == [node |-> "Limit", table |-> q, n |-> n]
Join(l, r, ps) == [node |-> "InnerJoin", left |-> l, right |-> r, predicates |-> ps]
Key(e, asc) == [node |-> "SortKey", expr |-> e, ascending |-> asc]

(* What is put on top of a query. *)
Filters(q) ==
  LET ns == QuerySchema(q)
      x == Col(q, ns[1])
      y == Col(q, ns[Len(ns)])
  IN  {Where(q, Bin("GreaterEqual", x, LitFor(ns[1]))),
       Where(q, Bin("And", Bin("Less", x, LitFor(ns[1])), Bin("LessEqual", x, y))),
       Where(q, [node |-> "Between", arg |-> y, lower_bound |-> LitFor(ns[Len(ns)]),
                 upper_bound |-> LitFor(ns[Len(ns)])])}
Projects(q) ==
  LET ns == QuerySchema(q)
      x == Col(q, ns[1])
      y == Col(q, ns[Len(ns)])
  IN  {Proj(q, <<y>>), Proj(q, <<As(x, "z")>>),
       Proj(q, <<y, x>>),
       Proj(q, <<As(Bin("Multiply", x, y), "z"), As(Bin("Subtract", x, y), "y")>>),
       Proj(q, <<As(y, "y"), As(y, "z")>>)}
Aggs(q) ==
  LET ns == QuerySchema(q)
      x == Col(q, ns[1])
      y == Col(q, ns[Len(ns)])
  IN  {Agg(q, <<Red("Sum", x, "s")>>, <<>>),
       Agg(q, <<Red("Max", y, "s")>>, <<>>),
       Agg(q, <<Red("Sum", y, "s"), Red("Count", q, "n")>>, <<x>>)}
Orders(q) ==
  LET x == Col(q, QuerySchema(q)[1])
  IN  {Sel(q, <<>>, <<>>, <<Key(x, TRUE)>>), Limit(q, 2),
       Sel(q, <<Bin("Greater", x, LitFor(QuerySchema(q)[1]))>>, <<>>, <<Key(x, FALSE)>>)}
On(q) == Filters(q) \cup Projects(q) \cup Aggs(q) \cup Orders(q)
OnAll(qs) == UNION {On(q) : q \in qs}

(* What the lowering refuses, one way each. *)
Odd ==
  LET q == Table("t")
      x == Col(q, "a")
      y == Col(q, "b")
  IN  {Where(q, Bin("Equals", x, Lit("int", 1, "int8"))),
       Where(q, Bin("And", Bin("And", Bin("Less", x, y), Bin("Less", x, y)), Bin("Less", x, y))),
       Where(q, Bin("Less", x, Lit("float", 3, "float64"))),
       Proj(q, <<As(Bin("Divide", x, y), "z")>>),
       Proj(q, <<As(Lit("int", 1, "int64"), "z"), x>>),
       Proj(q, <<As(Bin("Less", x, y), "z")>>),
       Sel(q, <<Bin("Less", x, y)>>, <<x>>, <<>>),
       Sel(q, <<>>, <<>>, <<Key(As(x, "a"), TRUE)>>),
       Where(q, Bin("Equals", x, Lit("date", 1, "timestamp"))),
       Agg(q, <<Red("Sum", Bin("Add", x, y), "s")>>, <<>>),
       Agg(q, <<Red("Mean", x, "m"), Red("CountDistinct", x, "k"), Red("Min", y, "l")>>, <<>>)}

Base == {Table(n) : n \in DOMAIN ColTypes}
T == {Table("t")}
JoinQueries ==
  LET l == T \cup {Proj(Table("t"), <<Col(Table("t"), "b"), Col(Table("t"), "a")>>)} \cup Aggs(Table("t"))
      r == {Table("u"), Table("w")} \cup Filters(Table("u"))
  IN  {Join(x, y, <<Bin("Less", Col(x, QuerySchema(x)[1]), Col(y, QuerySchema(y)[1]))>>)
         : x \in l, y \in r} \cup {Join(Table("t"), Table("u"), <<>>)}

MCQueries == Base \cup OnAll(Base) \cup OnAll(OnAll(Base)) \cup Odd \cup JoinQueries \cup OnAll(JoinQueries)
              \cup UNION {Aggs(q) \cup Projects(q) : q \in UNION {Filters(j) \cup Projects(j) : j \in JoinQueries}}

-----------------------------------------------------------------------------
Numbers(n) == [1 .. n -> {1, 2}]
Inputs(n) == {<<c, d>> : c \in Numbers(n), d \in Numbers(n)}
Small == UNION {Inputs(n) : n \in 0 .. 2}
Tiny == {<<c, [r \in DOMAIN c |-> r]>> : c \in UNION {Numbers(n) : n \in 0 .. 2}}

Scan(t) == [kind |-> "scan", inputs |-> t]
Unary(k, i) == [kind |-> k, up |-> i]
HashJoin(b, p) == [kind |-> "join", build |-> b, probe |-> p]

MCPlans ==
  {<<Scan(t), Unary("filter", 1), Unary("map", 2)>> : t \in Small \cup Inputs(3)}
  \cup {<<Scan(t), Unary("filter", 1), Unary("reduce", 2)>> : t \in Small}
  \cup {<<Scan(t), Unary("map", 1), Unary("reduceByKey", 2)>> : t \in Small \cup Inputs(3)}
  \cup {<<Scan(t), Scan(u), HashJoin(1, 2)>> : t \in Small, u \in Small}
  \cup {<<Scan(t), Scan(u), Unary("filter", 2), HashJoin(1, 3), Unary("reduceByKey", 4)>>
          : t \in Tiny, u \in Tiny}
  \cup {<<Scan(t), Unary("reduceByKey", 1), Scan(u), HashJoin(2, 3), Scan(v), HashJoin(4, 5)>>
          : t \in Tiny, u \in Tiny, v \in Tiny}

MCPredicate(t) == t[Len(t)] = 2
MCMapFunction(t) == [t EXCEPT ![Len(t)] = @ + 1]
MCReduceFunction(s, t) == [c \in DOMAIN s |-> s[c] + t[c]]

-----------------------------------------------------------------------------
EmptyPlan == <<Scan(<<<< >>, << >>>>), Unary("filter", 1), Unary("map", 2)>>

MCInit ==
  \/ running = "query" /\ plan = EmptyPlan /\ Init /\ PlanInit
  \/ running = "plan" /\ query = Table("t") /\ Init /\ PlanInit

MCNext ==
  \/ running = "query" /\ Next /\ UNCHANGED <<planVars, running>>
  \/ running = "plan" /\ PlanNext /\ UNCHANGED <<vars, running>>

MCSpec == MCInit /\ [][MCNext]_<<vars, planVars, running>>
=============================================================================
