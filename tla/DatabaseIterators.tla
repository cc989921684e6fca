------------------------- MODULE DatabaseIterators -------------------------
(***************************************************************************)
(* database-iterators-standalone: open/computeNext/close operators as C++  *)
(* templates, assembled into a plan and driven by a client that calls the  *)
(* root.  A plan is a sequence of operators, each after its upstreams; the *)
(* root is the last.                                                       *)
(*                                                                         *)
(* One call of the root makes all calls below it, so a call maps a state   *)
(* of the plan to a set of outcomes: a return value and a new state.  The  *)
(* set has several elements where the order of a hash table is open.  A    *)
(* std::optional is << >> or <<tuple>>.                                    *)
(***************************************************************************)
EXTENDS Naturals, Sequences
LOCAL INSTANCE SequencesExt
LOCAL INSTANCE Bags
LOCAL INSTANCE BagsExt

CONSTANTS
  Plans,                  \* the plans to run
  Predicate(_),           \* filterFunction
  MapFunction(_),         \* mapFunction
  ReduceFunction(_, _),   \* reduceFunction
  KeyAttributes,          \* kNumKeyAttributes
  MaxSessions             \* bound on how often the client opens the root

VARIABLES
  plan,     \* the plan, which does not change
  st,       \* the state of its operators, see InitState
  phase,    \* whether the client has opened the root
  sessions, \* how often
  output,   \* the bag of tuples that the root has returned
  ended     \* whether the root has returned the end of the stream

planVars == <<plan, st, phase, sessions, output, ended>>

Root == Len(plan)

\* op: the members of each operator; open: the operators that are open;
\* misuse: whether one was called out of turn; undef: undefined behaviour.
InitState(p) ==
  [op |-> [i \in DOMAIN p |->
             CASE p[i].kind = "scan" -> [currentPos |-> 0]
               [] p[i].kind = "join" -> [buildTable |-> EmptyBag, matches |-> EmptyBag,
                                         probeValue |-> << >>]
               [] p[i].kind = "reduceByKey" -> [result |-> << >>, rest |-> {}, consumed |-> FALSE]
               [] OTHER -> << >>],
   open |-> {}, misuse |-> FALSE, undef |-> FALSE]

Enter(i, s) == [s EXCEPT !.open = @ \cup {i}, !.misuse = @ \/ i \in s.open]
Call(i, s) == [s EXCEPT !.misuse = @ \/ i \notin s.open]
Leave(i, s) == [Call(i, s) EXCEPT !.open = @ \ {i}]

EndOfStream(s) == [ret |-> << >>, st |-> s]
Returned(t, s) == [ret |-> <<t>>, st |-> s]

\* What happens after each outcome; nothing is known after undefined behaviour.
Bind(outcomes, Cont(_)) == UNION {IF o.st.undef THEN {o} ELSE Cont(o) : o \in outcomes}

takeFront(t) == SubSeq(t, 1, KeyAttributes)
dropFront(t) == SubSeq(t, KeyAttributes + 1, Len(t))

RECURSIVE Opens(_, _), Nexts(_, _), Close(_, _)

(***************************************************************************)
(* ColumnScanOperator: open() and close() do nothing.                      *)
(***************************************************************************)
ColumnScanNexts(i, s) ==
  LET inputs == plan[i].inputs
      pos == s.op[i].currentPos
  IN IF pos >= Len(inputs[1])
       THEN {EndOfStream(s)}
       ELSE {Returned([c \in DOMAIN inputs |-> inputs[c][pos + 1]],
                      [s EXCEPT !.op[i].currentPos = pos + 1])}

(***************************************************************************)
(* FilterOperator, MapOperator, ReduceOperator: open() and close() are     *)
(* those of the upstream.                                                  *)
(***************************************************************************)
RECURSIVE FilterNexts(_, _)
FilterNexts(i, s) ==
  Bind(Nexts(plan[i].up, s),
       LAMBDA o : IF o.ret = << >> \/ Predicate(o.ret[1]) THEN {o} ELSE FilterNexts(i, o.st))

MapNexts(i, s) ==
  Bind(Nexts(plan[i].up, s),
       LAMBDA o : IF o.ret = << >> THEN {o} ELSE {Returned(MapFunction(o.ret[1]), o.st)})

RECURSIVE Aggregate(_, _, _)
Aggregate(i, aggregate, s) ==
  Bind(Nexts(plan[i].up, s),
       LAMBDA o : IF o.ret = << >>
                    THEN {Returned(aggregate, o.st)}
                    ELSE Aggregate(i, ReduceFunction(aggregate, o.ret[1]), o.st))

ReduceNexts(i, s) ==
  Bind(Nexts(plan[i].up, s),
       LAMBDA o : IF o.ret = << >> THEN {o} ELSE Aggregate(i, o.ret[1], o.st))

(***************************************************************************)
(* ReduceByKeyOperator: rest are the keys between resultIt and resultEnd.  *)
(***************************************************************************)
EmplaceOrReduce(result, key, value) ==
  [k \in DOMAIN result \cup {key} |->
     IF k # key THEN result[k]
     ELSE IF k \in DOMAIN result THEN ReduceFunction(result[k], value) ELSE value]

RECURSIVE consumeUpstream(_, _)
consumeUpstream(i, s) ==
  Bind(Nexts(plan[i].up, s),
       LAMBDA o :
         IF o.ret = << >>
           THEN {[o EXCEPT !.st.op[i].rest = DOMAIN o.st.op[i].result,
                           !.st.op[i].consumed = TRUE]}
           ELSE LET t == o.ret[1]
                IN consumeUpstream(i, [o.st EXCEPT !.op[i].result =
                                         EmplaceOrReduce(@, takeFront(t), dropFront(t))]))

\* resultIt is dereferenced, whether or not it is past the end.
ReturnGroup(i, s) ==
  IF s.op[i].rest = {}
    THEN {EndOfStream([s EXCEPT !.undef = TRUE])}
    ELSE {Returned(k \o s.op[i].result[k], [s EXCEPT !.op[i].rest = @ \ {k}])
            : k \in s.op[i].rest}

ReduceByKeyNexts(i, s) ==
  IF s.op[i].rest # {} THEN ReturnGroup(i, s)
  ELSE IF s.op[i].consumed THEN {EndOfStream(s)}
  ELSE Bind(consumeUpstream(i, s), LAMBDA o : ReturnGroup(i, o.st))

(***************************************************************************)
(* HashJoinOperator: matches are the entries of the table between          *)
(* currentBuildSideMatchesIt and currentBuildSideMatchesEnd.               *)
(***************************************************************************)
RECURSIVE BuildTable(_, _)
BuildTable(i, s) ==
  Bind(Nexts(plan[i].build, s),
       LAMBDA o : IF o.ret = << >> THEN {o}
                  ELSE LET t == o.ret[1]
                       IN BuildTable(i, [o.st EXCEPT !.op[i].buildTable =
                                           BagAdd(@, <<takeFront(t), dropFront(t)>>)]))

\* Defect: the build side is left open.
HashJoinOpensLeavesBuild(i, s) ==
  Bind(Opens(plan[i].build, s),
       LAMBDA o : Bind(BuildTable(i, o.st), LAMBDA b : Opens(plan[i].probe, b.st)))

HashJoinOpens(i, s) ==
  Bind(Opens(plan[i].build, s),
       LAMBDA o : Bind(BuildTable(i, o.st),
                       LAMBDA b : Opens(plan[i].probe, Close(plan[i].build, b.st))))

\* Defect: find() in place of equal_range(), one match per probe tuple.
MatchesFirst(table, key) ==
  LET entries == {e \in DOMAIN table : e[1] = key}
  IN IF entries = {} THEN EmptyBag ELSE SetToBag({CHOOSE e \in entries : TRUE})

Matches(table, key) == [e \in {e \in DOMAIN table : e[1] = key} |-> table[e]]

RECURSIVE HashJoinNexts(_, _)
HashJoinNexts(i, s) ==
  IF s.op[i].matches # EmptyBag
    THEN {Returned(e[1] \o e[2] \o s.op[i].probeValue, [s EXCEPT !.op[i].matches = BagRemove(@, e)])
            : e \in DOMAIN s.op[i].matches}
    ELSE Bind(Nexts(plan[i].probe, s),
              LAMBDA o : IF o.ret = << >> THEN {o}
                         ELSE HashJoinNexts(i,
                                [o.st EXCEPT !.op[i].probeValue = dropFront(o.ret[1]),
                                             !.op[i].matches = Matches(o.st.op[i].buildTable,
                                                                       takeFront(o.ret[1]))]))

(***************************************************************************)
(* The calls of an operator, whatever its class.                           *)
(***************************************************************************)
Opens(i, s) ==
  CASE plan[i].kind = "scan" -> {EndOfStream(Enter(i, s))}
    [] plan[i].kind = "join" -> HashJoinOpens(i, Enter(i, s))
    [] OTHER -> Opens(plan[i].up, Enter(i, s))

Nexts(i, s) ==
  LET c == Call(i, s) IN
  CASE plan[i].kind = "scan" -> ColumnScanNexts(i, c)
    [] plan[i].kind = "filter" -> FilterNexts(i, c)
    [] plan[i].kind = "map" -> MapNexts(i, c)
    [] plan[i].kind = "reduce" -> ReduceNexts(i, c)
    [] plan[i].kind = "reduceByKey" -> ReduceByKeyNexts(i, c)
    [] plan[i].kind = "join" -> HashJoinNexts(i, c)

\* A join closes its probe side only: open() has closed the build side.
Close(i, s) ==
  CASE plan[i].kind = "scan" -> Leave(i, s)
    [] plan[i].kind = "join" -> Close(plan[i].probe, Leave(i, s))
    [] OTHER -> Close(plan[i].up, Leave(i, s))

(***************************************************************************)
(* The client: it may pull past the end, close early and open again.       *)
(***************************************************************************)
PlanInit ==
  /\ plan \in Plans
  /\ st = InitState(plan)
  /\ phase = "closed" /\ sessions = 0
  /\ output = EmptyBag /\ ended = FALSE

ClientOpen ==
  /\ phase = "closed" /\ sessions < MaxSessions /\ ~st.undef
  /\ \E o \in Opens(Root, st) : st' = o.st
  /\ phase' = "open" /\ sessions' = sessions + 1
  /\ UNCHANGED <<plan, output, ended>>

ClientNext ==
  /\ phase = "open" /\ ~st.undef
  /\ \E o \in Nexts(Root, st) :
       /\ st' = o.st
       /\ output' = IF o.ret = << >> THEN output ELSE BagAdd(output, o.ret[1])
       /\ ended' = (ended \/ o.ret = << >>)
  /\ UNCHANGED <<plan, phase, sessions>>

ClientClose ==
  /\ phase = "open" /\ ~st.undef
  /\ st' = Close(Root, st)
  /\ phase' = "closed"
  /\ UNCHANGED <<plan, sessions, output, ended>>

ClientDone == (st.undef \/ (phase = "closed" /\ sessions = MaxSessions)) /\ UNCHANGED planVars

PlanNext == ClientOpen \/ ClientNext \/ ClientClose \/ ClientDone

PlanSpec == PlanInit /\ [][PlanNext]_planVars

(***************************************************************************)
(* Properties.                                                             *)
(***************************************************************************)
FoldGroup(s) == FoldLeft(ReduceFunction, Head(s), Tail(s))

\* The relational meaning of the plan: the tuples of operator i, in some order.
RECURSIVE Meaning(_)
Meaning(i) ==
  LET p == plan[i] IN
  CASE p.kind = "scan" ->
         [r \in 1 .. Len(p.inputs[1]) |-> [c \in DOMAIN p.inputs |-> p.inputs[c][r]]]
    [] p.kind = "filter" -> SelectSeq(Meaning(p.up), Predicate)
    [] p.kind = "map" -> LET up == Meaning(p.up) IN [r \in DOMAIN up |-> MapFunction(up[r])]
    [] p.kind = "reduce" -> LET up == Meaning(p.up)
                            IN IF up = << >> THEN << >> ELSE <<FoldGroup(up)>>
    [] p.kind = "reduceByKey" ->
         LET up == Meaning(p.up)
             keys == SetToSeq({takeFront(up[r]) : r \in DOMAIN up})
             Group(k) == SelectSeq(up, LAMBDA t : takeFront(t) = k)
             Values(k) == [r \in DOMAIN Group(k) |-> dropFront(Group(k)[r])]
         IN [g \in DOMAIN keys |-> keys[g] \o FoldGroup(Values(keys[g]))]
    [] p.kind = "join" ->
         LET build == Meaning(p.build)
             probe == Meaning(p.probe)
             Pairs(r) == SelectSeq(build, LAMBDA t : takeFront(t) = takeFront(probe[r]))
         IN FlattenSeq([r \in DOMAIN probe |->
              [b \in DOMAIN Pairs(r) |-> Pairs(r)[b] \o dropFront(probe[r])]])

(***************************************************************************)
(* The root returns the tuples of the plan's meaning, each as often as it  *)
(* occurs there, all of them before it returns the end of the stream and   *)
(* none after it, also when the client closes it early and opens it again. *)
(* ReduceByKeyOperator.h promises that "if the upstream operator does not  *)
(* produce any tuple, neither does this operator"; but resultIt is not     *)
(* compared with resultEnd after consumeUpstream(), so an empty upstream   *)
(* is undefined behaviour instead.  Every other plan is defined.           *)
(***************************************************************************)
NoGroups ==
  \E i \in DOMAIN plan : plan[i].kind = "reduceByKey" /\ Meaning(plan[i].up) = << >>

ReturnsMeaning ==
  NoGroups \/
    /\ ~st.undef
    /\ output \sqsubseteq ToBag(Meaning(Root))
    /\ ended => output = ToBag(Meaning(Root))

(***************************************************************************)
(* Every operator of the plan is opened, pulled and closed in turn, the    *)
(* build side of a join is closed before its probe side is opened, and a   *)
(* closed root leaves no operator open.                                    *)
(***************************************************************************)
CallsInTurn ==
  ~st.undef =>
    /\ ~st.misuse
    /\ phase = "closed" => st.open = {}
    /\ \A i \in DOMAIN plan : plan[i].kind = "join" => plan[i].build \notin st.open

=============================================================================
