--------------------------- MODULE IteratorsToLLVM ---------------------------
(***************************************************************************)
(* What a program of iterator ops does once the pass                       *)
(* convert-iterators-to-llvm has turned it into functions: every iterator  *)
(* op becomes an Open, a Next and a Close function over an iterator state  *)
(* (a struct value that holds the states of the upstream iterators), and   *)
(* every sink or stream_to_value op becomes straight-line code that calls  *)
(* the three functions of its input.                                       *)
(*                                                                         *)
(* A program is a plan: a forest of nodes, one for each use of an iterator *)
(* op, and the statements that consume streams, in block order.  Iterator  *)
(* states are immutable values: a call gets a state and returns a new one. *)
(* A state value is a function from nodes to the fields the op of that     *)
(* node owns; the state of node n is the part of that function on          *)
(* plan.below[n], which is how the nested struct looks once flattened, and *)
(* storing an upstream's state into its consumer's is InsertValue.         *)
(*                                                                         *)
(* One step runs from the entry of a function, or from the return of a     *)
(* function it called, up to its next call or its own return.              *)
(***************************************************************************)
EXTENDS Naturals, Sequences

CONSTANTS
  Plans,              \* the programs (see PlanOK)
  Undef,              \* the llvm.mlir.undef element
  Predicate(_, _),    \* Predicate(f, v): the i1 function f a filter refers to
  MapFunc(_, _),      \* MapFunc(f, v): the function f a map refers to
  ReduceFunc(_, _, _) \* ReduceFunc(f, acc, v): the function f of a reduce

Kinds == {"constant_stream", "tabular_view_to_stream", "value_to_stream",
          "filter", "map", "reduce", "zip"}

Sources == {"constant_stream", "tabular_view_to_stream", "value_to_stream"}

(***************************************************************************)
(* A plan: the kind of each node, the nodes of its operands (ups), the     *)
(* elements of a source (data), the symbol of the function a filter, map   *)
(* or reduce refers to (func), the nodes of the subtree it roots (below),  *)
(* and the consuming statements.  The nodes are numbered in block order,   *)
(* so each comes after its operands.  The verifiers of the ops demand one  *)
(* operand for filter, map and reduce and at least one for zip.            *)
(***************************************************************************)
TreeOK(p, n) ==
  /\ Len(p.ups[n]) \in Nat
  /\ DOMAIN p.ups[n] = 1 .. Len(p.ups[n])
  /\ \A k \in DOMAIN p.ups[n] :
       /\ p.ups[n][k] \in p.nodes /\ p.ups[n][k] < n
       /\ n \notin p.below[p.ups[n][k]]
       /\ \A j \in DOMAIN p.ups[n] :
            j # k => p.below[p.ups[n][j]] \cap p.below[p.ups[n][k]] = {}
  /\ \A m \in p.below[n] : p.below[m] \subseteq p.below[n]
  /\ p.below[n] = {n} \cup UNION {p.below[p.ups[n][k]] : k \in DOMAIN p.ups[n]}

OpOK(p, n) ==
  /\ Len(p.data[n]) \in Nat
  /\ p.data[n] = [i \in 1 .. Len(p.data[n]) |-> p.data[n][i]]
  /\ p.kind[n] \in Sources => Len(p.ups[n]) = 0
  /\ p.kind[n] \in {"filter", "map", "reduce"} => Len(p.ups[n]) = 1
  /\ p.kind[n] = "zip" => Len(p.ups[n]) > 0
  /\ p.kind[n] = "value_to_stream" => Len(p.data[n]) = 1

PlanOK(p) ==
  /\ Len(p.kind) \in Nat /\ p.nodes = 1 .. Len(p.kind)
  /\ p.kind \in [p.nodes -> Kinds]
  /\ DOMAIN p.data = p.nodes /\ DOMAIN p.func = p.nodes
  /\ DOMAIN p.ups = p.nodes
  /\ p.below \in [p.nodes -> SUBSET p.nodes]
  /\ \A n \in p.nodes : TreeOK(p, n) /\ OpOK(p, n)
  /\ Len(p.stmts) \in Nat
  /\ \A s \in 1 .. Len(p.stmts) :
       /\ p.stmts[s].op \in {"sink", "stream_to_value"}
       /\ p.stmts[s].input \in p.nodes

ASSUME PlansAssumption == \A p \in Plans : PlanOK(p)

VARIABLES
  plan,    \* the program that runs
  line,    \* the statement that runs; Len(plan.stmts) + 1 at the end
  driver,  \* what that statement is doing: its pc, input state and last result
  stack,   \* the frames of the Open, Next and Close calls under way
  ctl,     \* "call": the top frame starts; "ret": it, or the statement if
           \* there is no frame, resumes with ret; "stmt": between statements
  ret,     \* what the last call returned
  out,     \* the elements each statement has printed, or its value if it has one
  phase,   \* history: whether each iterator is "new", "open" or "closed"
  got,     \* history: the elements each iterator has returned since Open
  ended    \* history: the iterators that have reported the end since Open

vars == <<plan, line, driver, stack, ctl, ret, out, phase, got, ended>>

Kind(n) == plan.kind[n]
Ups(n)  == plan.ups[n]
Below(n) == plan.below[n]
Top == stack[Len(stack)]
Stmt == plan.stmts[line]

(***************************************************************************)
(* Iterator states.                                                        *)
(***************************************************************************)
NoFields == [currentIndex |-> 0, hasReturned |-> FALSE, value |-> Undef]

\* The fields that buildStateCreation gives the node's op.
ConstantStreamState(n) == NoFields
TabularViewState(n) == NoFields
ValueToStreamState(n) == [NoFields EXCEPT !.value = plan.data[n][1]]

StateCreation(n) ==
  CASE Kind(n) = "constant_stream" -> ConstantStreamState(n)
    [] Kind(n) = "tabular_view_to_stream" -> TabularViewState(n)
    [] Kind(n) = "value_to_stream" -> ValueToStreamState(n)
    [] OTHER -> NoFields

\* iterators.insertvalue of the state u of node n into the state s.
InsertValue(s, n, u) == [m \in plan.nodes |-> IF m \in Below(n) THEN u[m] ELSE s[m]]

(***************************************************************************)
(* Calls and returns.                                                      *)
(***************************************************************************)
Frame(n, fn, s) ==
  [node |-> n, fn |-> fn, st |-> s, up |-> 0,
   inLoop |-> FALSE, acc |-> Undef,          \* of a reduce
   hasNext |-> TRUE, elements |-> << >>]     \* of a zip

\* The top frame, changed to f, calls its own function of its k-th upstream.
CallUpstream(f, k) ==
  /\ stack' = Append([stack EXCEPT ![Len(stack)] = [f EXCEPT !.up = k]],
                     Frame(Ups(f.node)[k], f.fn, f.st))
  /\ ctl' = "call"
  /\ UNCHANGED <<plan, line, driver, ret, out, phase, got, ended>>

\* The top frame returns the state s, and an element v if hasNext holds.
Return(s, hasNext, v) ==
  LET n == Top.node IN
  /\ stack' = SubSeq(stack, 1, Len(stack) - 1)
  /\ ctl' = "ret"
  /\ ret' = [st |-> s, hasNext |-> hasNext, element |-> v]
  /\ phase' = CASE Top.fn = "open"  -> [phase EXCEPT ![n] = "open"]
                [] Top.fn = "close" -> [phase EXCEPT ![n] = "closed"]
                [] OTHER -> phase
  /\ got' = CASE Top.fn = "open" -> [got EXCEPT ![n] = 0]
              [] Top.fn = "next" /\ hasNext -> [got EXCEPT ![n] = @ + 1]
              [] OTHER -> got
  /\ ended' = CASE Top.fn = "open" -> ended \ {n}
                [] Top.fn = "next" /\ ~hasNext -> ended \cup {n}
                [] OTHER -> ended
  /\ UNCHANGED <<plan, line, driver, out>>

\* The top frame is in function fn of a node of the given kind.
At(kind, fn) ==
  /\ stack # << >>
  /\ Top.fn = fn
  /\ Kind(Top.node) = kind

AtEntry(kind, fn) == ctl = "call" /\ At(kind, fn)

\* The top frame, resumed: the state its upstream returned is stored.
Resumed ==
  IF ctl = "ret" THEN [Top EXCEPT !.st = InsertValue(@, Ups(Top.node)[Top.up], ret.st)]
                 ELSE Top

\* Extract, call and insert for each upstream in turn, then return: the body
\* of the Open and Close functions of an op with upstreams.
VisitUpstreams ==
  IF Resumed.up < Len(Ups(Top.node))
    THEN CallUpstream(Resumed, Resumed.up + 1)
    ELSE Return(Resumed.st, FALSE, Undef)

\* A Next function that has not called its upstream yet calls it.
CallFirst == ctl = "call" /\ CallUpstream(Top, 1)

(***************************************************************************)
(* The sources: no upstream, so each body runs from entry to return.       *)
(***************************************************************************)
SetField(s, n, fields) == [s EXCEPT ![n] = fields]

ConstantStreamOpen ==
  /\ AtEntry("constant_stream", "open")
  /\ Return(SetField(Top.st, Top.node, [Top.st[Top.node] EXCEPT !.currentIndex = 0]),
            FALSE, Undef)

\* The element at the current index and the index incremented, or the state
\* as it is and an undef element past the end.
NextByIndex ==
  LET n == Top.node
      i == Top.st[n].currentIndex
  IN IF i < Len(plan.data[n])
       THEN Return(SetField(Top.st, n, [Top.st[n] EXCEPT !.currentIndex = i + 1]),
                   TRUE, plan.data[n][i + 1])
       ELSE Return(Top.st, FALSE, Undef)

\* Defect: the index is reset when the end is reached.
ConstantStreamNextWraps ==
  /\ AtEntry("constant_stream", "next")
  /\ LET n == Top.node IN
     IF Top.st[n].currentIndex < Len(plan.data[n])
       THEN NextByIndex
       ELSE Return(SetField(Top.st, n, NoFields), FALSE, Undef)

ConstantStreamNext ==
  /\ AtEntry("constant_stream", "next")
  /\ NextByIndex

ConstantStreamClose ==
  /\ AtEntry("constant_stream", "close")
  /\ Return(Top.st, FALSE, Undef)

TabularViewOpen ==
  /\ AtEntry("tabular_view_to_stream", "open")
  /\ Return(SetField(Top.st, Top.node, [Top.st[Top.node] EXCEPT !.currentIndex = 0]),
            FALSE, Undef)

TabularViewNext ==
  /\ AtEntry("tabular_view_to_stream", "next")
  /\ NextByIndex

TabularViewClose ==
  /\ AtEntry("tabular_view_to_stream", "close")
  /\ Return(Top.st, FALSE, Undef)

ValueToStreamOpen ==
  /\ AtEntry("value_to_stream", "open")
  /\ Return(SetField(Top.st, Top.node, [Top.st[Top.node] EXCEPT !.hasReturned = FALSE]),
            FALSE, Undef)

\* The value is returned every time, with hasNext false from the second on.
ValueToStreamNext ==
  /\ AtEntry("value_to_stream", "next")
  /\ LET fields == Top.st[Top.node] IN
     Return(SetField(Top.st, Top.node, [fields EXCEPT !.hasReturned = TRUE]),
            ~fields.hasReturned, fields.value)

ValueToStreamClose ==
  /\ AtEntry("value_to_stream", "close")
  /\ Return(Top.st, FALSE, Undef)

(***************************************************************************)
(* Filter, map, reduce and zip.                                            *)
(***************************************************************************)
FilterOpen == At("filter", "open") /\ VisitUpstreams

\* Defect: the condition of the loop is inverted.
FilterNextInverted ==
  /\ At("filter", "next")
  /\ \/ CallFirst
     \/ /\ ctl = "ret"
        /\ IF ret.hasNext /\ Predicate(plan.func[Top.node], ret.element)
             THEN CallUpstream(Resumed, 1)
             ELSE Return(Resumed.st, ret.hasNext, ret.element)

\* Defect: the loop goes on when the upstream has ended.
FilterNextIgnoresEnd ==
  /\ At("filter", "next")
  /\ \/ CallFirst
     \/ /\ ctl = "ret"
        /\ IF ret.hasNext /\ Predicate(plan.func[Top.node], ret.element)
             THEN Return(Resumed.st, TRUE, ret.element)
             ELSE CallUpstream(Resumed, 1)

\* Calls the upstream until it ends or returns an element that matches.
FilterNext ==
  /\ At("filter", "next")
  /\ \/ CallFirst
     \/ /\ ctl = "ret"
        /\ IF ret.hasNext /\ ~Predicate(plan.func[Top.node], ret.element)
             THEN CallUpstream(Resumed, 1)
             ELSE Return(Resumed.st, ret.hasNext, ret.element)

FilterClose == At("filter", "close") /\ VisitUpstreams

MapOpen == At("map", "open") /\ VisitUpstreams

MapNext ==
  /\ At("map", "next")
  /\ \/ CallFirst
     \/ /\ ctl = "ret"
        /\ Return(Resumed.st, ret.hasNext,
                  IF ret.hasNext THEN MapFunc(plan.func[Top.node], ret.element)
                                 ELSE Undef)

MapClose == At("map", "close") /\ VisitUpstreams

ReduceOpen == At("reduce", "open") /\ VisitUpstreams

\* Defect: the arguments of the reduce function are swapped.
ReduceNextSwapped ==
  LET acc == IF Top.inLoop THEN ReduceFunc(plan.func[Top.node], ret.element, Top.acc)
                           ELSE ret.element
  IN
  /\ At("reduce", "next")
  /\ \/ CallFirst
     \/ /\ ctl = "ret" /\ ret.hasNext
        /\ CallUpstream([Resumed EXCEPT !.inLoop = TRUE, !.acc = acc], 1)
     \/ /\ ctl = "ret" /\ ~ret.hasNext
        /\ IF Top.inLoop THEN Return(Resumed.st, TRUE, Top.acc)
                         ELSE Return(Resumed.st, FALSE, ret.element)

\* The first element starts the accumulator, each later one is combined with
\* it in the loop; without a first element the end of the stream is forwarded.
ReduceNext ==
  LET acc == IF Top.inLoop THEN ReduceFunc(plan.func[Top.node], Top.acc, ret.element)
                           ELSE ret.element
  IN
  /\ At("reduce", "next")
  /\ \/ CallFirst
     \/ /\ ctl = "ret" /\ ret.hasNext
        /\ CallUpstream([Resumed EXCEPT !.inLoop = TRUE, !.acc = acc], 1)
     \/ /\ ctl = "ret" /\ ~ret.hasNext
        /\ IF Top.inLoop THEN Return(Resumed.st, TRUE, Top.acc)
                         ELSE Return(Resumed.st, FALSE, ret.element)

ReduceClose == At("reduce", "close") /\ VisitUpstreams

\* Defect: only the first upstream is opened.
ZipOpenFirst ==
  /\ At("zip", "open")
  /\ IF Resumed.up = 0 THEN CallUpstream(Resumed, 1)
                       ELSE Return(Resumed.st, FALSE, Undef)

ZipOpen == At("zip", "open") /\ VisitUpstreams

\* Defect: the last upstream alone decides whether there is an element.
ZipNextLastDecides ==
  LET resumed == [Resumed EXCEPT !.hasNext = ret.hasNext,
                                 !.elements = Append(@, ret.element)]
  IN
  /\ At("zip", "next")
  /\ \/ CallFirst
     \/ /\ ctl = "ret"
        /\ IF resumed.up < Len(Ups(Top.node))
             THEN CallUpstream(resumed, resumed.up + 1)
             ELSE Return(resumed.st, resumed.hasNext, resumed.elements)

\* Calls Next of every upstream, whatever the ones before have answered.
ZipNext ==
  LET resumed == [Resumed EXCEPT !.hasNext = @ /\ ret.hasNext,
                                 !.elements = Append(@, ret.element)]
  IN
  /\ At("zip", "next")
  /\ \/ CallFirst
     \/ /\ ctl = "ret"
        /\ IF resumed.up < Len(Ups(Top.node))
             THEN CallUpstream(resumed, resumed.up + 1)
             ELSE Return(resumed.st, resumed.hasNext, resumed.elements)

ZipClose == At("zip", "close") /\ VisitUpstreams

(***************************************************************************)
(* The statements.                                                         *)
(***************************************************************************)
\* The statement calls fn of its input on the state s.
CallInput(fn, s, value) ==
  /\ stack' = <<Frame(Stmt.input, fn, s)>>
  /\ ctl' = "call"
  /\ driver' = [pc |-> fn, value |-> value]
  /\ UNCHANGED <<plan, line, ret, phase, got, ended>>

\* The initial states of the iterators are created and the input is opened.
StartStatement ==
  /\ ctl = "stmt"
  /\ line <= Len(plan.stmts)
  /\ CallInput("open", [n \in plan.nodes |-> StateCreation(n)], << >>)
  /\ UNCHANGED out

\* The statement resumes from the function fn of its input.
Back(op, fn) ==
  /\ ctl = "ret" /\ stack = << >>
  /\ Stmt.op = op
  /\ driver.pc = fn

\* The code goes on with the next statement; that the output of this one is
\* complete, which a sink marks with a dash, is that line has passed it.
EndStatement ==
  /\ line' = line + 1
  /\ ctl' = "stmt"
  /\ driver' = [pc |-> "idle", value |-> << >>]
  /\ UNCHANGED <<plan, stack, ret, phase, got, ended>>

SinkLoop ==
  \/ /\ Back("sink", "open")
     /\ CallInput("next", ret.st, << >>)
     /\ UNCHANGED out
  \/ /\ Back("sink", "next") /\ ret.hasNext
     /\ out' = [out EXCEPT ![line] = Append(@, ret.element)]
     /\ CallInput("next", ret.st, << >>)
  \/ /\ Back("sink", "next") /\ ~ret.hasNext
     /\ CallInput("close", ret.st, << >>)
     /\ UNCHANGED out
  \/ /\ Back("sink", "close")
     /\ EndStatement
     /\ UNCHANGED out

\* Defect: the input is not closed once the value has been read.
StreamToValueLeavesOpen ==
  \/ /\ Back("stream_to_value", "open")
     /\ CallInput("next", ret.st, << >>)
     /\ UNCHANGED out
  \/ /\ Back("stream_to_value", "next")
     /\ out' = [out EXCEPT ![line] = IF ret.hasNext THEN <<ret.element>> ELSE << >>]
     /\ EndStatement

StreamToValue ==
  \/ /\ Back("stream_to_value", "open")
     /\ CallInput("next", ret.st, << >>)
     /\ UNCHANGED out
  \/ /\ Back("stream_to_value", "next")
     /\ CallInput("close", ret.st, IF ret.hasNext THEN <<ret.element>> ELSE << >>)
     /\ UNCHANGED out
  \/ /\ Back("stream_to_value", "close")
     /\ out' = [out EXCEPT ![line] = driver.value]
     /\ EndStatement

Terminated ==
  /\ ctl = "stmt" /\ line > Len(plan.stmts)
  /\ UNCHANGED vars

Init ==
  /\ plan \in Plans
  /\ line = 1
  /\ driver = [pc |-> "idle", value |-> << >>]
  /\ stack = << >>
  /\ ctl = "stmt"
  /\ ret = [st |-> [n \in plan.nodes |-> NoFields], hasNext |-> FALSE, element |-> Undef]
  /\ out = [l \in 1 .. Len(plan.stmts) |-> << >>]
  /\ phase = [n \in plan.nodes |-> "new"]
  /\ got = [n \in plan.nodes |-> 0]
  /\ ended = {}

SourceStep ==
  \/ ConstantStreamOpen \/ ConstantStreamNext \/ ConstantStreamClose
  \/ TabularViewOpen \/ TabularViewNext \/ TabularViewClose
  \/ ValueToStreamOpen \/ ValueToStreamNext \/ ValueToStreamClose

OperatorStep ==
  \/ FilterOpen \/ FilterNext \/ FilterClose
  \/ MapOpen \/ MapNext \/ MapClose
  \/ ReduceOpen \/ ReduceNext \/ ReduceClose
  \/ ZipOpen \/ ZipNext \/ ZipClose

Next ==
  \/ StartStatement \/ SinkLoop \/ StreamToValue
  \/ SourceStep \/ OperatorStep
  \/ Terminated

\* The program is sequential code that runs until it has finished.
Spec == Init /\ [][Next]_vars /\ WF_vars(Next)

(***************************************************************************)
(* Properties.                                                             *)
(***************************************************************************)
FrameFields == {"node", "fn", "st", "up", "inLoop", "acc", "hasNext", "elements"}

TypeOK ==
  /\ plan \in Plans
  /\ line \in 1 .. Len(plan.stmts) + 1
  /\ driver.pc \in {"idle", "open", "next", "close"}
  /\ ctl \in {"stmt", "call", "ret"}
  /\ DOMAIN out = 1 .. Len(plan.stmts)
  /\ phase \in [plan.nodes -> {"new", "open", "closed"}]
  /\ got \in [plan.nodes -> Nat]
  /\ ended \subseteq plan.nodes
  /\ Len(stack) \in Nat
  /\ stack = [i \in 1 .. Len(stack) |-> stack[i]]
  /\ \A i \in 1 .. Len(stack) :
       /\ DOMAIN stack[i] = FrameFields
       /\ stack[i].node \in plan.nodes
       /\ stack[i].fn \in {"open", "next", "close"}
       /\ stack[i].up \in 0 .. Len(Ups(stack[i].node))

(***************************************************************************)
(* The Volcano protocol of every iterator: Open is only called on an       *)
(* iterator that is not open, Next and Close only on one that is; between  *)
(* two statements, however the last one ended, no iterator is open.        *)
(***************************************************************************)
Protocol ==
  /\ \A i \in 1 .. Len(stack) :
       IF stack[i].fn = "open" THEN phase[stack[i].node] # "open"
                               ELSE phase[stack[i].node] = "open"
  /\ ctl = "stmt" => \A n \in plan.nodes : phase[n] # "open"

\* The upstream that the i-th frame has called last.
Called(i) == Ups(stack[i].node)[stack[i].up]

\* Whether the phase of node n is one that the function fn of n may be called
\* in, and one that it leaves behind.
Before(fn, n) == IF fn = "open" THEN phase[n] # "open" ELSE phase[n] = "open"
After(fn, n) == IF fn = "close" THEN phase[n] # "open" ELSE phase[n] = "open"

(***************************************************************************)
(* How calls nest: a statement that is in Open (or Next, or Close) of its  *)
(* input only has Open (Next, Close) calls under way, each frame is the    *)
(* call its caller made last, and a frame has visited its upstreams in     *)
(* order: the subtrees before the one it is in are done, with every        *)
(* iterator in them, and those after it are as they were.                  *)
(***************************************************************************)
Nesting ==
  /\ ctl = "stmt" <=> driver.pc = "idle"
  /\ ctl = "stmt" => stack = << >>
  /\ ctl = "call" => stack # << >> /\ Top.up = 0
  /\ ctl = "ret" /\ stack # << >> => Top.up > 0
  /\ ctl # "stmt" => line <= Len(plan.stmts)
  /\ stack # << >> => stack[1].node = Stmt.input
  /\ \A i \in 1 .. Len(stack) : stack[i].fn = driver.pc
  /\ \A i \in 1 .. Len(stack) - 1 :
       /\ stack[i].up > 0
       /\ stack[i + 1].node = Called(i)
       /\ \A j \in i + 1 .. Len(stack) : stack[j].node \in Below(Called(i))

FrameVisited(i) ==
  LET f == stack[i] IN
  /\ Before(f.fn, f.node)
  /\ \A k \in DOMAIN Ups(f.node) : \A m \in Below(Ups(f.node)[k]) :
       /\ k < f.up => After(f.fn, m)
       /\ k > f.up => Before(f.fn, m)
       /\ (k = f.up /\ i = Len(stack) /\ ctl = "ret") => After(f.fn, m)

Visited ==
  /\ \A i \in 1 .. Len(stack) : FrameVisited(i)
  /\ ctl = "ret" /\ stack = << >> =>
       \A m \in Below(Stmt.input) : After(driver.pc, m)
  /\ \A m \in plan.nodes :
       phase[m] = "open" => ctl # "stmt" /\ m \in Below(Stmt.input)

CallsNest == Nesting /\ Visited

(***************************************************************************)
(* The end of a stream is final: an iterator that has answered Next with   *)
(* no element never returns one before it is opened again.  ReduceOp       *)
(* depends on it: it calls its upstream again after the end.               *)
(***************************************************************************)
EndIsFinal == [][\A n \in ended : n \in ended' => got'[n] = got[n]]_vars

(***************************************************************************)
(* An element that is announced with hasNext is never undef, nor a tuple   *)
(* with an undef component: no user function and no print sees one.        *)
(***************************************************************************)
NoUndefElement ==
  ctl = "ret" /\ ret.hasNext =>
    /\ ret.element # Undef
    /\ \A k \in DOMAIN ret.element : ret.element[k] # Undef

(* Every statement's loops end, so the program runs to completion.         *)
Termination == <>(ctl = "stmt" /\ line > Len(plan.stmts))

(***************************************************************************)
(* The properties that speak of the streams the nodes stand for.           *)
(***************************************************************************)
INSTANCE StreamSemantics

StreamOf(n) == Streams(plan)[n]

OnStack(n) == \E i \in 1 .. Len(stack) : stack[i].node = n

\* The nodes that are open and that no call is under way in.
Resting == {n \in plan.nodes : phase[n] = "open" /\ ~OnStack(n)}

\* The elements node n has pulled from its k-th input since Open.
Pulled(n, k) == SubSeq(StreamOf(Ups(n)[k]), 1, got[Ups(n)[k]])

(***************************************************************************)
(* The generated code prints what the program promises: the detailed       *)
(* specification implements StreamProgram (Open/Next/Close functions and   *)
(* the code of sink and stream_to_value, for every plan).                  *)
(***************************************************************************)
Program == INSTANCE StreamProgram
ImplementsProgram == Program!Spec

(***************************************************************************)
(* What a plan gives the code to work with: the data of its sources is     *)
(* defined, its functions return defined elements for defined ones, and    *)
(* undef is no tuple that a zip makes.                                     *)
(***************************************************************************)
Defined(v) == v # Undef /\ \A k \in DOMAIN v : v[k] # Undef

DefinedOp(p, n) ==
  LET input == Streams(p)[p.ups[n][1]]
      reduced == ReducedUpTo(p.func[n], input)
  IN
  /\ p.kind[n] \in Sources => \A i \in 1 .. Len(p.data[n]) : Defined(p.data[n][i])
  /\ p.kind[n] = "map" =>
       \A i \in 1 .. Len(input) :
         Defined(input[i]) => Defined(MapFunc(p.func[n], input[i]))
  /\ p.kind[n] = "reduce" =>
       \A i \in 2 .. Len(input) :
         Defined(reduced[i - 1]) /\ Defined(input[i])
           => Defined(ReduceFunc(p.func[n], reduced[i - 1], input[i]))
  /\ p.kind[n] = "zip" => \A i \in 1 .. Len(Streams(p)[n]) : Streams(p)[n][i] # Undef

ASSUME DefinedAssumption == \A p \in Plans : \A n \in p.nodes : DefinedOp(p, n)

(***************************************************************************)
(* No operator reads ahead: between two calls of its Next a map has pulled *)
(* one element for each it has returned, a filter nothing after the last   *)
(* match it has returned unless it has reported the end, a reduce nothing  *)
(* or its whole input, a zip that has not reported the end one element of  *)
(* each input for each tuple.  A zip reports the end because an input has  *)
(* ended from which it has pulled no more than that; what becomes of the   *)
(* others is for RemainderNotConsumed to say.  This is what lets           *)
(* stream_to_value leave the rest of its input unconsumed.                 *)
(***************************************************************************)
PulledOnDemand ==
  \A n \in Resting :
    LET pulled == Pulled(n, 1) IN
    /\ Kind(n) = "map" => Len(pulled) = got[n]
    /\ Kind(n) = "filter" =>
         /\ Len(Matching(plan.func[n], pulled)) = got[n]
         /\ \/ pulled = << >> \/ n \in ended
            \/ Predicate(plan.func[n], pulled[Len(pulled)])
    /\ Kind(n) = "reduce" =>
         IF got[n] = 0 /\ n \notin ended THEN pulled = << >>
                                         ELSE pulled = StreamOf(Ups(n)[1])
    /\ Kind(n) = "zip" =>
         IF n \in ended
           THEN \E k \in DOMAIN Ups(n) : Ups(n)[k] \in ended /\ Len(Pulled(n, k)) = got[n]
           ELSE \A k \in DOMAIN Ups(n) : Len(Pulled(n, k)) = got[n]

(***************************************************************************)
(* If the inputs of a zip differ in length, its result is as long as the   *)
(* shortest and "the remainder of the other input streams is not           *)
(* consumed" (IteratorsOps.td): at any time, also after its end, a zip has *)
(* pulled one element of each input for each tuple.  The code of Next      *)
(* calls every upstream before it looks at any hasNext.                    *)
(***************************************************************************)
RemainderNotConsumed ==
  \A n \in Resting :
    Kind(n) = "zip" => \A k \in DOMAIN Ups(n) : Len(Pulled(n, k)) = got[n]

=============================================================================
