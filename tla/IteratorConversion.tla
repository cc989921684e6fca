------------------------- MODULE IteratorConversion -------------------------
(***************************************************************************)
(* The driver of the pass that lowers iterators: IteratorAnalysis assigns  *)
(* to every iterator op a state type and the names of its Open, Next and   *)
(* Close functions; convertIteratorOps converts the ops in the order of    *)
(* the text, creating those functions, and erases the ops; the dialect     *)
(* conversion lowers the print ops.                                        *)
(*                                                                         *)
(* Ops are numbered in an order in which every op comes after the ops it   *)
(* uses.  Blocks need not be written in such an order: the walk sees the   *)
(* ops in the order of the text.                                           *)
(***************************************************************************)
EXTENDS Integers, FiniteSets

CONSTANTS
  Programs,     \* functions from 1 .. n to ops [name, operands]
  UserSymbols   \* the sets of symbols that the module may have to begin with

\* The module is valid to begin with.
ASSUME SymbolsAssumption ==
  \A symbols \in UserSymbols : \A s, t \in symbols : s.name = t.name => s = t

IteratorOps == {"constantstream", "filter", "map", "reduce", "tabular_view_to_stream",
                "value_to_stream", "zip"}
Consumers == {"sink", "stream_to_value"}
Suffixes == {"open", "next", "close"}

\* An op uses results of the ops before it; a sink has none.
ASSUME ProgramsAssumption ==
  \A p \in Programs :
    /\ Cardinality(DOMAIN p) \in Nat
    /\ DOMAIN p = 1 .. Cardinality(DOMAIN p)
    /\ \A i \in DOMAIN p :
         /\ p[i].name \in IteratorOps \cup Consumers
         /\ \A k \in DOMAIN p[i].operands :
              /\ p[i].operands[k] \in 0 .. i - 1
              /\ p[i].operands[k] # 0 => p[p[i].operands[k]].name # "sink"

VARIABLES
  prog,          \* the ops; an operand is the number of the op that defines it,
                 \* or 0 if no iterator op does
  cut,           \* the ops after this one are in blocks that come first in the text
  phase,         \* "analysis", "convert", "erase", "print", "done", or "assert"
  pos,           \* how many ops, or print ops, the phase has seen
  names,         \* NameAssigner: the names it has assigned ...
  uniqueNumber,  \* ... and the number it tries next
  infos,         \* IteratorAnalysis: the IteratorInfo of each op seen so far
  mapping,       \* the iterator ops whose result has a converted value
  operands,      \* the values that each original op uses
  created,       \* the values that the code generated for an op uses
  calls,         \* the calls in the generated code
  table,         \* the symbols of the module
  erased         \* the ops that are erased

vars == <<prog, cut, phase, pos, names, uniqueNumber, infos, mapping, operands, created, calls,
          table, erased>>

Ops == DOMAIN prog
Size == Cardinality(Ops)
IsIterator(i) == prog[i].name \in IteratorOps

\* Defect: the ops are walked in the opposite order.
WalkedBackwards(k) == IF k <= cut THEN cut + 1 - k ELSE Size + cut + 1 - k

\* The op at a place in the text.
Walked(k) == IF k + cut <= Size THEN k + cut ELSE k + cut - Size

\* Values: the result of op i, or what it has been converted to.
Old(i) == [of |-> i, new |-> FALSE]
New(i) == [of |-> i, new |-> TRUE]

Symbol(name, kind, owner, type) == [name |-> name, kind |-> kind, owner |-> owner, type |-> type]
NoType == << >>
NamesOf(symbols) == {s.name : s \in symbols}

(***************************************************************************)
(* Names: a prefix and a number, -1 if there is none.                      *)
(***************************************************************************)
Name(base, part, n) == [base |-> base, part |-> part, number |-> n]
Printf == Name("printf", "", -1)

\* Defect: only the names assigned so far count, not the module's symbols.
FreeNumbersNotInModule(base, part, from, symbols, assigned) ==
  {n \in from .. from + Cardinality(assigned) :
     /\ Name(base, part, n) \notin assigned
     /\ \A m \in from .. n - 1 : Name(base, part, m) \in assigned}

\* The number at which a loop that counts up from a number finds a name that
\* is free.  It passes over each taken name at most once.
FreeNumbers(base, part, from, symbols, assigned) ==
  LET taken == NamesOf(symbols) \cup assigned
  IN {n \in from .. from + Cardinality(taken) :
        /\ Name(base, part, n) \notin taken
        /\ \A m \in from .. n - 1 : Name(base, part, m) \in taken}

\* NameAssigner::assignName, for one of the functions of an op.
assignName(op, suffix, from) == FreeNumbers(op, suffix, from, table, names)

(***************************************************************************)
(* IteratorAnalysis.                                                       *)
(***************************************************************************)
IteratorOperands(i) == {k \in DOMAIN prog[i].operands : prog[i].operands[k] # 0
                                                        /\ IsIterator(prog[i].operands[k])}

\* StateTypeComputer: the op's own fields, which its kind decides, and the
\* states of its upstreams.
StateType(i) ==
  [op |-> prog[i].name,
   nested |-> [k \in IteratorOperands(i) |-> infos[prog[i].operands[k]].stateType]]

SkipOp ==
  /\ phase = "analysis" /\ pos < Size /\ ~IsIterator(Walked(pos + 1))
  /\ pos' = pos + 1
  /\ UNCHANGED <<prog, cut, phase, names, uniqueNumber, infos, mapping, operands, created, calls,
                 table, erased>>

\* getExpectedIteratorInfo has an entry for each upstream, or fails.
Analysed(i) == \A k \in IteratorOperands(i) : prog[i].operands[k] \in DOMAIN infos

AnalyseFails ==
  /\ phase = "analysis" /\ pos < Size /\ IsIterator(Walked(pos + 1))
  /\ ~Analysed(Walked(pos + 1))
  /\ phase' = "assert"
  /\ UNCHANGED <<prog, cut, pos, names, uniqueNumber, infos, mapping, operands, created, calls,
                 table, erased>>

\* assignFunctionNames, and setIteratorInfo.
AnalyseOp ==
  LET i == Walked(pos + 1)
      op == prog[i].name
  IN
  /\ phase = "analysis" /\ pos < Size /\ IsIterator(i) /\ Analysed(i)
  /\ \E o \in assignName(op, "open", uniqueNumber) :
     \E n \in assignName(op, "next", o) :
     \E c \in assignName(op, "close", n) :
       LET number == [open |-> o, next |-> n, close |-> c] IN
       /\ uniqueNumber' = c
       /\ names' = names \cup {Name(op, f, number[f]) : f \in Suffixes}
       /\ infos' = [j \in DOMAIN infos \cup {i} |->
                      IF j = i THEN [number |-> number, stateType |-> StateType(i)]
                               ELSE infos[j]]
  /\ pos' = pos + 1
  /\ UNCHANGED <<prog, cut, phase, mapping, operands, created, calls, table, erased>>

NextPhase(p, q) ==
  /\ phase = p /\ pos = Size
  /\ phase' = q /\ pos' = 0
  /\ UNCHANGED <<prog, cut, names, uniqueNumber, infos, mapping, operands, created, calls, table,
                 erased>>

(***************************************************************************)
(* convertIteratorOps.                                                     *)
(***************************************************************************)
FuncName(i, f) == Name(prog[i].name, f, infos[i].number[f])

\* The converted operands: a state if the mapping has one, else the operand.
MappedOperands(i) ==
  [k \in DOMAIN operands[i] |->
     LET v == operands[i][k]
     IN IF v \in {Old(j) : j \in mapping} THEN New(v.of) ELSE v]

\* Defect: every upstream is given the state of the first.
UpstreamCallsFirstState(i) ==
  {[callee |-> FuncName(prog[i].operands[k], f),
    state |-> CASE IsIterator(i) -> infos[i].stateType.nested[1]
                [] MappedOperands(i)[k].new -> infos[prog[i].operands[k]].stateType
                [] OTHER -> NoType]
     : k \in IteratorOperands(i), f \in Suffixes}

\* Each upstream's functions, called with a state that is taken out of the
\* op's own state or, in a consumer, is the converted operand itself.
UpstreamCalls(i) ==
  {[callee |-> FuncName(prog[i].operands[k], f),
    state |-> CASE IsIterator(i) -> infos[i].stateType.nested[k]
                [] MappedOperands(i)[k].new -> infos[prog[i].operands[k]].stateType
                [] OTHER -> NoType]
     : k \in IteratorOperands(i), f \in Suffixes}

\* buildOpenNextCloseInParentModule, for each of the three functions.
OpenNextClose(i) == {Symbol(FuncName(i, f), "func", i, infos[i].stateType) : f \in Suffixes}

\* buildGlobalData looks for a free name among the symbols of the module.
GlobalDataNames(symbols) ==
  {Name("constant_stream_data", "", n)
     : n \in FreeNumbers("constant_stream_data", "", 0, symbols, {})}

\* convert of an iterator op: Open, the data of a constant stream as the Next
\* function is built, Next and Close, and the code that creates the state.
ConvertIterator ==
  LET i == Walked(pos + 1) IN
  /\ phase = "convert" /\ pos < Size /\ IsIterator(i)
  /\ IF prog[i].name = "constantstream"
       THEN LET before == table \cup {s \in OpenNextClose(i) : s.name.part # "close"}
            IN \E g \in GlobalDataNames(before) :
                 table' = table \cup OpenNextClose(i) \cup {Symbol(g, "global", i, NoType)}
       ELSE table' = table \cup OpenNextClose(i)
  /\ created' = [created EXCEPT ![i] = MappedOperands(i)]
  /\ calls' = calls \cup UpstreamCalls(i)
  /\ mapping' = mapping \cup {i}
  /\ pos' = pos + 1
  /\ UNCHANGED <<prog, cut, phase, names, uniqueNumber, infos, operands, erased>>

\* convert of SinkOp.
ConvertSink ==
  LET i == Walked(pos + 1) IN
  /\ phase = "convert" /\ pos < Size /\ prog[i].name = "sink"
  /\ created' = [created EXCEPT ![i] = MappedOperands(i)]
  /\ calls' = calls \cup UpstreamCalls(i)
  /\ pos' = pos + 1
  /\ UNCHANGED <<prog, cut, phase, names, uniqueNumber, infos, mapping, operands, table, erased>>

\* Value::replaceAllUsesWith, of the result of op i.
Replaced(used, i) ==
  [j \in DOMAIN used |-> [k \in DOMAIN used[j] |->
     IF used[j][k] = Old(i) THEN New(i) ELSE used[j][k]]]

\* Defect: the uses in code that is already generated are not replaced.
ConvertStreamToValueLater ==
  LET i == Walked(pos + 1) IN
  /\ phase = "convert" /\ pos < Size /\ prog[i].name = "stream_to_value"
  /\ created' = [created EXCEPT ![i] = MappedOperands(i)]
  /\ operands' = Replaced(operands, i)
  /\ calls' = calls \cup UpstreamCalls(i)
  /\ pos' = pos + 1
  /\ UNCHANGED <<prog, cut, phase, names, uniqueNumber, infos, mapping, table, erased>>

\* convert of StreamToValueOp, whose results the rest of the program uses.
ConvertStreamToValue ==
  LET i == Walked(pos + 1) IN
  /\ phase = "convert" /\ pos < Size /\ prog[i].name = "stream_to_value"
  /\ created' = Replaced([created EXCEPT ![i] = MappedOperands(i)], i)
  /\ operands' = Replaced(operands, i)
  /\ calls' = calls \cup UpstreamCalls(i)
  /\ pos' = pos + 1
  /\ UNCHANGED <<prog, cut, phase, names, uniqueNumber, infos, mapping, table, erased>>

\* The ops are erased in the reverse order.
EraseOp ==
  /\ phase = "erase" /\ pos < Size
  /\ erased' = erased \cup {Walked(Size - pos)}
  /\ pos' = pos + 1
  /\ UNCHANGED <<prog, cut, phase, names, uniqueNumber, infos, mapping, operands, created, calls,
                 table>>

(***************************************************************************)
(* PrintOpLowering, of the two print ops that each sink was converted to.  *)
(***************************************************************************)
Sinks == {i \in Ops : prog[i].name = "sink"}

\* getOrCreateGlobalString, with makeUnique.
FormatNames ==
  IF Name("frmt_spec", "", -1) \notin NamesOf(table)
    THEN {Name("frmt_spec", "", -1)}
    ELSE {Name("frmt_spec", "", n) : n \in FreeNumbers("frmt_spec", "", 0, table, {})}

\* lookupOrInsertPrintf: only an LLVM function is found.
PrintfDeclaration ==
  IF \E s \in table : s.name = Printf /\ s.kind = "llvm.func"
    THEN {} ELSE {Symbol(Printf, "llvm.func", pos + 1, NoType)}

LowerPrint ==
  /\ phase = "print" /\ pos < 2 * Cardinality(Sinks)
  /\ \E g \in FormatNames :
       table' = table \cup {Symbol(g, "global", pos + 1, NoType)} \cup PrintfDeclaration
  /\ pos' = pos + 1
  /\ UNCHANGED <<prog, cut, phase, names, uniqueNumber, infos, mapping, operands, created, calls,
                 erased>>

Finish ==
  /\ phase = "print" /\ pos = 2 * Cardinality(Sinks)
  /\ phase' = "done"
  /\ UNCHANGED <<prog, cut, pos, names, uniqueNumber, infos, mapping, operands, created, calls,
                 table, erased>>

Stopped == phase \in {"done", "assert"} /\ UNCHANGED vars

Init ==
  /\ prog \in Programs /\ cut \in 0 .. Size - 1
  /\ phase = "analysis" /\ pos = 0
  /\ names = {} /\ uniqueNumber = 0 /\ infos = << >>
  /\ mapping = {} /\ created = [i \in Ops |-> << >>] /\ calls = {} /\ erased = {}
  /\ operands = [i \in Ops |-> [k \in DOMAIN prog[i].operands |-> Old(prog[i].operands[k])]]
  /\ \E names0 \in UserSymbols :
       table = {Symbol(s.name, s.kind, 0, NoType) : s \in names0}

Next ==
  \/ SkipOp \/ AnalyseOp \/ AnalyseFails \/ NextPhase("analysis", "convert")
  \/ ConvertIterator \/ ConvertSink \/ ConvertStreamToValue \/ NextPhase("convert", "erase")
  \/ EraseOp \/ NextPhase("erase", "print") \/ LowerPrint \/ Finish \/ Stopped

Spec == Init /\ [][Next]_vars

(***************************************************************************)
(* Properties.                                                             *)
(***************************************************************************)
\* The place of an op in the text.
Place(i) == IF i > cut THEN i - cut ELSE i - cut + Size

\* Every op comes after its upstream iterators in the text.
InOrder ==
  \A i \in Ops : \A k \in IteratorOperands(i) : Place(prog[i].operands[k]) < Place(i)

(***************************************************************************)
(* The symbols that the pass adds to the module, at three places and with  *)
(* names picked long before they are added, never redefine one another or  *)
(* a symbol that was there.  The exception is printf, if the module has    *)
(* one that is not an LLVM function.                                       *)
(***************************************************************************)
SymbolsUnique ==
  \A s, t \in table :
    s.name = t.name =>
      \/ s = t
      \/ s.name = Printf /\ \E u \in {s, t} : u.owner = 0 /\ u.kind # "llvm.func"

(***************************************************************************)
(* Every call in the generated code is to a function that exists in the    *)
(* end and that takes a state of the type that the call gives it.          *)
(***************************************************************************)
CallsResolved ==
  phase = "done" /\ InOrder =>
    \A c \in calls : \E s \in table :
      s.kind = "func" /\ s.name = c.callee /\ s.type = c.state

(***************************************************************************)
(* Nothing uses an op that has been erased: neither an op that is still    *)
(* there nor the generated code.                                           *)
(***************************************************************************)
ErasedUnused ==
  InOrder =>
    \A e \in erased, i \in Ops :
      /\ \A k \in DOMAIN created[i] : created[i][k] # Old(e)
      /\ i \notin erased => \A k \in DOMAIN operands[i] : operands[i][k] # Old(e)

(***************************************************************************)
(* "each iterator is added to the worklist *after* all of its upstream     *)
(* iterators": if the blocks are written such that this is so, the         *)
(* analysis has the upstreams' infos when it needs them.                   *)
(***************************************************************************)
InOrderIsAnalysed == InOrder => phase # "assert"

=============================================================================
