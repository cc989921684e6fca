---------------------- MODULE IteratorConversionProofs ----------------------
(***************************************************************************)
(* Proofs, for every program and every set of symbols of the module, that  *)
(* the pass redefines no symbol, that ops in order are analysed, that each *)
(* call it generates is to a function it built for a state of that type,   *)
(* and that it erases no op whose result is still used.  Inv is about the  *)
(* names and CodeInv about the code; both are inductive.                   *)
(***************************************************************************)
EXTENDS IteratorConversion, TLAPS

\* The iterators among the first n ops of the text.
Seen(n) == {i \in Ops : IsIterator(i) /\ Place(i) <= n}

Progress ==
  /\ prog \in Programs /\ cut \in 0 .. Size - 1
  /\ phase \in {"analysis", "convert", "erase", "print", "done", "assert"}
  /\ pos \in Nat
  /\ phase \in {"analysis", "convert"} => pos <= Size
  /\ phase \in {"analysis", "assert"} => DOMAIN infos = Seen(pos) /\ mapping = {}
  /\ phase = "convert" => DOMAIN infos = Seen(Size) /\ mapping = Seen(pos)

\* Each op has names of its own ...
NamesApart ==
  /\ \A i \in DOMAIN infos : \A f \in Suffixes : FuncName(i, f) \in names
  /\ \A i, j \in DOMAIN infos : \A f \in Suffixes : FuncName(i, f) = FuncName(j, f) => i = j

\* ... which only the functions that are created for it use.
NamesReserved ==
  \A s \in table : s.name \in names =>
    s.owner \in mapping /\ \E f \in Suffixes : s.name = FuncName(s.owner, f)

\* The names of the functions have the shape that those of globals do not have.
NamesShape == \A n \in names : n.part \in Suffixes

PrintfOfUser == \A s \in table : s.name = Printf /\ s.kind # "llvm.func" => s.owner = 0

Inv == Progress /\ NamesApart /\ NamesReserved /\ NamesShape /\ PrintfOfUser /\ SymbolsUnique

(* The ops are numbered from one, in order.                                *)
LEMMA OpsNumbered ==
  ASSUME Progress
  PROVE Size \in Nat /\ Ops = 1 .. Size
BY ProgramsAssumption DEF Progress, Ops, Size

(* The walk over the text visits every op once: Place is its inverse.      *)
LEMMA WalkedPlace ==
  ASSUME Progress, NEW k \in 1 .. Size
  PROVE Walked(k) \in Ops /\ Place(Walked(k)) = k
<1>1. Size \in Nat /\ Ops = 1 .. Size /\ cut \in 0 .. Size - 1
  BY OpsNumbered DEF Progress
<1> QED
  BY <1>1 DEF Walked, Place

(* Each place of the text has one op.                                      *)
LEMMA PlaceWalked ==
  ASSUME Progress, NEW i \in Ops
  PROVE Place(i) \in 1 .. Size /\ Walked(Place(i)) = i
<1>1. Size \in Nat /\ Ops = 1 .. Size /\ cut \in 0 .. Size - 1
  BY OpsNumbered DEF Progress
<1> QED
  BY <1>1 DEF Walked, Place

(* One step of the walk sees one more op, if it is an iterator.            *)
LEMMA SeenNext ==
  ASSUME Progress, pos < Size
  PROVE LET i == Walked(pos + 1) IN
        /\ i \in Ops /\ i \notin Seen(pos)
        /\ Seen(pos + 1) = IF IsIterator(i) THEN Seen(pos) \cup {i} ELSE Seen(pos)
<1> DEFINE i == Walked(pos + 1)
<1>1. Size \in Nat /\ Ops = 1 .. Size /\ pos \in Nat
  BY OpsNumbered DEF Progress
<1>2. pos + 1 \in 1 .. Size
  BY <1>1
<1>3. i \in Ops /\ Place(i) = pos + 1
  BY <1>2, WalkedPlace
<1> HIDE DEF i
<1>4. \A j \in Ops : Place(j) \in 1 .. Size
  BY PlaceWalked
<1>5. \A j \in Ops : Place(j) = pos + 1 => j = i
  <2> SUFFICES ASSUME NEW j \in Ops, Place(j) = pos + 1 PROVE j = i
    OBVIOUS
  <2>1. Walked(Place(j)) = j
    BY PlaceWalked
  <2> QED
    BY <2>1 DEF i
<1>6. \A j \in Ops : Place(j) <= pos + 1 <=> Place(j) <= pos \/ j = i
  <2> SUFFICES ASSUME NEW j \in Ops
               PROVE Place(j) <= pos + 1 <=> Place(j) <= pos \/ j = i
    OBVIOUS
  <2>1. Place(j) = pos + 1 <=> j = i
    BY <1>3, <1>5
  <2>2. Place(j) \in Int /\ pos \in Int
    BY <1>1, <1>4
  <2>3. Place(j) <= pos + 1 <=> Place(j) <= pos \/ Place(j) = pos + 1
    BY <2>2
  <2> QED
    BY <2>1, <2>3
<1>7. ~(Place(i) <= pos)
  BY <1>1, <1>3
<1> QED
  BY <1>3, <1>6, <1>7 DEF Seen, i

(* A name that the counting loop finds is taken by nobody.                 *)
LEMMA FreeIsFree ==
  ASSUME NEW base, NEW part, NEW from, NEW symbols, NEW assigned,
         NEW n \in FreeNumbers(base, part, from, symbols, assigned)
  PROVE /\ Name(base, part, n) \notin assigned
        /\ \A s \in symbols : s.name # Name(base, part, n)
BY DEF FreeNumbers, NamesOf

(* The name of printf is that of no generated function.                    *)
LEMMA PrintfFields == Printf.base = "printf" /\ Printf.part = ""
BY DEF Printf, Name

(* Nothing is named before the analysis.                                   *)
LEMMA InitInv == Init => Inv
<1> SUFFICES ASSUME Init PROVE Inv
  OBVIOUS
<1>1. names = {} /\ infos = << >> /\ mapping = {} /\ phase = "analysis" /\ pos = 0
  BY DEF Init
<1>2. Progress
  <2>1. Size \in Nat /\ Ops = 1 .. Size
    BY ProgramsAssumption DEF Init, Ops, Size
  <2>2. \A i \in Ops : ~(Place(i) <= 0)
    BY <2>1 DEF Init, Place
  <2>3. Seen(0) = {}
    BY <2>2 DEF Seen
  <2>4. DOMAIN infos = {}
    BY <1>1
  <2> QED
    BY <1>1, <2>1, <2>3, <2>4 DEF Init, Progress
<1>3. PICK symbols \in UserSymbols :
        table = {Symbol(s.name, s.kind, 0, NoType) : s \in symbols}
  BY DEF Init
<1>4. SymbolsUnique
  BY <1>3, SymbolsAssumption DEF SymbolsUnique, Symbol
<1>5. PrintfOfUser
  BY <1>3 DEF PrintfOfUser, Symbol
<1> QED
  BY <1>1, <1>2, <1>4, <1>5 DEF Inv, NamesApart, NamesReserved, NamesShape

(* The steps that neither name nor create anything.                        *)
LEMMA QuietStep ==
  ASSUME Inv, Progress', UNCHANGED <<prog, cut, names, infos, mapping, table>>
  PROVE Inv'
BY DEF Inv, NamesApart, NamesReserved, NamesShape, PrintfOfUser, SymbolsUnique, FuncName

(* The analysis of an op: its names are new, to the module and to the      *)
(* other ops.                                                              *)
LEMMA AnalyseStep == Inv /\ AnalyseOp => Inv'
<1> SUFFICES ASSUME Inv, AnalyseOp PROVE Inv'
  OBVIOUS
<1>0. PICK i, op : i = Walked(pos + 1) /\ op = prog[i].name
  OBVIOUS
<1>1. /\ phase = "analysis" /\ pos < Size /\ IsIterator(i)
      /\ pos' = pos + 1
      /\ UNCHANGED <<prog, cut, phase, mapping, table>>
  BY <1>0 DEF AnalyseOp
<1>2. PICK o \in assignName(op, "open", uniqueNumber) :
      \E n \in assignName(op, "next", o) :
      \E c \in assignName(op, "close", n) :
        LET number == [open |-> o, next |-> n, close |-> c] IN
        /\ names' = names \cup {Name(op, f, number[f]) : f \in Suffixes}
        /\ infos' = [j \in DOMAIN infos \cup {i} |->
                       IF j = i THEN [number |-> number, stateType |-> StateType(i)]
                                ELSE infos[j]]
  BY <1>0 DEF AnalyseOp
<1>3. PICK n \in assignName(op, "next", o) :
      \E c \in assignName(op, "close", n) :
        LET number == [open |-> o, next |-> n, close |-> c] IN
        /\ names' = names \cup {Name(op, f, number[f]) : f \in Suffixes}
        /\ infos' = [j \in DOMAIN infos \cup {i} |->
                       IF j = i THEN [number |-> number, stateType |-> StateType(i)]
                                ELSE infos[j]]
  BY <1>2
<1>4. PICK c \in assignName(op, "close", n) :
        LET number == [open |-> o, next |-> n, close |-> c] IN
        /\ names' = names \cup {Name(op, f, number[f]) : f \in Suffixes}
        /\ infos' = [j \in DOMAIN infos \cup {i} |->
                       IF j = i THEN [number |-> number, stateType |-> StateType(i)]
                                ELSE infos[j]]
  BY <1>3
<1> DEFINE number == [open |-> o, next |-> n, close |-> c]
           New3 == {Name(op, f, number[f]) : f \in Suffixes}
<1>5. \A f \in Suffixes : /\ Name(op, f, number[f]) \notin names
                          /\ \A s \in table : s.name # Name(op, f, number[f])
  <2>1. Name(op, "open", o) \notin names /\ \A s \in table : s.name # Name(op, "open", o)
    BY FreeIsFree DEF assignName
  <2>2. Name(op, "next", n) \notin names /\ \A s \in table : s.name # Name(op, "next", n)
    BY FreeIsFree DEF assignName
  <2>3. Name(op, "close", c) \notin names /\ \A s \in table : s.name # Name(op, "close", c)
    BY FreeIsFree DEF assignName
  <2> QED
    BY <2>1, <2>2, <2>3 DEF Suffixes
<1>6. Progress' /\ i \notin DOMAIN infos
  <2>1. Progress /\ DOMAIN infos = Seen(pos) /\ mapping = {} /\ pos \in Nat /\ Size \in Nat
    BY <1>1, OpsNumbered DEF Inv, Progress
  <2>2. i \in Ops /\ i \notin Seen(pos) /\ Seen(pos + 1) = Seen(pos) \cup {i}
    BY <1>0, <1>1, <2>1, SeenNext
  <2>3. DOMAIN infos' = DOMAIN infos \cup {i}
    BY <1>4
  <2>4. /\ Ops' = Ops /\ Size' = Size /\ pos' <= Size' /\ pos' \in Nat
        /\ Seen(pos)' = Seen(pos + 1)
    BY <1>1, <2>1 DEF Ops, Size, Seen, Place, IsIterator
  <2> QED
    BY <1>1, <2>1, <2>2, <2>3, <2>4 DEF Progress
<1>7. /\ \A j \in DOMAIN infos : \A f \in Suffixes : FuncName(j, f)' = FuncName(j, f)
      /\ \A f \in Suffixes : FuncName(i, f)' = Name(op, f, number[f])
      /\ DOMAIN infos' = DOMAIN infos \cup {i}
      /\ names' = names \cup New3
  BY <1>0, <1>1, <1>4, <1>6 DEF FuncName
<1> HIDE DEF number
<1>8. NamesApart'
  <2>1. \A j \in DOMAIN infos' : \A f \in Suffixes : FuncName(j, f)' \in names'
    BY <1>7 DEF Inv, NamesApart
  <2>2. \A j \in DOMAIN infos : \A f \in Suffixes : FuncName(j, f)' # FuncName(i, f)'
    BY <1>5, <1>7 DEF Inv, NamesApart
  <2>3. \A j, k \in DOMAIN infos : \A f \in Suffixes :
          FuncName(j, f)' = FuncName(k, f)' => j = k
    BY <1>7 DEF Inv, NamesApart
  <2> QED
    BY <1>7, <2>1, <2>2, <2>3 DEF NamesApart
<1>9. NamesReserved'
  <2>1. \A s \in table : s.name \notin names
    BY <1>1 DEF Inv, NamesReserved, Progress
  <2>2. \A s \in table : s.name \notin New3
    BY <1>5
  <2> QED
    BY <1>1, <1>7, <2>1, <2>2 DEF NamesReserved
<1>10. NamesShape'
  BY <1>7 DEF Inv, NamesShape, Name
<1> QED
  BY <1>1, <1>6, <1>8, <1>9, <1>10 DEF Inv, PrintfOfUser, SymbolsUnique

(* The conversion of an iterator op: its names are still free when its     *)
(* functions are created.                                                  *)
LEMMA ConvertStep == Inv /\ ConvertIterator => Inv'
<1> SUFFICES ASSUME Inv, ConvertIterator PROVE Inv'
  OBVIOUS
<1>0. PICK i : i = Walked(pos + 1)
  OBVIOUS
<1>1. /\ phase = "convert" /\ pos < Size /\ IsIterator(i)
      /\ pos' = pos + 1 /\ mapping' = mapping \cup {i}
      /\ UNCHANGED <<prog, cut, phase, names, infos>>
  BY <1>0 DEF ConvertIterator
<1>2. Progress' /\ i \in DOMAIN infos /\ i \notin mapping
  <2>1. /\ Progress /\ DOMAIN infos = Seen(Size) /\ mapping = Seen(pos)
        /\ pos \in Nat /\ Size \in Nat
    BY <1>1, OpsNumbered DEF Inv, Progress
  <2>2. i \in Ops /\ i \notin Seen(pos) /\ Seen(pos + 1) = Seen(pos) \cup {i}
    BY <1>0, <1>1, <2>1, SeenNext
  <2>3. Place(i) \in 1 .. Size
    BY <2>1, <2>2, PlaceWalked
  <2>4. i \in Seen(Size)
    BY <1>1, <2>2, <2>3 DEF Seen
  <2>5. /\ Ops' = Ops /\ Size' = Size /\ pos' <= Size' /\ pos' \in Nat
        /\ Seen(pos)' = Seen(pos + 1) /\ Seen(Size)' = Seen(Size)
    BY <1>1, <2>1 DEF Ops, Size, Seen, Place, IsIterator
  <2> QED
    BY <1>1, <2>1, <2>2, <2>4, <2>5 DEF Progress
<1>3. \A j, f : FuncName(j, f)' = FuncName(j, f)
  BY <1>1 DEF FuncName
<1> DEFINE Added(globals) ==
        /\ table' = table \cup OpenNextClose(i) \cup globals
        /\ \A g \in globals : g.owner = i /\ g.kind = "global" /\ g.name.part = ""
                             /\ g.name.base = "constant_stream_data"
        /\ \A g, h \in globals : g = h
        /\ \A g \in globals, s \in table : s.name # g.name
<1>some. \E globals : Added(globals)
  <2>1. CASE prog[i].name # "constantstream"
    <3>1. table' = table \cup OpenNextClose(i)
      BY <1>0, <2>1 DEF ConvertIterator
    <3>2. Added({})
      BY <3>1
    <3> HIDE DEF Added
    <3> QED
      BY <3>2
  <2>2. CASE prog[i].name = "constantstream"
    <3> DEFINE before == table \cup {s \in OpenNextClose(i) : s.name.part # "close"}
    <3>1. PICK g \in GlobalDataNames(before) :
            table' = table \cup OpenNextClose(i) \cup {Symbol(g, "global", i, NoType)}
      BY <1>0, <2>2 DEF ConvertIterator
    <3>2. PICK n \in FreeNumbers("constant_stream_data", "", 0, before, {}) :
            g = Name("constant_stream_data", "", n)
      BY <3>1 DEF GlobalDataNames
    <3>3. \A s \in before : s.name # g
      BY <3>2, FreeIsFree
    <3>4. \A s \in table : s.name # g
      BY <3>3
    <3>5. PICK d : d = Symbol(g, "global", i, NoType)
      OBVIOUS
    <3>6. d.owner = i /\ d.kind = "global" /\ d.name = g
      BY <3>5 DEF Symbol
    <3>7. g.part = "" /\ g.base = "constant_stream_data"
      BY <3>2 DEF Name
    <3>8. table' = table \cup OpenNextClose(i) \cup {d}
      BY <3>1, <3>5
    <3>9. d.name.part = "" /\ d.name.base = "constant_stream_data"
      BY <3>6, <3>7
    <3>10. \A s \in table : s.name # d.name
      BY <3>4, <3>6
    <3>11. Added({d})
      BY <3>6, <3>8, <3>9, <3>10
    <3> HIDE DEF Added
    <3> QED
      BY <3>11
  <2> QED
    BY <2>1, <2>2
<1>4. PICK globals : Added(globals)
  BY <1>some
<1>5. \A s \in OpenNextClose(i) :
        /\ s.owner = i /\ s.kind = "func" /\ s.name.part \in Suffixes /\ s.name \in names
        /\ s.name = FuncName(i, s.name.part)
        /\ s = Symbol(s.name, "func", i, infos[i].stateType)
  BY <1>2 DEF OpenNextClose, Symbol, FuncName, Name, Inv, NamesApart
<1>6. \A s \in OpenNextClose(i), t \in table : s.name # t.name
  <2> SUFFICES ASSUME NEW s \in OpenNextClose(i), NEW t \in table, s.name = t.name
               PROVE FALSE
    OBVIOUS
  <2>1. t.owner \in mapping
    BY <1>5 DEF Inv, NamesReserved
  <2>2. PICK f \in Suffixes : t.name = FuncName(t.owner, f)
    BY <1>5 DEF Inv, NamesReserved
  <2>3. f = s.name.part
    BY <2>2, <1>5 DEF FuncName, Name
  <2>4. t.owner \in DOMAIN infos
    <3>1. mapping \subseteq Seen(Size)
      <4>1. mapping = Seen(pos) /\ pos \in Nat /\ Size \in Nat /\ Progress
        BY <1>1, OpsNumbered DEF Inv, Progress
      <4>2. \A j \in Ops : Place(j) \in 1 .. Size
        BY <4>1, PlaceWalked
      <4> QED
        BY <4>1, <4>2 DEF Seen
    <3> QED
      BY <1>1, <2>1, <3>1 DEF Inv, Progress
  <2>5. t.owner = i
    BY <1>2, <1>5, <2>2, <2>3, <2>4 DEF Inv, NamesApart
  <2> QED
    BY <1>2, <2>1, <2>5
<1>7. \A n \in Suffixes : n # ""
  BY DEF Suffixes
<1>8. NamesApart' /\ NamesShape'
  BY <1>1, <1>3 DEF Inv, NamesApart, NamesShape
<1>9. NamesReserved'
  <2> SUFFICES ASSUME NEW s \in table', s.name \in names
               PROVE s.owner \in mapping' /\ \E f \in Suffixes : s.name = FuncName(s.owner, f)
    BY <1>1, <1>3 DEF NamesReserved
  <2>1. CASE s \in table
    BY <1>1, <2>1 DEF Inv, NamesReserved
  <2>2. CASE s \in OpenNextClose(i)
    BY <1>1, <1>5, <2>2
  <2>3. s.name.part # ""
    BY <1>7 DEF Inv, NamesShape
  <2> QED
    BY <1>4, <2>1, <2>2, <2>3
<1>10. PrintfOfUser'
  <2> SUFFICES ASSUME NEW s \in table', s.name = Printf, s.kind # "llvm.func"
               PROVE s.owner = 0
    BY DEF PrintfOfUser
  <2>1. s.name.part = "" /\ s.name.base # "constant_stream_data"
    BY PrintfFields
  <2>2. s \in table
    BY <1>4, <1>5, <1>7, <2>1
  <2> QED
    BY <2>2 DEF Inv, PrintfOfUser
<1>11. SymbolsUnique'
  <2> SUFFICES ASSUME NEW s \in table', NEW t \in table', s.name = t.name, s # t
               PROVE s.name = Printf /\ \E u \in {s, t} : u.owner = 0 /\ u.kind # "llvm.func"
    BY DEF SymbolsUnique
  <2>1. CASE s \in table /\ t \in table
    BY <2>1 DEF Inv, SymbolsUnique
  <2>2. s \in OpenNextClose(i) => t \in table \/ t = s
    BY <1>4, <1>5, <1>7, ZenonT(30)
  <2>3. t \in OpenNextClose(i) => s \in table \/ t = s
    BY <1>4, <1>5, <1>7, ZenonT(30)
  <2> QED
    BY <1>4, <1>6, <2>1, <2>2, <2>3
<1> QED
  BY <1>2, <1>8, <1>9, <1>10, <1>11 DEF Inv

(* The lowering of a print op.                                             *)
LEMMA PrintStep == Inv /\ LowerPrint => Inv'
<1> SUFFICES ASSUME Inv, LowerPrint PROVE Inv'
  OBVIOUS
<1>1. /\ phase = "print" /\ pos' = pos + 1
      /\ UNCHANGED <<prog, cut, phase, names, infos, mapping>>
  BY DEF LowerPrint
<1>2. PICK g \in FormatNames :
        table' = table \cup {Symbol(g, "global", pos + 1, NoType)} \cup PrintfDeclaration
  BY DEF LowerPrint
<1>3. g.base = "frmt_spec" /\ g.part = "" /\ \A s \in table : s.name # g
  <2>1. CASE Name("frmt_spec", "", -1) \notin NamesOf(table)
    <3>1. g = Name("frmt_spec", "", -1)
      BY <2>1 DEF FormatNames
    <3>2. \A s \in table : s.name # g
      BY <2>1, <3>1 DEF NamesOf
    <3>3. \A n : Name("frmt_spec", "", n).base = "frmt_spec" /\ Name("frmt_spec", "", n).part = ""
      BY DEF Name
    <3> QED
      BY <3>1, <3>2, <3>3
  <2>2. CASE Name("frmt_spec", "", -1) \in NamesOf(table)
    <3>1. PICK n \in FreeNumbers("frmt_spec", "", 0, table, {}) : g = Name("frmt_spec", "", n)
      BY <2>2 DEF FormatNames
    <3> QED
      BY <3>1, FreeIsFree DEF Name
  <2> QED
    BY <2>1, <2>2
<1>4. PICK d, p : /\ d = Symbol(g, "global", pos + 1, NoType)
                  /\ p = Symbol(Printf, "llvm.func", pos + 1, NoType)
  OBVIOUS
<1>5. d.name = g /\ p.name = Printf /\ p.kind = "llvm.func"
  BY <1>4 DEF Symbol
<1>names. Printf.part = "" /\ Printf # g
  BY <1>3, PrintfFields
<1>added. /\ table \subseteq table'
       /\ \A s \in table' :
            \/ s \in table
            \/ s = d
            \/ s = p /\ \A t \in table : t.name = Printf => t.kind # "llvm.func"
  BY <1>2, <1>4 DEF PrintfDeclaration
<1>6. Progress'
  BY <1>1 DEF Inv, Progress, Size, Ops
<1>7. NamesApart' /\ NamesShape'
  BY <1>1 DEF Inv, NamesApart, NamesShape, FuncName
<1>8. \A n \in names : n.part # ""
  BY DEF Inv, NamesShape, Suffixes
<1>9. NamesReserved'
  <2> SUFFICES ASSUME NEW s \in table', s.name \in names
               PROVE s.owner \in mapping /\ \E f \in Suffixes : s.name = FuncName(s.owner, f)
    BY <1>1 DEF NamesReserved, FuncName
  <2>1. s.name.part # ""
    BY <1>8
  <2>2. s \in table
    BY <1>3, <1>5, <1>names, <1>added, <2>1
  <2> QED
    BY <2>2 DEF Inv, NamesReserved
<1>10. PrintfOfUser'
  BY <1>5, <1>names, <1>added DEF Inv, PrintfOfUser
<1>11. SymbolsUnique'
  <2> SUFFICES ASSUME NEW s \in table', NEW t \in table', s.name = t.name, s # t
               PROVE s.name = Printf /\ \E u \in {s, t} : u.owner = 0 /\ u.kind # "llvm.func"
    BY DEF SymbolsUnique
  <2>1. CASE s \in table /\ t \in table
    BY <2>1 DEF Inv, SymbolsUnique
  <2>2. s # d /\ t # d
    BY <1>3, <1>5, <1>names, <1>added
  <2>3. CASE s = p /\ t \in table
    BY <1>5, <1>added, <2>1, <2>2, <2>3 DEF Inv, PrintfOfUser
  <2>4. CASE t = p /\ s \in table
    BY <1>5, <1>added, <2>1, <2>2, <2>4 DEF Inv, PrintfOfUser
  <2> QED
    BY <1>added, <2>1, <2>2, <2>3, <2>4
<1> QED
  BY <1>6, <1>7, <1>9, <1>10, <1>11 DEF Inv

(* Every step keeps the invariant on names.                                *)
LEMMA NextInv == Inv /\ [Next]_vars => Inv'
<1> SUFFICES ASSUME Inv, [Next]_vars PROVE Inv'
  OBVIOUS
<1>0. Progress /\ Size \in Nat /\ Ops = 1 .. Size
  BY OpsNumbered DEF Inv
<1> DEFINE Still == UNCHANGED <<prog, cut, names, infos, mapping, table>>
<1>1. Still => /\ Size' = Size /\ Ops' = Ops
               /\ \A n : Seen(n)' = Seen(n)
  BY DEF Size, Ops, Seen, Place, IsIterator
<1>2. CASE SkipOp
  <2>1. Still /\ phase' = phase /\ phase = "analysis" /\ pos' = pos + 1 /\ pos < Size
    BY <1>2 DEF SkipOp
  <2>2. Seen(pos + 1) = Seen(pos)
    BY <1>0, <1>2, SeenNext DEF SkipOp
  <2>3. Progress'
    BY <1>0, <1>1, <2>1, <2>2 DEF Progress
  <2> QED
    BY <2>1, <2>3, QuietStep
<1>3. CASE AnalyseOp
  BY <1>3, AnalyseStep
<1>4. CASE AnalyseFails
  <2>1. Still /\ phase' = "assert" /\ phase = "analysis" /\ pos' = pos
    BY <1>4 DEF AnalyseFails
  <2>2. Progress'
    BY <1>0, <1>1, <2>1 DEF Progress
  <2> QED
    BY <2>1, <2>2, QuietStep
<1>5. CASE NextPhase("analysis", "convert")
  <2>1. Still /\ phase' = "convert" /\ phase = "analysis" /\ pos = Size /\ pos' = 0
    BY <1>5 DEF NextPhase
  <2>2. \A i \in Ops : Place(i) \in 1 .. Size
    BY <1>0, PlaceWalked
  <2>3. Seen(0) = {}
    BY <1>0, <2>2 DEF Seen
  <2>4. Progress'
    BY <1>0, <1>1, <2>1, <2>3 DEF Progress
  <2> QED
    BY <2>1, <2>4, QuietStep
<1>6. CASE ConvertIterator
  BY <1>6, ConvertStep
<1>7. CASE ConvertSink \/ ConvertStreamToValue
  <2>1. /\ Still /\ phase' = phase /\ phase = "convert" /\ pos' = pos + 1 /\ pos < Size
        /\ ~IsIterator(Walked(pos + 1))
    BY <1>7 DEF ConvertSink, ConvertStreamToValue, IsIterator, IteratorOps
  <2>2. Seen(pos + 1) = Seen(pos)
    BY <1>0, <2>1, SeenNext
  <2>3. Progress'
    BY <1>0, <1>1, <2>1, <2>2 DEF Progress
  <2> QED
    BY <2>1, <2>3, QuietStep
<1>8. CASE NextPhase("convert", "erase") \/ NextPhase("erase", "print")
  <2>1. Still /\ phase' \in {"erase", "print"} /\ pos' = 0
    BY <1>8 DEF NextPhase
  <2>2. Progress'
    BY <1>0, <1>1, <2>1 DEF Progress
  <2> QED
    BY <2>1, <2>2, QuietStep
<1>9. CASE EraseOp
  <2>1. Still /\ phase' = phase /\ phase = "erase" /\ pos' = pos + 1
    BY <1>9 DEF EraseOp
  <2>2. Progress'
    BY <1>0, <1>1, <2>1 DEF Progress
  <2> QED
    BY <2>1, <2>2, QuietStep
<1>10. CASE LowerPrint
  BY <1>10, PrintStep
<1>11. CASE Finish
  <2>1. Still /\ phase' = "done" /\ pos' = pos
    BY <1>11 DEF Finish
  <2>2. Progress'
    BY <1>0, <1>1, <2>1 DEF Progress
  <2> QED
    BY <2>1, <2>2, QuietStep
<1>12. CASE Stopped \/ UNCHANGED vars
  <2>1. Still /\ phase' = phase /\ pos' = pos
    BY <1>12 DEF Stopped, vars
  <2>2. Progress'
    BY <1>0, <1>1, <2>1 DEF Progress
  <2> QED
    BY <2>1, <2>2, QuietStep
<1> QED
  BY <1>2, <1>3, <1>4, <1>5, <1>6, <1>7, <1>8, <1>9, <1>10, <1>11, <1>12 DEF Next

(* Whatever the program and whatever names the module uses already, no     *)
(* function, global or declaration that the pass adds redefines a symbol   *)
(* (but for printf, see SymbolsUnique).                                    *)
THEOREM SymbolsUniqueAlways == Spec => []SymbolsUnique
<1>1. Inv => SymbolsUnique
  BY DEF Inv
<1> QED
  BY <1>1, InitInv, NextInv, PTL DEF Spec

(* The only step into the assertion is a missing info of an upstream.      *)
LEMMA InOrderStep == Inv /\ InOrder /\ [Next]_vars /\ phase # "assert" => phase' # "assert"
<1> SUFFICES ASSUME Inv, InOrder, [Next]_vars, phase # "assert", phase' = "assert"
             PROVE FALSE
  OBVIOUS
<1>1. AnalyseFails
  BY DEF Next, vars, SkipOp, AnalyseOp, NextPhase, ConvertIterator, ConvertSink,
         ConvertStreamToValue, EraseOp, LowerPrint, Finish, Stopped
<1>2. PICK i : i = Walked(pos + 1)
  OBVIOUS
<1>3. /\ Progress /\ Size \in Nat /\ Ops = 1 .. Size /\ pos \in Nat /\ pos < Size
      /\ DOMAIN infos = Seen(pos) /\ ~Analysed(i)
  BY <1>1, <1>2, OpsNumbered DEF Inv, Progress, AnalyseFails
<1>4. i \in Ops /\ Place(i) = pos + 1
  <2>1. pos + 1 \in 1 .. Size
    BY <1>3
  <2> QED
    BY <1>2, <1>3, <2>1, WalkedPlace
<1>5. PICK k \in IteratorOperands(i) : prog[i].operands[k] \notin DOMAIN infos
  BY <1>3 DEF Analysed
<1>6. PICK u : u = prog[i].operands[k]
  OBVIOUS
<1>7. u \in Ops /\ IsIterator(u)
  <2>1. prog \in Programs /\ i \in DOMAIN prog
    BY <1>3, <1>4 DEF Progress, Ops
  <2>2. k \in DOMAIN prog[i].operands /\ u # 0 /\ IsIterator(u)
    BY <1>5, <1>6 DEF IteratorOperands
  <2>3. u \in 0 .. i - 1
    BY <1>6, <2>1, <2>2, ProgramsAssumption
  <2> QED
    BY <1>3, <1>4, <2>2, <2>3
<1>8. Place(u) < pos + 1
  BY <1>4, <1>5, <1>6 DEF InOrder
<1>9. Place(u) \in 1 .. Size
  BY <1>3, <1>7, PlaceWalked
<1>10. u \in Seen(pos)
  BY <1>3, <1>7, <1>8, <1>9 DEF Seen
<1> QED
  BY <1>3, <1>5, <1>6, <1>10

(* Whether the text is in order does not change.                           *)
LEMMA OrderKept == Inv /\ [Next]_vars => (InOrder' <=> InOrder)
<1> SUFFICES ASSUME [Next]_vars PROVE InOrder' <=> InOrder
  OBVIOUS
<1>1. UNCHANGED <<prog, cut>>
  BY DEF Next, vars, SkipOp, AnalyseOp, AnalyseFails, NextPhase, ConvertIterator, ConvertSink,
         ConvertStreamToValue, EraseOp, LowerPrint, Finish, Stopped
<1> QED
  BY <1>1 DEF InOrder, Place, IteratorOperands, IsIterator, Ops, Size

(* With every iterator after its upstreams in the text, the analysis finds *)
(* the info of each upstream it asks for, however the program branches.    *)
THEOREM InOrderIsAnalysedAlways == Spec => []InOrderIsAnalysed
<1>1. Init => InOrderIsAnalysed
  BY DEF Init, InOrderIsAnalysed
<1>2. Inv /\ InOrderIsAnalysed /\ [Next]_vars => InOrderIsAnalysed'
  BY InOrderStep, OrderKept DEF InOrderIsAnalysed
<1> QED
  BY <1>1, <1>2, InitInv, NextInv, PTL DEF Spec

-----------------------------------------------------------------------------
(***************************************************************************)
(* What the generated code calls and uses.  After the conversion every     *)
(* iterator has its functions, the state of an op has the states of its    *)
(* upstreams in it, and a call passes the state of the op it calls.        *)
(***************************************************************************)
Complete ==
  phase \in {"erase", "print", "done"} => DOMAIN infos = Seen(Size) /\ mapping = Seen(Size)
StatesNested ==
  \A i \in DOMAIN infos : \A k \in IteratorOperands(i) :
    /\ prog[i].operands[k] \in DOMAIN infos
    /\ infos[i].stateType.nested[k] = infos[prog[i].operands[k]].stateType
FunctionsBuilt == \A i \in mapping : OpenNextClose(i) \subseteq table
TypedCall(c) ==
  \E u \in DOMAIN infos : \E f \in Suffixes :
    c.callee = FuncName(u, f) /\ c.state = infos[u].stateType
CallsTyped == InOrder => \A c \in calls : TypedCall(c)

\* The operands are replaced by the values of streams only, and only once the
\* op that makes the value is converted.
OperandIs(i, k) ==
  LET u == prog[i].operands[k] IN
  operands[i][k] = Old(u) \/ (operands[i][k] = New(u) /\ u # 0 /\ ~IsIterator(u))
OperandsAre ==
  /\ DOMAIN operands = Ops
  /\ \A i \in Ops : /\ DOMAIN operands[i] = DOMAIN prog[i].operands
                    /\ \A k \in DOMAIN operands[i] : OperandIs(i, k)
Replacing(j) ==
  /\ prog[j].name = "stream_to_value"
  /\ phase \in {"convert", "erase", "print", "done"}
  /\ phase = "convert" => Place(j) <= pos
Unused(j) ==
  \A i \in Ops : /\ \A k \in DOMAIN operands[i] : operands[i][k] # Old(j)
                 /\ \A k \in DOMAIN created[i] : created[i][k] # Old(j)
UsesReplaced == DOMAIN created = Ops /\ \A j \in Ops : Replacing(j) => Unused(j)
ValuesOnly(uses) ==
  \A k \in DOMAIN uses : \A j \in Ops : uses[k] = Old(j) => prog[j].name = "stream_to_value"
CreatedUses == InOrder => \A i \in Ops : ValuesOnly(created[i])
ErasedAre ==
  /\ phase \in {"analysis", "convert", "assert"} => erased = {}
  /\ phase = "erase" => pos <= Size /\ erased = {i \in Ops : Place(i) > Size - pos}
  /\ phase \in {"print", "done"} => erased = Ops

CodeInv == /\ Complete /\ StatesNested /\ FunctionsBuilt /\ CallsTyped
           /\ OperandsAre /\ UsesReplaced /\ CreatedUses /\ ErasedAre

(* Old and converted values, told apart.                                   *)
LEMMA ValuesApart ==
  \A i, j : /\ Old(i) # New(j) /\ (Old(i) = Old(j) => i = j)
            /\ New(i).new /\ Old(i).of = i
BY DEF Old, New

(* What an op uses comes before it, and is no sink.                        *)
LEMMA OperandsBefore ==
  ASSUME Progress, NEW i \in Ops, NEW k \in DOMAIN prog[i].operands, prog[i].operands[k] # 0
  PROVE  prog[i].operands[k] \in Ops /\ prog[prog[i].operands[k]].name # "sink"
<1>1. Size \in Nat /\ Ops = 1 .. Size /\ prog \in Programs /\ i \in DOMAIN prog
  BY OpsNumbered DEF Progress, Ops
<1>2. prog[i].operands[k] \in 0 .. i - 1 /\ prog[prog[i].operands[k]].name # "sink"
  BY <1>1, ProgramsAssumption
<1> QED
  BY <1>1, <1>2

(* An op is an iterator, a sink or a stream_to_value.                      *)
LEMMA NamesAre ==
  ASSUME Progress, NEW i \in Ops
  PROVE  prog[i].name \in IteratorOps \cup Consumers
BY ProgramsAssumption DEF Progress, Ops

(* There is no code before the conversion.                                 *)
LEMMA InitCode ==
  ASSUME Init
  PROVE  CodeInv
<1>1. /\ phase = "analysis" /\ infos = << >> /\ mapping = {} /\ calls = {} /\ erased = {}
      /\ created = [i \in Ops |-> << >>]
      /\ operands = [i \in Ops |-> [k \in DOMAIN prog[i].operands |-> Old(prog[i].operands[k])]]
  BY DEF Init
<1>2. Complete /\ StatesNested /\ FunctionsBuilt /\ CallsTyped /\ ErasedAre
  BY <1>1 DEF Complete, StatesNested, FunctionsBuilt, CallsTyped, ErasedAre
<1>3. OperandsAre
  BY <1>1 DEF OperandsAre, OperandIs
<1>4. UsesReplaced /\ CreatedUses
  <2>1. DOMAIN created = Ops /\ \A i \in Ops : DOMAIN created[i] = {}
    BY <1>1
  <2> QED
    BY <1>1, <2>1 DEF UsesReplaced, Replacing, CreatedUses, ValuesOnly
<1> QED
  BY <1>2, <1>3, <1>4 DEF CodeInv

(* The program and where it is written do not change.                      *)
LEMMA TextKept ==
  ASSUME UNCHANGED <<prog, cut>>
  PROVE  /\ Ops' = Ops /\ Size' = Size /\ InOrder' = InOrder
         /\ \A n : Seen(n)' = Seen(n)
         /\ \A i : Place(i)' = Place(i) /\ IsIterator(i)' = IsIterator(i)
         /\ \A i : IteratorOperands(i)' = IteratorOperands(i)
BY DEF Ops, Size, InOrder, Seen, Place, IsIterator, IteratorOperands

(* The steps that generate no code.                                        *)
LEMMA NoCode ==
  ASSUME CodeInv, UNCHANGED <<prog, cut, infos, mapping, operands, created, calls>>,
         table \subseteq table', Complete', ErasedAre',
         \A j \in Ops : Replacing(j)' => Replacing(j)
  PROVE  CodeInv'
<1>1. /\ Ops' = Ops /\ InOrder' = InOrder
      /\ \A i : IsIterator(i)' = IsIterator(i) /\ IteratorOperands(i)' = IteratorOperands(i)
  BY TextKept
<1>2. StatesNested'
  BY <1>1 DEF CodeInv, StatesNested
<1>3. FunctionsBuilt'
  BY DEF CodeInv, FunctionsBuilt, OpenNextClose, FuncName
<1>4. CallsTyped'
  BY <1>1 DEF CodeInv, CallsTyped, TypedCall, FuncName
<1>5. OperandsAre'
  BY <1>1 DEF CodeInv, OperandsAre, OperandIs
<1>6. UsesReplaced'
  BY <1>1 DEF CodeInv, UsesReplaced, Unused
<1>7. CreatedUses'
  BY <1>1 DEF CodeInv, CreatedUses, ValuesOnly
<1> QED
  BY <1>2, <1>3, <1>4, <1>5, <1>6, <1>7 DEF CodeInv

(* The analysis puts the states of the upstreams in the op's own state.    *)
LEMMA AnalyseCode ==
  ASSUME Inv, CodeInv, AnalyseOp
  PROVE  CodeInv'
<1>0. PICK i : i = Walked(pos + 1)
  OBVIOUS
<1>1. /\ phase = "analysis" /\ pos < Size /\ Analysed(i)
      /\ UNCHANGED <<prog, cut, phase, mapping, operands, created, calls, table, erased>>
  BY <1>0 DEF AnalyseOp
<1>2. PICK number : infos' = [j \in DOMAIN infos \cup {i} |->
                       IF j = i THEN [number |-> number, stateType |-> StateType(i)] ELSE infos[j]]
  BY <1>0, Zenon DEF AnalyseOp
<1>3. Progress /\ DOMAIN infos = Seen(pos) /\ mapping = {} /\ i \notin Seen(pos)
  BY <1>0, <1>1, SeenNext DEF Inv, Progress
<1>4. /\ DOMAIN infos' = DOMAIN infos \cup {i} /\ infos'[i].stateType = StateType(i)
      /\ \A j \in DOMAIN infos : infos'[j] = infos[j]
  BY <1>2, <1>3
<1>5. /\ Ops' = Ops /\ InOrder' = InOrder
      /\ \A j : IsIterator(j)' = IsIterator(j) /\ IteratorOperands(j)' = IteratorOperands(j)
  BY <1>1, TextKept
<1>6. StatesNested'
  <2>1. ASSUME NEW j \in DOMAIN infos, NEW k \in IteratorOperands(j)
        PROVE  /\ prog[j].operands[k] \in DOMAIN infos'
               /\ infos'[j].stateType.nested[k] = infos'[prog[j].operands[k]].stateType
    BY <1>4 DEF CodeInv, StatesNested
  <2>2. ASSUME NEW k \in IteratorOperands(i)
        PROVE  /\ prog[i].operands[k] \in DOMAIN infos'
               /\ infos'[i].stateType.nested[k] = infos'[prog[i].operands[k]].stateType
    <3>1. prog[i].operands[k] \in DOMAIN infos
      BY <1>1 DEF Analysed
    <3>2. StateType(i).nested[k] = infos[prog[i].operands[k]].stateType
      BY DEF StateType
    <3> QED
      BY <3>1, <3>2, <1>4
  <2> QED
    BY <2>1, <2>2, <1>1, <1>4, <1>5 DEF StatesNested
<1>7. CallsTyped'
  <2>1. ASSUME NEW u \in DOMAIN infos, NEW f
        PROVE  FuncName(u, f)' = FuncName(u, f)
    BY <1>1, <1>4 DEF FuncName
  <2> QED
    BY <2>1, <1>1, <1>4, <1>5 DEF CodeInv, CallsTyped, TypedCall
<1>8. Complete' /\ FunctionsBuilt' /\ ErasedAre'
  BY <1>1, <1>3 DEF CodeInv, Complete, FunctionsBuilt, ErasedAre
<1>9. OperandsAre'
  BY <1>1, <1>5 DEF CodeInv, OperandsAre, OperandIs
<1>10. UsesReplaced'
  BY <1>1, <1>5 DEF CodeInv, UsesReplaced, Replacing
<1>11. CreatedUses'
  BY <1>1, <1>5 DEF CodeInv, CreatedUses, ValuesOnly
<1> QED
  BY <1>6, <1>7, <1>8, <1>9, <1>10, <1>11 DEF CodeInv

(* The op that is converted: its upstreams in order have been converted.   *)
LEMMA Converting ==
  ASSUME Inv, CodeInv, phase = "convert", pos < Size, NEW i, i = Walked(pos + 1)
  PROVE  /\ i \in Ops /\ Place(i) = pos + 1 /\ DOMAIN infos = Seen(Size) /\ mapping = Seen(pos)
         /\ \A j \in Ops : Place(j) <= pos + 1 <=> Place(j) <= pos \/ j = i
         /\ \A k \in IteratorOperands(i) :
              /\ prog[i].operands[k] \in DOMAIN infos
              /\ InOrder => prog[i].operands[k] \in mapping
<1>1. /\ Progress /\ Size \in Nat /\ Ops = 1 .. Size /\ pos \in Nat
      /\ DOMAIN infos = Seen(Size) /\ mapping = Seen(pos)
  BY OpsNumbered DEF Inv, Progress
<1>2. i \in Ops /\ Place(i) = pos + 1
  <2>1. pos + 1 \in 1 .. Size
    BY <1>1
  <2> QED
    BY <1>1, <2>1, WalkedPlace
<1>3. \A j \in Ops : Place(j) \in 1 .. Size
  BY <1>1, PlaceWalked
<1>4. ASSUME NEW j \in Ops
      PROVE  Place(j) <= pos + 1 <=> Place(j) <= pos \/ j = i
  <2>1. Place(j) = pos + 1 => j = i
    BY <1>1, PlaceWalked
  <2>2. PICK p \in 1 .. Size : p = Place(j)
    BY <1>3
  <2> QED
    BY <1>1, <1>2, <2>1, <2>2
<1>5. ASSUME NEW k \in IteratorOperands(i)
      PROVE  /\ prog[i].operands[k] \in DOMAIN infos
             /\ InOrder => prog[i].operands[k] \in mapping
  <2>1. PICK u : u = prog[i].operands[k]
    OBVIOUS
  <2>2. u \in Ops /\ IsIterator(u)
    BY <2>1, <1>1, <1>2, OperandsBefore DEF IteratorOperands
  <2>3. PICK p \in 1 .. Size : p = Place(u)
    BY <2>2, <1>3
  <2>4. u \in Seen(Size)
    BY <1>1, <2>2, <2>3 DEF Seen
  <2>5. InOrder => Place(u) < Place(i)
    BY <1>2, <2>1 DEF InOrder
  <2>6. InOrder => u \in Seen(pos)
    BY <1>1, <1>2, <2>2, <2>3, <2>5 DEF Seen
  <2> QED
    BY <1>1, <2>1, <2>4, <2>6
<1> QED
  BY <1>1, <1>2, <1>4, <1>5

(* What the op is converted to uses the states of its upstreams and values *)
(* that are still to be replaced.                                          *)
LEMMA MappedUses ==
  ASSUME Inv, CodeInv, phase = "convert", pos < Size, NEW i, i = Walked(pos + 1)
  PROVE  /\ InOrder => ValuesOnly(MappedOperands(i))
         /\ \A j \in Ops : Replacing(j) => \A k \in DOMAIN MappedOperands(i) : MappedOperands(i)[k] # Old(j)
         /\ \A k \in IteratorOperands(i) : InOrder => MappedOperands(i)[k].new
<1> DEFINE M == MappedOperands(i)
<1>1. i \in Ops /\ Progress /\ OperandsAre
  BY Converting DEF Inv, CodeInv
<1>2. DOMAIN M = DOMAIN prog[i].operands /\ DOMAIN operands[i] = DOMAIN prog[i].operands
  BY <1>1 DEF MappedOperands, OperandsAre
<1>3. ASSUME NEW k \in DOMAIN M
      PROVE  /\ operands[i][k] \in {Old(j) : j \in mapping} => M[k] = New(operands[i][k].of)
             /\ operands[i][k] \notin {Old(j) : j \in mapping} => M[k] = operands[i][k]
  BY <1>2 DEF MappedOperands
<1> HIDE DEF M
<1>4. ASSUME NEW k \in DOMAIN M, NEW j, M[k] = Old(j)
      PROVE  operands[i][k] = Old(j) /\ j = prog[i].operands[k] /\ j \notin mapping
  <2>1. operands[i][k] \notin {Old(x) : x \in mapping} /\ operands[i][k] = Old(j)
    BY <1>3, <1>4, ValuesApart
  <2>2. OperandIs(i, k)
    BY <1>1, <1>2 DEF OperandsAre
  <2>3. j = prog[i].operands[k]
    BY <2>1, <2>2, ValuesApart DEF OperandIs
  <2> QED
    BY <2>1, <2>3
<1>5. ASSUME InOrder, NEW k \in DOMAIN M, NEW j \in Ops, M[k] = Old(j)
      PROVE  prog[j].name = "stream_to_value"
  <2>1. operands[i][k] = Old(j) /\ j = prog[i].operands[k] /\ j \notin mapping
    BY <1>4, <1>5
  <2>2. j # 0
    <3>1. Ops = 1 .. Size /\ Size \in Nat
      BY <1>1, OpsNumbered
    <3> QED
      BY <3>1
  <2>3. prog[j].name # "sink"
    BY <1>1, <1>2, <2>1, <2>2, OperandsBefore
  <2>4. ~IsIterator(j)
    <3>1. IsIterator(j) => k \in IteratorOperands(i)
      BY <1>2, <2>1, <2>2 DEF IteratorOperands
    <3> QED
      BY <1>5, <2>1, <3>1, Converting
  <2>5. prog[j].name \in IteratorOps \cup Consumers
    BY <1>1, NamesAre
  <2> QED
    BY <2>3, <2>4, <2>5 DEF IsIterator, Consumers
<1>6. ASSUME NEW j \in Ops, Replacing(j), NEW k \in DOMAIN M
      PROVE  M[k] # Old(j)
  <2>1. Unused(j)
    BY <1>6 DEF CodeInv, UsesReplaced
  <2>2. operands[i][k] # Old(j)
    BY <1>1, <1>2, <2>1 DEF Unused
  <2> QED
    BY <1>4, <2>2
<1>7. ASSUME InOrder, NEW k \in IteratorOperands(i)
      PROVE  M[k].new
  <2>1. k \in DOMAIN M /\ IsIterator(prog[i].operands[k]) /\ prog[i].operands[k] \in mapping
    BY <1>2, <1>7, Converting DEF IteratorOperands
  <2>2. operands[i][k] = Old(prog[i].operands[k])
    BY <1>1, <1>2, <2>1 DEF OperandsAre, OperandIs
  <2> QED
    BY <1>3, <2>1, <2>2, ValuesApart
<1> QED
  BY <1>5, <1>6, <1>7 DEF M, ValuesOnly

(* The calls of an op's upstreams pass the states that those have.         *)
LEMMA UpstreamsTyped ==
  ASSUME Inv, CodeInv, phase = "convert", pos < Size, NEW i, i = Walked(pos + 1), InOrder,
         NEW c \in UpstreamCalls(i)
  PROVE  TypedCall(c)
<1>1. PICK k \in IteratorOperands(i), f \in Suffixes :
        c = [callee |-> FuncName(prog[i].operands[k], f),
             state |-> CASE IsIterator(i) -> infos[i].stateType.nested[k]
                         [] MappedOperands(i)[k].new -> infos[prog[i].operands[k]].stateType
                         [] OTHER -> NoType]
  BY DEF UpstreamCalls
<1>2. PICK u : u = prog[i].operands[k]
  OBVIOUS
<1>3. u \in DOMAIN infos /\ MappedOperands(i)[k].new
  BY <1>2, Converting, MappedUses
<1>4. IsIterator(i) => infos[i].stateType.nested[k] = infos[u].stateType
  <2>1. IsIterator(i) => i \in DOMAIN infos
    <3>1. i \in Ops /\ DOMAIN infos = Seen(Size) /\ Progress
      BY Converting DEF Inv
    <3>2. PICK p \in 1 .. Size : p = Place(i)
      BY <3>1, PlaceWalked
    <3>3. Size \in Nat
      BY <3>1, OpsNumbered
    <3> QED
      BY <3>1, <3>2, <3>3 DEF Seen
  <2> QED
    BY <2>1, <1>2 DEF CodeInv, StatesNested
<1>5. c.callee = FuncName(u, f) /\ c.state = infos[u].stateType
  <2>1. CASE IsIterator(i)
    BY <2>1, <1>1, <1>2, <1>4
  <2>2. CASE ~IsIterator(i)
    BY <2>2, <1>1, <1>2, <1>3
  <2> QED
    BY <2>1, <2>2
<1> QED
  BY <1>3, <1>5 DEF TypedCall

(* What the three conversions have in common.                              *)
LEMMA ConvertCode ==
  ASSUME Inv, CodeInv, phase = "convert", pos < Size, NEW i, i = Walked(pos + 1),
         UNCHANGED <<prog, cut, phase, infos, erased>>, calls' = calls \cup UpstreamCalls(i)
  PROVE  Complete' /\ StatesNested' /\ CallsTyped' /\ ErasedAre'
<1>1. /\ Ops' = Ops /\ InOrder' = InOrder
      /\ \A j : IteratorOperands(j)' = IteratorOperands(j)
  BY TextKept
<1>2. StatesNested'
  BY <1>1 DEF CodeInv, StatesNested
<1>3. CallsTyped'
  <2>1. ASSUME InOrder, NEW c \in calls'
        PROVE  TypedCall(c)
    <3>1. c \in calls => TypedCall(c)
      BY <2>1 DEF CodeInv, CallsTyped
    <3>2. c \in UpstreamCalls(i) => TypedCall(c)
      BY <2>1, UpstreamsTyped
    <3> QED
      BY <3>1, <3>2
  <2>2. ASSUME NEW c
        PROVE  TypedCall(c)' <=> TypedCall(c)
    BY DEF TypedCall, FuncName
  <2> QED
    BY <1>1, <2>1, <2>2 DEF CallsTyped
<1>4. Complete' /\ ErasedAre'
  BY DEF CodeInv, Complete, ErasedAre
<1> QED
  BY <1>2, <1>3, <1>4

(* An iterator or a sink: nothing is replaced.                             *)
LEMMA ConvertUses ==
  ASSUME Inv, CodeInv, phase = "convert", pos < Size, NEW i, i = Walked(pos + 1),
         prog[i].name # "stream_to_value",
         UNCHANGED <<prog, cut, phase, operands>>, pos' = pos + 1,
         created' = [created EXCEPT ![i] = MappedOperands(i)]
  PROVE  OperandsAre' /\ UsesReplaced' /\ CreatedUses'
<1>1. /\ Ops' = Ops /\ InOrder' = InOrder
      /\ \A j : Place(j)' = Place(j) /\ IsIterator(j)' = IsIterator(j)
  BY TextKept
<1>2. i \in Ops /\ DOMAIN created = Ops /\ \A j \in Ops : Place(j) <= pos + 1 <=> Place(j) <= pos \/ j = i
  BY Converting DEF CodeInv, UsesReplaced
<1>3. OperandsAre'
  BY <1>1 DEF CodeInv, OperandsAre, OperandIs
<1>4. /\ DOMAIN created' = Ops /\ created'[i] = MappedOperands(i)
      /\ \A j \in Ops : j # i => created'[j] = created[j]
  BY <1>2
<1>5. CreatedUses'
  <2>1. ASSUME InOrder, NEW j \in Ops
        PROVE  ValuesOnly(created'[j])
    <3>1. CASE j = i
      BY <2>1, <3>1, <1>4, MappedUses
    <3>2. CASE j # i
      BY <2>1, <3>2, <1>4 DEF CodeInv, CreatedUses
    <3> QED
      BY <3>1, <3>2
  <2>2. ASSUME NEW uses
        PROVE  ValuesOnly(uses)' <=> ValuesOnly(uses)
    BY <1>1 DEF ValuesOnly
  <2> QED
    BY <1>1, <2>1 DEF CreatedUses, ValuesOnly
<1>6. UsesReplaced'
  <2>1. ASSUME NEW j \in Ops, Replacing(j)'
        PROVE  Unused(j)'
    <3>1. Replacing(j)
      <4>1. prog[j].name = "stream_to_value" /\ Place(j) <= pos + 1
        BY <2>1, <1>1 DEF Replacing
      <4>2. Place(j) <= pos
        BY <4>1, <1>2
      <4> QED
        BY <4>1, <4>2 DEF Replacing
    <3>2. Unused(j)
      BY <3>1 DEF CodeInv, UsesReplaced
    <3>3. \A k \in DOMAIN MappedOperands(i) : MappedOperands(i)[k] # Old(j)
      BY <3>1, MappedUses
    <3>4. ASSUME NEW h \in Ops, NEW k \in DOMAIN created'[h]
          PROVE  created'[h][k] # Old(j)
      <4>1. CASE h = i
        BY <3>3, <4>1, <1>4
      <4>2. CASE h # i
        BY <3>2, <4>2, <1>4 DEF Unused
      <4> QED
        BY <4>1, <4>2
    <3> QED
      BY <3>2, <3>4, <1>1 DEF Unused
  <2> QED
    BY <2>1, <1>1, <1>4 DEF UsesReplaced
<1> QED
  BY <1>3, <1>5, <1>6

(* A value of a stream: its uses are replaced, in the ops and in the code. *)
LEMMA ConvertValue ==
  ASSUME Inv, CodeInv, ConvertStreamToValue
  PROVE  OperandsAre' /\ UsesReplaced' /\ CreatedUses'
<1>0. PICK i : i = Walked(pos + 1)
  OBVIOUS
<1>1. /\ phase = "convert" /\ pos < Size /\ prog[i].name = "stream_to_value"
      /\ created' = Replaced([created EXCEPT ![i] = MappedOperands(i)], i)
      /\ operands' = Replaced(operands, i)
      /\ UNCHANGED <<prog, cut, phase>> /\ pos' = pos + 1
  BY <1>0 DEF ConvertStreamToValue
<1>2. /\ Ops' = Ops /\ InOrder' = InOrder
      /\ \A j : Place(j)' = Place(j) /\ IsIterator(j)' = IsIterator(j)
  BY <1>1, TextKept
<1>3. i \in Ops /\ DOMAIN created = Ops /\ \A j \in Ops : Place(j) <= pos + 1 <=> Place(j) <= pos \/ j = i
  BY <1>0, <1>1, Converting DEF CodeInv, UsesReplaced
<1> DEFINE C == [created EXCEPT ![i] = MappedOperands(i)]
<1>4. DOMAIN C = Ops /\ C[i] = MappedOperands(i) /\ \A j \in Ops : j # i => C[j] = created[j]
  BY <1>3
<1> HIDE DEF C
<1>5. ASSUME NEW used, NEW h \in DOMAIN used
      PROVE  /\ DOMAIN Replaced(used, i) = DOMAIN used
             /\ DOMAIN Replaced(used, i)[h] = DOMAIN used[h]
             /\ \A k \in DOMAIN used[h] :
                  Replaced(used, i)[h][k] = IF used[h][k] = Old(i) THEN New(i) ELSE used[h][k]
  BY DEF Replaced
<1>6. /\ DOMAIN created' = Ops
      /\ \A h \in Ops : /\ DOMAIN created'[h] = DOMAIN C[h]
                        /\ \A k \in DOMAIN C[h] : created'[h][k] = IF C[h][k] = Old(i) THEN New(i) ELSE C[h][k]
  <2>1. created' = Replaced(C, i)
    BY <1>1 DEF C
  <2>2. DOMAIN Replaced(C, i) = DOMAIN C
    BY DEF Replaced
  <2> QED
    BY <1>4, <1>5, <2>1, <2>2
<1>7. /\ DOMAIN operands = Ops /\ DOMAIN operands' = Ops
      /\ \A h \in Ops : /\ DOMAIN operands'[h] = DOMAIN operands[h]
                        /\ \A k \in DOMAIN operands[h] :
                             operands'[h][k] = IF operands[h][k] = Old(i) THEN New(i) ELSE operands[h][k]
  <2>1. DOMAIN operands = Ops
    BY DEF CodeInv, OperandsAre
  <2>2. DOMAIN Replaced(operands, i) = DOMAIN operands
    BY DEF Replaced
  <2> QED
    BY <1>1, <1>5, <2>1, <2>2
<1>8. i # 0 /\ ~IsIterator(i)
  <2>1. Ops = 1 .. Size /\ Size \in Nat
    BY OpsNumbered DEF Inv
  <2> QED
    BY <1>1, <1>3, <2>1 DEF IsIterator, IteratorOps
<1>9. OperandsAre'
  <2>1. ASSUME NEW h \in Ops, NEW k \in DOMAIN operands[h]
        PROVE  OperandIs(h, k)'
    <3>1. OperandIs(h, k)
      BY DEF CodeInv, OperandsAre
    <3>2. CASE operands[h][k] # Old(i)
      <4>1. operands'[h][k] = operands[h][k]
        BY <3>2, <1>7
      <4> QED
        BY <3>1, <4>1, <1>1, <1>2 DEF OperandIs, Old, New
    <3>3. CASE operands[h][k] = Old(i)
      <4>1. operands'[h][k] = New(i)
        BY <3>3, <1>7
      <4>2. prog[h].operands[k] = i
        BY <3>1, <3>3, ValuesApart DEF OperandIs
      <4> QED
        BY <4>1, <4>2, <1>1, <1>2, <1>8 DEF OperandIs, New
    <3> QED
      BY <3>2, <3>3
  <2>2. \A h \in Ops : DOMAIN operands[h] = DOMAIN prog[h].operands
    BY DEF CodeInv, OperandsAre
  <2> QED
    BY <2>1, <2>2, <1>1, <1>2, <1>7 DEF OperandsAre
<1>10. CreatedUses'
  <2>1. ASSUME InOrder, NEW h \in Ops, NEW k \in DOMAIN created'[h], NEW j \in Ops, created'[h][k] = Old(j)
        PROVE  prog[j].name = "stream_to_value"
    <3>1. C[h][k] = Old(j) /\ k \in DOMAIN C[h]
      BY <2>1, <1>6, ValuesApart
    <3>2. CASE h = i
      BY <2>1, <3>1, <3>2, <1>0, <1>1, <1>4, MappedUses DEF ValuesOnly
    <3>3. CASE h # i
      BY <2>1, <3>1, <3>3, <1>4 DEF CodeInv, CreatedUses, ValuesOnly
    <3> QED
      BY <3>2, <3>3
  <2> QED
    BY <2>1, <1>1, <1>2 DEF CreatedUses, ValuesOnly, Old
<1>11. UsesReplaced'
  <2>1. ASSUME NEW j \in Ops, Replacing(j)', NEW h \in Ops
        PROVE  /\ \A k \in DOMAIN operands'[h] : operands'[h][k] # Old(j)
               /\ \A k \in DOMAIN created'[h] : created'[h][k] # Old(j)
    <3>1. CASE j = i
      BY <3>1, <1>6, <1>7, ValuesApart
    <3>2. CASE j # i
      <4>1. Replacing(j)
        <5>1. prog[j].name = "stream_to_value" /\ Place(j) <= pos + 1
          BY <2>1, <1>1, <1>2 DEF Replacing
        <5>2. Place(j) <= pos
          BY <3>2, <5>1, <1>3
        <5> QED
          BY <5>1, <5>2, <1>1 DEF Replacing
      <4>2. Unused(j)
        BY <4>1 DEF CodeInv, UsesReplaced
      <4>3. \A k \in DOMAIN MappedOperands(i) : MappedOperands(i)[k] # Old(j)
        BY <4>1, <1>0, <1>1, MappedUses
      <4>4. \A k \in DOMAIN C[h] : C[h][k] # Old(j)
        BY <4>2, <4>3, <1>4 DEF Unused
      <4>5. \A k \in DOMAIN operands[h] : operands[h][k] # Old(j)
        BY <4>2 DEF Unused
      <4> QED
        BY <4>4, <4>5, <1>6, <1>7, ValuesApart
    <3> QED
      BY <3>1, <3>2
  <2> QED
    BY <2>1, <1>2, <1>6 DEF UsesReplaced, Unused, Old
<1> QED
  BY <1>9, <1>10, <1>11

(* Every step keeps the invariant.                                         *)
LEMMA NextCode ==
  ASSUME Inv, CodeInv, [Next]_vars
  PROVE  CodeInv'
<1>0. Progress /\ Size \in Nat /\ Ops = 1 .. Size /\ \A j \in Ops : Place(j) \in 1 .. Size
  BY OpsNumbered, PlaceWalked DEF Inv
<1> DEFINE Still == /\ UNCHANGED <<prog, cut, infos, mapping, operands, created, calls>>
                    /\ table \subseteq table'
<1>1. Still => /\ Size' = Size /\ Ops' = Ops
               /\ \A n : Seen(n)' = Seen(n)
               /\ \A j : Place(j)' = Place(j)
  BY TextKept
<1>2. CASE SkipOp
  <2>1. Still /\ phase' = "analysis" /\ phase = "analysis" /\ erased' = erased
    BY <1>2 DEF SkipOp
  <2>2. Complete' /\ ErasedAre' /\ \A j \in Ops : ~Replacing(j)'
    BY <2>1 DEF CodeInv, Complete, ErasedAre, Replacing
  <2> QED
    BY <2>1, <2>2, NoCode
<1>3. CASE AnalyseOp
  BY <1>3, AnalyseCode
<1>4. CASE AnalyseFails
  <2>1. Still /\ phase' = "assert" /\ phase = "analysis" /\ erased' = erased
    BY <1>4 DEF AnalyseFails
  <2>2. Complete' /\ ErasedAre' /\ \A j \in Ops : ~Replacing(j)'
    BY <2>1 DEF CodeInv, Complete, ErasedAre, Replacing
  <2> QED
    BY <2>1, <2>2, NoCode
<1>5. CASE NextPhase("analysis", "convert")
  <2>1. Still /\ phase' = "convert" /\ phase = "analysis" /\ erased' = erased /\ pos' = 0
    BY <1>5 DEF NextPhase
  <2>2. \A j \in Ops : ~Replacing(j)'
    BY <1>0, <1>1, <2>1 DEF Replacing
  <2>3. Complete' /\ ErasedAre'
    BY <2>1 DEF CodeInv, Complete, ErasedAre
  <2> QED
    BY <2>1, <2>2, <2>3, NoCode
<1>6. CASE ConvertIterator
  <2>0. PICK i : i = Walked(pos + 1)
    OBVIOUS
  <2>1. /\ phase = "convert" /\ pos < Size /\ IsIterator(i) /\ pos' = pos + 1
        /\ created' = [created EXCEPT ![i] = MappedOperands(i)]
        /\ calls' = calls \cup UpstreamCalls(i) /\ mapping' = mapping \cup {i}
        /\ UNCHANGED <<prog, cut, phase, infos, operands, erased>>
    BY <1>6, <2>0 DEF ConvertIterator
  <2>2. prog[i].name # "stream_to_value"
    BY <2>1 DEF IsIterator, IteratorOps
  <2>3. Complete' /\ StatesNested' /\ CallsTyped' /\ ErasedAre'
    BY <2>0, <2>1, ConvertCode
  <2>4. OperandsAre' /\ UsesReplaced' /\ CreatedUses'
    BY <2>0, <2>1, <2>2, ConvertUses
  <2>5. table \subseteq table' /\ OpenNextClose(i) \subseteq table'
    BY <1>6, <2>0 DEF ConvertIterator
  <2>6. \A j : OpenNextClose(j)' = OpenNextClose(j)
    BY <2>1 DEF OpenNextClose, FuncName
  <2>7. FunctionsBuilt'
    BY <2>1, <2>5, <2>6 DEF CodeInv, FunctionsBuilt
  <2> QED
    BY <2>3, <2>4, <2>7 DEF CodeInv
<1>7. CASE ConvertSink
  <2>0. PICK i : i = Walked(pos + 1)
    OBVIOUS
  <2>1. /\ phase = "convert" /\ pos < Size /\ prog[i].name = "sink" /\ pos' = pos + 1
        /\ created' = [created EXCEPT ![i] = MappedOperands(i)]
        /\ calls' = calls \cup UpstreamCalls(i)
        /\ UNCHANGED <<prog, cut, phase, infos, mapping, operands, table, erased>>
    BY <1>7, <2>0 DEF ConvertSink
  <2>2. Complete' /\ StatesNested' /\ CallsTyped' /\ ErasedAre'
    BY <2>0, <2>1, ConvertCode
  <2>3. OperandsAre' /\ UsesReplaced' /\ CreatedUses'
    BY <2>0, <2>1, ConvertUses
  <2>4. FunctionsBuilt'
    BY <2>1 DEF CodeInv, FunctionsBuilt, OpenNextClose, FuncName
  <2> QED
    BY <2>2, <2>3, <2>4 DEF CodeInv
<1>8. CASE ConvertStreamToValue
  <2>0. PICK i : i = Walked(pos + 1)
    OBVIOUS
  <2>1. /\ phase = "convert" /\ pos < Size
        /\ calls' = calls \cup UpstreamCalls(i)
        /\ UNCHANGED <<prog, cut, phase, infos, mapping, table, erased>>
    BY <1>8, <2>0 DEF ConvertStreamToValue
  <2>2. Complete' /\ StatesNested' /\ CallsTyped' /\ ErasedAre'
    BY <2>0, <2>1, ConvertCode
  <2>3. OperandsAre' /\ UsesReplaced' /\ CreatedUses'
    BY <1>8, ConvertValue
  <2>4. FunctionsBuilt'
    BY <2>1 DEF CodeInv, FunctionsBuilt, OpenNextClose, FuncName
  <2> QED
    BY <2>2, <2>3, <2>4 DEF CodeInv
<1>9. CASE NextPhase("convert", "erase")
  <2>1. Still /\ phase' = "erase" /\ phase = "convert" /\ erased' = erased /\ pos' = 0 /\ pos = Size
    BY <1>9 DEF NextPhase
  <2>2. DOMAIN infos = Seen(Size) /\ mapping = Seen(Size)
    BY <1>0, <2>1 DEF Progress
  <2>3. Complete'
    BY <1>1, <2>1, <2>2 DEF Complete
  <2>4. ErasedAre'
    BY <1>0, <1>1, <2>1 DEF CodeInv, ErasedAre
  <2>5. \A j \in Ops : Replacing(j)' => Replacing(j)
    BY <1>0, <2>1 DEF Replacing
  <2> QED
    BY <2>1, <2>3, <2>4, <2>5, NoCode
<1>10. CASE NextPhase("erase", "print")
  <2>1. Still /\ phase' = "print" /\ phase = "erase" /\ erased' = erased /\ pos = Size
    BY <1>10 DEF NextPhase
  <2>2. Complete'
    BY <1>1, <2>1 DEF CodeInv, Complete
  <2>3. erased = Ops
    <3>1. erased = {j \in Ops : Place(j) > Size - Size}
      BY <2>1 DEF CodeInv, ErasedAre
    <3>2. \A n \in 1 .. Size : n > Size - Size
      BY <1>0
    <3>3. \A j \in Ops : Place(j) > Size - Size
      BY <1>0, <3>2, Zenon
    <3> QED
      BY <3>1, <3>3, Zenon
  <2>4. ErasedAre'
    BY <1>1, <2>1, <2>3 DEF ErasedAre
  <2>5. \A j \in Ops : Replacing(j)' => Replacing(j)
    BY <2>1 DEF Replacing
  <2> QED
    BY <2>1, <2>2, <2>4, <2>5, NoCode
<1>11. CASE EraseOp
  <2>1. /\ Still /\ phase' = "erase" /\ phase = "erase" /\ pos' = pos + 1 /\ pos < Size
        /\ erased' = erased \cup {Walked(Size - pos)}
    BY <1>11 DEF EraseOp
  <2>2. Complete'
    BY <1>1, <2>1 DEF CodeInv, Complete
  <2>3. pos \in Nat
    BY <1>0 DEF Progress
  <2>4. PICK e : e = Walked(Size - pos)
    OBVIOUS
  <2>5. e \in Ops /\ Place(e) = Size - pos
    <3>1. Size - pos \in 1 .. Size
      BY <1>0, <2>1, <2>3
    <3> QED
      BY <1>0, <2>4, <3>1, WalkedPlace
  <2>6. ASSUME NEW j \in Ops
        PROVE  Place(j) > Size - (pos + 1) <=> Place(j) > Size - pos \/ j = e
    <3>1. Place(j) = Size - pos => j = e
      BY <1>0, <2>4, PlaceWalked
    <3>2. \A n \in 1 .. Size : n > Size - (pos + 1) <=> n > Size - pos \/ n = Size - pos
      BY <1>0, <2>3
    <3>3. Place(j) \in 1 .. Size
      BY <1>0, <2>6, Zenon
    <3>4. Place(j) > Size - (pos + 1) <=> Place(j) > Size - pos \/ Place(j) = Size - pos
      BY <3>2, <3>3, Zenon
    <3> QED
      BY <2>5, <3>1, <3>4, Zenon
  <2>7. erased = {j \in Ops : Place(j) > Size - pos}
    BY <2>1 DEF CodeInv, ErasedAre
  <2>8. erased' = {j \in Ops : Place(j) > Size - (pos + 1)}
    <3>1. erased' = erased \cup {e}
      BY <2>1, <2>4
    <3>2. \A j : j \in erased' <=> j \in Ops /\ Place(j) > Size - (pos + 1)
      BY <2>5, <2>6, <2>7, <3>1, Zenon
    <3> QED
      BY <3>2, Zenon
  <2>9. ErasedAre'
    <3>1. pos' <= Size' /\ erased' = {j \in Ops' : Place(j)' > Size' - pos'}
      <4>1. pos + 1 <= Size
        BY <1>0, <2>1, <2>3
      <4>2. Size' = Size /\ Ops' = Ops /\ pos' = pos + 1 /\ \A j : Place(j)' = Place(j)
        BY <1>1, <2>1, Zenon
      <4>3. {j \in Ops' : Place(j)' > Size' - pos'} = {j \in Ops : Place(j) > Size - (pos + 1)}
        BY <4>2, Zenon
      <4> QED
        BY <2>8, <4>1, <4>2, <4>3, Zenon
    <3> QED
      BY <2>1, <3>1 DEF ErasedAre
  <2>10. \A j \in Ops : Replacing(j)' => Replacing(j)
    BY <2>1 DEF Replacing
  <2> QED
    BY <2>1, <2>2, <2>9, <2>10, NoCode
<1>12. CASE LowerPrint \/ Finish \/ Stopped \/ UNCHANGED vars
  <2>1. Still /\ erased' = erased
    BY <1>12 DEF LowerPrint, Finish, Stopped, vars
  <2>2. /\ phase' = phase \/ (phase = "print" /\ phase' = "done")
        /\ pos' = pos \/ phase = "print"
    BY <1>12 DEF LowerPrint, Finish, Stopped, vars
  <2>3. Complete' /\ ErasedAre'
    BY <1>1, <2>1, <2>2 DEF CodeInv, Complete, ErasedAre
  <2>4. \A j \in Ops : Replacing(j)' => Replacing(j)
    BY <1>1, <2>1, <2>2 DEF Replacing
  <2> QED
    BY <2>1, <2>3, <2>4, NoCode
<1> QED
  BY <1>2, <1>3, <1>4, <1>5, <1>6, <1>7, <1>8, <1>9, <1>10, <1>11, <1>12 DEF Next

(* The invariant holds of every conversion.                                *)
LEMMA CodeAlways == Spec => [](Inv /\ CodeInv)
BY InitInv, InitCode, NextInv, NextCode, PTL DEF Spec

(* Whatever the program, if its blocks are written in order, every call    *)
(* that the pass generates is to a function that is in the module in the   *)
(* end, under the name that the analysis picked, and that takes a state of *)
(* the type that the call passes.                                          *)
THEOREM CallsResolvedAlways == Spec => []CallsResolved
<1>1. Inv /\ CodeInv => CallsResolved
  <2> SUFFICES ASSUME Inv, CodeInv, phase = "done", InOrder, NEW c \in calls
               PROVE  \E s \in table : s.kind = "func" /\ s.name = c.callee /\ s.type = c.state
    BY DEF CallsResolved
  <2>1. PICK u \in DOMAIN infos : \E f \in Suffixes :
          c.callee = FuncName(u, f) /\ c.state = infos[u].stateType
    BY DEF CodeInv, CallsTyped, TypedCall
  <2>2. PICK f \in Suffixes : c.callee = FuncName(u, f) /\ c.state = infos[u].stateType
    BY <2>1
  <2>3. u \in mapping
    BY DEF CodeInv, Complete
  <2>4. PICK s : s = Symbol(FuncName(u, f), "func", u, infos[u].stateType)
    OBVIOUS
  <2>5. s \in table
    BY <2>3, <2>4 DEF CodeInv, FunctionsBuilt, OpenNextClose
  <2>6. s.kind = "func" /\ s.name = FuncName(u, f) /\ s.type = infos[u].stateType
    BY <2>4 DEF Symbol
  <2> QED
    BY <2>2, <2>5, <2>6
<1> QED
  BY <1>1, CodeAlways, PTL

(* When an op is erased, no op that is still there and no generated code   *)
(* uses its result: the ops go in the reverse order of the text, and the   *)
(* uses of a value were replaced when the op that made it was converted.   *)
THEOREM ErasedUnusedAlways == Spec => []ErasedUnused
<1>1. Inv /\ CodeInv => ErasedUnused
  <2> SUFFICES ASSUME Inv, CodeInv, InOrder, NEW e \in erased, NEW i \in Ops
               PROVE  /\ \A k \in DOMAIN created[i] : created[i][k] # Old(e)
                      /\ i \notin erased => \A k \in DOMAIN operands[i] : operands[i][k] # Old(e)
    BY DEF ErasedUnused
  <2>1. Progress /\ Size \in Nat /\ Ops = 1 .. Size /\ pos \in Nat /\ OperandsAre
    BY OpsNumbered DEF Inv, Progress, CodeInv
  <2>2. e \in Ops /\ phase \in {"erase", "print", "done"}
    BY <2>1 DEF CodeInv, ErasedAre, Progress
  <2>3. prog[e].name = "stream_to_value" => Unused(e)
    BY <2>2 DEF CodeInv, UsesReplaced, Replacing
  <2>4. ASSUME NEW k \in DOMAIN created[i]
        PROVE  created[i][k] # Old(e)
    BY <2>2, <2>3 DEF CodeInv, CreatedUses, ValuesOnly, Unused
  <2>5. ASSUME i \notin erased, NEW k \in DOMAIN operands[i], operands[i][k] = Old(e)
        PROVE  FALSE
    <3>1. phase = "erase" /\ Place(i) \in 1 .. Size /\ Place(e) \in 1 .. Size
      BY <2>1, <2>2, <2>5, PlaceWalked DEF CodeInv, ErasedAre
    <3>2. ~ (Place(i) > Size - pos) /\ Place(e) > Size - pos
      BY <2>2, <2>5, <3>1 DEF CodeInv, ErasedAre
    <3>3. ~ (Place(e) < Place(i))
      BY <2>1, <3>1, <3>2
    <3>4. e = prog[i].operands[k] /\ k \in DOMAIN prog[i].operands /\ e # 0
      BY <2>1, <2>2, <2>5, ValuesApart DEF OperandsAre, OperandIs
    <3>5. ~IsIterator(e)
      BY <3>3, <3>4 DEF InOrder, IteratorOperands
    <3>6. prog[e].name # "sink"
      BY <2>1, <3>4, OperandsBefore
    <3>7. prog[e].name = "stream_to_value"
      BY <2>1, <2>2, <3>5, <3>6, NamesAre DEF IsIterator, Consumers
    <3> QED
      BY <2>3, <2>5, <3>7 DEF Unused
  <2> QED
    BY <2>4, <2>5
<1> QED
  BY <1>1, CodeAlways, PTL

=============================================================================
