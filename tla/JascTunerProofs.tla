--------------------------- MODULE JascTunerProofs --------------------------
(***************************************************************************)
(* What Jasc's lowerings and its tuner guarantee for any functions, any     *)
(* budget and any times.  SafeInv is about tags and kernels: as long as a   *)
(* lowering for JAX is at work, the switch _JAX_COMPATIBLE_LOWERING is on,  *)
(* which holds only because jit and lower_to_stablehlo switch it back, also *)
(* on an exception; each frame, lowering and executable keeps its own       *)
(* kernels alive.  JascInv adds the tuner: its phases, and that the module  *)
(* of the best function is LLVM IR, so that it cannot be compiled again     *)
(* from a schedule that has since been consumed.  TagInv is about the tags  *)
(* that a schedule finds: above a frame for Jasc there are only its tag     *)
(* regions, each of which has lowered the first items of its function under *)
(* the names around it.                                                     *)
(***************************************************************************)
EXTENDS JascTuner, SequenceTheorems, FiniteSetTheorems, NaturalsInduction, WellFoundedInduction,
        TLAPS

Jitted == {"jit"} \X FuncNames \X Nat
Works == ({"jax"} \X FuncNames \X {0}) \cup Jitted
OpNames == STRING \cup {"jasc.call_kernel"}
Ops == [op : OpNames, tags : Seq(STRING), kernel : Nat]
Frames ==
  [ctx : {"jax", "tag", "jit", "stablehlo"}, items : Seq(FuncItems \cup Jitted), path : Seq(STRING),
   ops : Seq(Ops), keepalive : SUBSET Nat, of : Works \cup FuncNames]
Results == [ops : Seq(Ops), keepalive : SUBSET Nat]
Schedules == [meta : BOOLEAN, params : Seq(Int)]
Modules ==
  [of : FuncNames, cached : BOOLEAN, ops : Seq(Ops), schedules : Seq(Schedules),
   level : {"stablehlo", "linalg", "llvm"}]
Kernels == [of : FuncNames, cached : BOOLEAN, ops : Seq(Ops), params : Seq(Int)]
Tuners ==
  [none : {FALSE}, func : FuncNames, step : {"lower", "loop", "timing"},
   printed : Modules \cup {<<>>}, config : Seq(Int), previous : Seq([config : Seq(Int), time : Nat]),
   best_time : Nat, best_fun : Jitted \cup {None}, best_schedule : Seq({"config"})]

LowerTypes ==
  /\ compat \in BOOLEAN
  /\ stack \in Seq(Frames)
  /\ modules \in Seq(Modules)
  /\ DOMAIN lowered \subseteq FuncNames /\ lowered \in [DOMAIN lowered -> Results]
  /\ DOMAIN executables \subseteq Works /\ executables \in [DOMAIN executables -> Results]
  /\ code \in Seq(Kernels)
  /\ outcome \in {"none", "ok", "raised", "crashed"}
TunerTypes ==
  /\ tuner \in Tuners \cup {Nothing} /\ tuned \in Tuners \cup {Nothing}

(* The lowering of a function for JAX or for a schedule is at the bottom of *)
(* the stack                                                               *)
FrameShape(x, i, n) ==
  /\ i = 1 <=> x.ctx \in {"jax", "stablehlo"}
  /\ IF x.ctx = "jax" THEN x.of \in Works ELSE x.of \in FuncNames
  /\ \/ x.items \in Seq(FuncItems)
     \/ \E f \in FuncNames, m \in 1 .. n : x.items = <<jit(f, m)>>
StackShape == \A i \in 1 .. Len(stack) : FrameShape(stack[i], i, Len(modules))

(* What is lowered for JAX has no tags; what calls a kernel keeps it alive. *)
NoTags(ops) == \A i \in 1 .. Len(ops) : ops[i].tags = <<>>
Keeps(ops, keepalive) == \A i \in 1 .. Len(ops) : ops[i].kernel \in keepalive \cup {0}
Safe(r) == NoTags(r.ops) /\ Keeps(r.ops, r.keepalive)
ForJax(s, i) == \A j \in 1 .. i : s[j].ctx \in {"jax", "tag"}
FrameSafe(s, i) ==
  /\ ForJax(s, i) => s[i].path = <<>> /\ NoTags(s[i].ops)
  /\ Keeps(s[i].ops, s[i].keepalive)
ForJasc(s) == \E i \in 1 .. Len(s) : s[i].ctx \in {"jit", "stablehlo"}

SafeInv ==
  /\ compat \/ ForJasc(stack) \/ outcome = "crashed"
  /\ outcome = "crashed" => stack = <<>>
  /\ \A i \in 1 .. Len(stack) : FrameSafe(stack, i)
  /\ \A f \in DOMAIN lowered : Safe(lowered[f])
  /\ \A w \in DOMAIN executables : Safe(executables[w])

(* The first op calls a kernel that was compiled with the parameters of a  *)
(* configuration.                                                          *)
Calls(ops, config, cd) ==
  Len(ops) > 0 /\ ops[1].kernel \in 1 .. Len(cd) /\ cd[ops[1].kernel].params = config

Least(t) ==
  /\ t.best_time <= Infinity
  /\ \A i \in 1 .. Len(t.previous) : t.best_time <= t.previous[i].time

(* The best function is compiled with the best configuration, or it can no *)
(* more be compiled: its module is LLVM IR already.                        *)
BestRuns(t, mods, st, exe, cd) ==
  t.best_fun # None =>
    /\ t.best_fun[3] \in 1 .. Len(mods) /\ mods[t.best_fun[3]].level = "llvm"
    /\ st # <<>> /\ st[1].ctx = "jax" /\ st[1].of = t.best_fun =>
         Len(st) = 1 /\ st[1].items = <<t.best_fun>>
    /\ t.best_fun \in DOMAIN exe =>
         \E i \in 1 .. Len(t.previous) : /\ t.previous[i].time = t.best_time
                                         /\ Calls(exe[t.best_fun].ops, t.previous[i].config, cd)

Fresh(mods) ==
  Len(mods) > 0 /\ mods[Len(mods)].level = "stablehlo" /\ mods[Len(mods)].schedules = <<>>
Printed(p) == p \in Modules /\ p.level = "linalg" /\ p.schedules = <<Schedule(Defaults)>>

(* The candidate is lowered, then compiled, then timed.                    *)
ToCompile(t, mods, st) ==
  /\ Len(st) = 1 /\ st[1].ctx = "jax" /\ st[1].of = jit(t.func, Len(mods))
  /\ st[1].items = <<jit(t.func, Len(mods))>> /\ st[1].ops = <<>>
  /\ Len(mods) > 0 /\ mods[Len(mods)].level = "linalg"
  /\ mods[Len(mods)].schedules = <<Schedule(t.config)>>
Compiled(t, mods, st, cd) ==
  /\ Len(st) = 1 /\ st[1].ctx = "jax" /\ st[1].of = jit(t.func, Len(mods))
  /\ st[1].items = <<>> /\ Calls(st[1].ops, t.config, cd)
  /\ Len(mods) > 0 /\ mods[Len(mods)].level = "llvm"
ToTime(t, mods, exe, cd) ==
  /\ Len(mods) > 0 /\ mods[Len(mods)].level = "llvm"
  /\ jit(t.func, Len(mods)) \in DOMAIN exe =>
       Calls(exe[jit(t.func, Len(mods))].ops, t.config, cd)

Phase(t, mods, st, exe, cd, out) ==
  /\ t.step = "lower" =>
       /\ t.previous = <<>> /\ t.best_fun = None /\ t.best_time = Infinity
       /\ st # <<>> => st[1].ctx = "stablehlo"
       /\ st = <<>> => out \in {"raised", "crashed"} \/ Fresh(mods)
  /\ t.step = "loop" => st = <<>> /\ Printed(t.printed)
  /\ t.step = "timing" =>
       /\ Printed(t.printed)
       /\ st = <<>> => out \in {"raised", "crashed"} \/ ToTime(t, mods, exe, cd)
       /\ st # <<>> => ToCompile(t, mods, st) \/ Compiled(t, mods, st, cd)

TunerInv ==
  /\ tuner # Nothing => /\ Phase(tuner, modules, stack, executables, code, outcome)
                        /\ Least(tuner) /\ BestRuns(tuner, modules, stack, executables, code)
  /\ tuned # Nothing => Least(tuned) /\ BestRuns(tuned, modules, stack, executables, code)

JascInv == LowerTypes /\ StackShape /\ TunerTypes /\ TunerInv

(* What an item is made of.                                                *)
LEMMA ItemParts ==
  ASSUME NEW item \in FuncItems \cup Jitted
  PROVE  /\ item[1] \in {"op", "tag", "jit"}
         /\ item[1] = "op" => item[2] \in STRING
         /\ item[1] = "tag" => item[2] \in STRING /\ item[3] \in FuncNames
         /\ item[1] = "jit" => item[2] \in FuncNames /\ item[3] \in Nat /\ item = jit(item[2], item[3])
         /\ item[1] = "jit" /\ item \in FuncItems => item[3] = 0
<1>1. CASE item \in {"op"} \X STRING
  BY <1>1
<1>2. CASE item \in {"tag"} \X STRING \X FuncNames
  BY <1>2
<1>3. CASE item \in Jitted
  BY <1>3 DEF Jitted, FuncItems, jit
<1>4. CASE item \in {"jit"} \X FuncNames \X {0}
  BY <1>4 DEF jit
<1> QED
  BY <1>1, <1>2, <1>3, <1>4 DEF FuncItems

(* A work is a triple.                                                     *)
LEMMA WorkParts ==
  ASSUME NEW w \in Works
  PROVE  /\ w = <<w[1], w[2], w[3]>> /\ w[2] \in FuncNames /\ w[3] \in Nat
         /\ w[1] \in {"jax", "jit"}
         /\ w[1] = "jit" => w \in Jitted
<1>1. CASE w \in {"jax"} \X FuncNames \X {0}
  BY <1>1
<1>2. CASE w \in Jitted
  BY <1>2 DEF Jitted
<1> QED
  BY <1>1, <1>2 DEF Works

(* The fields of a frame.                                                  *)
LEMMA FrameParts ==
  ASSUME NEW x \in Frames
  PROVE  /\ x.ctx \in {"jax", "tag", "jit", "stablehlo"} /\ x.items \in Seq(FuncItems \cup Jitted)
         /\ x.path \in Seq(STRING) /\ x.ops \in Seq(Ops) /\ x.keepalive \in SUBSET Nat
         /\ x.of \in Works \cup FuncNames
BY DEF Frames

(* A frame whose items, ops and keepalive change is a frame.               *)
LEMMA FrameChanged ==
  ASSUME NEW x \in Frames, NEW items \in Seq(FuncItems \cup Jitted), NEW ops \in Seq(Ops),
         NEW keepalive \in SUBSET Nat
  PROVE  LET y == [x EXCEPT !.items = items, !.ops = ops, !.keepalive = keepalive] IN
         /\ y \in Frames /\ y.ctx = x.ctx /\ y.path = x.path /\ y.of = x.of
         /\ y.items = items /\ y.ops = ops /\ y.keepalive = keepalive
BY DEF Frames

(* The stack after a step: n frames, of which the last is x and the others *)
(* stay.                                                                   *)
Became(s, t, n, x) ==
  t \in Seq(Frames) /\ Len(t) = n /\ t[n] = x /\ \A i \in 1 .. n - 1 : t[i] = s[i]

(* The stack is cut down to n - 1 frames and gets a new top.               *)
LEMMA Replaced ==
  ASSUME NEW s \in Seq(Frames), NEW n \in 1 .. Len(s) + 1, NEW x \in Frames
  PROVE  Became(s, Append(SubSeq(s, 1, n - 1), x), n, x)
BY DEF Became

(* The stack gets one more frame.                                          *)
LEMMA Pushed ==
  ASSUME NEW s \in Seq(Frames), NEW x \in Frames
  PROVE  Became(s, Append(s, x), Len(s) + 1, x)
BY DEF Became

(* A stack of one frame.                                                   *)
LEMMA Single ==
  ASSUME NEW x \in Frames
  PROVE  \A s : Became(s, <<x>>, 1, x)
BY DEF Became

(* Where an element of a concatenation comes from.                         *)
LEMMA Joined ==
  ASSUME NEW S, NEW s \in Seq(S), NEW t \in Seq(S)
  PROVE  /\ s \o t \in Seq(S) /\ Len(s \o t) = Len(s) + Len(t)
         /\ \A i \in 1 .. Len(s \o t) : \/ i \in 1 .. Len(s) /\ (s \o t)[i] = s[i]
                                        \/ i - Len(s) \in 1 .. Len(t) /\ (s \o t)[i] = t[i - Len(s)]
OBVIOUS

(* A sequence with an element has a positive length.                       *)
LEMMA NonEmpty ==
  ASSUME NEW S, NEW s \in Seq(S)
  PROVE  Len(s) \in Nat /\ (s # <<>> <=> Len(s) > 0)
OBVIOUS

(* Append is the concatenation with one element.                           *)
LEMMA Appended ==
  ASSUME NEW S, NEW s \in Seq(S), NEW e \in S
  PROVE  Append(s, e) = s \o <<e>>
OBVIOUS

(* A lowered op has its tags and its kernel.                               *)
LEMMA OpMade ==
  ASSUME NEW name \in OpNames, NEW path \in Seq(STRING), NEW kernel \in Nat
  PROVE  /\ Op(name, path, kernel) \in Ops /\ <<Op(name, path, kernel)>> \in Seq(Ops)
         /\ Op(name, path, kernel).tags = path /\ Op(name, path, kernel).kernel = kernel
BY DEF Op, Ops

-----------------------------------------------------------------------------
(* The identifier of a new kernel follows the ones in use.                 *)
LEMMA NewKernelIs ==
  ASSUME LowerTypes
  PROVE  NewKernel = Len(code) + 1 /\ Len(code) \in Nat
<1>1. DOMAIN code = 1 .. Len(code) /\ Len(code) \in Nat
  BY DEF LowerTypes
<1>2. ASSUME NEW n \in Nat
      PROVE  Cardinality(1 .. n) = n
  BY FS_Interval
<1> QED
  BY <1>1, <1>2 DEF NewKernel

(* With adds or replaces one entry.                                        *)
LEMMA WithTyped ==
  ASSUME NEW D, NEW R, NEW f, DOMAIN f \subseteq D, f \in [DOMAIN f -> R], NEW x \in D, NEW v \in R
  PROVE  /\ DOMAIN With(f, x, v) = DOMAIN f \cup {x}
         /\ DOMAIN With(f, x, v) \subseteq D /\ With(f, x, v) \in [DOMAIN With(f, x, v) -> R]
         /\ With(f, x, v)[x] = v /\ \A y \in DOMAIN f : y # x => With(f, x, v)[y] = f[y]
BY DEF With

(* The cache that jax.clear_caches leaves is well typed.                   *)
LEMMA EmptyTyped ==
  ASSUME NEW D, NEW R
  PROVE  DOMAIN <<>> \subseteq D /\ <<>> \in [DOMAIN <<>> -> R] /\ DOMAIN <<>> = {}
<1>1. DOMAIN <<>> = {}
  OBVIOUS
<1> QED
  BY <1>1

(* The caches of JAX are well typed.                                       *)
LEMMA CachesTyped ==
  ASSUME LowerTypes
  PROVE  /\ DOMAIN lowered \subseteq FuncNames /\ lowered \in [DOMAIN lowered -> Results]
         /\ DOMAIN executables \subseteq Works /\ executables \in [DOMAIN executables -> Results]
BY DEF LowerTypes

(* A cache of lowerings with one more entry.                               *)
LEMMA LoweredWith ==
  ASSUME LowerTypes, NEW f \in FuncNames, NEW v \in Results
  PROVE  /\ DOMAIN With(lowered, f, v) \subseteq FuncNames
         /\ With(lowered, f, v) \in [DOMAIN With(lowered, f, v) -> Results]
BY CachesTyped, WithTyped

(* A cache of executables with one more entry.                             *)
LEMMA ExecutablesWith ==
  ASSUME LowerTypes, NEW w \in Works, NEW v \in Results
  PROVE  /\ DOMAIN With(executables, w, v) \subseteq Works
         /\ With(executables, w, v) \in [DOMAIN With(executables, w, v) -> Results]
BY CachesTyped, WithTyped

(* A frame of the stack and its first item.                                *)
LEMMA StackParts ==
  ASSUME LowerTypes, StackShape, NEW n \in 1 .. Len(stack)
  PROVE  /\ stack[n] \in Frames /\ FrameShape(stack[n], n, Len(modules))
         /\ stack[n].items # <<>> =>
              /\ stack[n].items[1] \in FuncItems \cup Jitted
              /\ stack[n].items \in Seq(FuncItems) => stack[n].items[1] \in FuncItems
         /\ Next1(stack[n].items) \in Seq(FuncItems)
         /\ Next1(stack[n].items) \in Seq(FuncItems \cup Jitted)
<1> DEFINE x == stack[n]
<1>1. x \in Frames /\ FrameShape(x, n, Len(modules))
  BY DEF LowerTypes, StackShape
<1>2. x.items \in Seq(FuncItems \cup Jitted)
  BY <1>1, FrameParts
<1>3. x.items # <<>> => /\ x.items[1] \in FuncItems \cup Jitted
                        /\ x.items \in Seq(FuncItems) => x.items[1] \in FuncItems
  BY <1>2
<1>4. Next1(x.items) \in Seq(FuncItems)
  <2>1. CASE x.items \in Seq(FuncItems)
    BY <2>1 DEF Next1
  <2>2. CASE \E f \in FuncNames, m \in 1 .. Len(modules) : x.items = <<jit(f, m)>>
    BY <2>2 DEF Next1
  <2> QED
    BY <1>1, <2>1, <2>2 DEF FrameShape
<1>5. Next1(x.items) \in Seq(FuncItems \cup Jitted)
  BY <1>4
<1> QED
  BY <1>1, <1>3, <1>4, <1>5

(* The top of the stack; one that is not a program call has a caller.      *)
LEMMA TopParts ==
  ASSUME LowerTypes, StackShape, stack # <<>>
  PROVE  /\ Len(stack) \in 1 .. Len(stack) /\ Top \in Frames /\ Top = stack[Len(stack)]
         /\ FrameShape(Top, Len(stack), Len(modules))
         /\ Top.ctx \notin {"jax", "stablehlo"} => Len(stack) - 1 \in 1 .. Len(stack)
<1>1. Len(stack) \in 1 .. Len(stack) /\ Top = stack[Len(stack)]
  BY DEF LowerTypes, Top
<1>2. Top \in Frames /\ FrameShape(Top, Len(stack), Len(modules))
  BY <1>1, StackParts
<1>3. Len(stack) \in Nat
  BY DEF LowerTypes
<1>4. ASSUME Top.ctx \notin {"jax", "stablehlo"}
      PROVE  Len(stack) - 1 \in 1 .. Len(stack)
  <2>1. Len(stack) # 1
    BY <1>2, <1>4 DEF FrameShape
  <2>2. ASSUME NEW n \in Nat, n \in 1 .. n, n # 1
        PROVE  n - 1 \in 1 .. n
    BY <2>2
  <2> QED
    BY <1>1, <1>3, <2>1, <2>2
<1> QED
  BY <1>1, <1>2, <1>3, <1>4

(* A step that changes the top and leaves the frames below keeps the shape. *)
LEMMA ShapeKept ==
  ASSUME LowerTypes, StackShape, Len(modules') \in Nat, Len(modules) <= Len(modules'),
         NEW n \in 1 .. Len(stack) + 1, NEW x \in Frames, Became(stack, stack', n, x),
         FrameShape(x, n, Len(modules'))
  PROVE  StackShape'
<1> SUFFICES ASSUME NEW i \in 1 .. n
             PROVE  FrameShape(stack'[i], i, Len(modules'))
  BY DEF StackShape, Became
<1>1. Len(stack) \in Nat /\ Len(modules) \in Nat
  BY DEF LowerTypes
<1>2. CASE i = n
  BY <1>2 DEF Became
<1>3. CASE i # n
  <2>1. i \in 1 .. n - 1 /\ i \in 1 .. Len(stack) /\ stack'[i] = stack[i]
    BY <1>1, <1>3 DEF Became
  <2>2. FrameShape(stack[i], i, Len(modules))
    BY <2>1 DEF StackShape
  <2> QED
    BY <1>1, <2>1, <2>2 DEF FrameShape
<1> QED
  BY <1>2, <1>3

(* The empty stack has the shape.                                          *)
LEMMA EmptyShape ==
  ASSUME stack' = <<>>
  PROVE  StackShape' /\ stack' \in Seq(Frames)
BY DEF StackShape

(* A frame goes on after an item.                                          *)
Extended(y, x, ops, kernels) ==
  /\ x.ctx = y.ctx /\ x.path = y.path /\ x.of = y.of
  /\ x.items = Next1(y.items) /\ x.ops = y.ops \o ops /\ x.keepalive = y.keepalive \cup kernels

(* A frame that goes on after an item keeps the shape of the stack.        *)
LEMMA Extend ==
  ASSUME LowerTypes, StackShape, Len(modules') \in Nat, Len(modules) <= Len(modules'),
         NEW n \in 1 .. Len(stack), NEW ops \in Seq(Ops), NEW kernels \in SUBSET Nat,
         stack' = Append(SubSeq(stack, 1, n - 1),
                         [stack[n] EXCEPT !.items = Next1(@), !.ops = @ \o ops,
                                          !.keepalive = @ \cup kernels])
  PROVE  /\ \E x \in Frames : Became(stack, stack', n, x) /\ Extended(stack[n], x, ops, kernels)
         /\ StackShape' /\ stack' \in Seq(Frames)
<1> DEFINE y == stack[n]
           x == [y EXCEPT !.items = Next1(y.items), !.ops = y.ops \o ops,
                          !.keepalive = y.keepalive \cup kernels]
<1>1. y \in Frames /\ FrameShape(y, n, Len(modules)) /\ Next1(y.items) \in Seq(FuncItems)
      /\ Next1(y.items) \in Seq(FuncItems \cup Jitted)
  BY StackParts
<1>2. y.ops \in Seq(Ops) /\ y.keepalive \in SUBSET Nat
  BY <1>1, FrameParts
<1>3. y.ops \o ops \in Seq(Ops) /\ y.keepalive \cup kernels \in SUBSET Nat
  <2> HIDE DEF y
  <2>1. y.ops \o ops \in Seq(Ops)
    BY <1>2, Joined
  <2>2. y.keepalive \cup kernels \in SUBSET Nat
    BY <1>2
  <2> QED
    BY <2>1, <2>2
<1>4. x \in Frames /\ Extended(y, x, ops, kernels)
  <2> HIDE DEF y
  <2>1. x \in Frames
    BY <1>1, <1>3, FrameChanged
  <2>2. x.ctx = y.ctx /\ x.path = y.path /\ x.of = y.of
    BY <1>1 DEF Frames
  <2>3. x.items = Next1(y.items) /\ x.ops = y.ops \o ops /\ x.keepalive = y.keepalive \cup kernels
    BY <1>1 DEF Frames
  <2> QED
    BY <2>1, <2>2, <2>3 DEF Extended
<1>5. stack' = Append(SubSeq(stack, 1, n - 1), x)
  OBVIOUS
<1> HIDE DEF x
<1>6. Became(stack, stack', n, x)
  <2>1. stack \in Seq(Frames) /\ n \in 1 .. Len(stack) + 1
    BY DEF LowerTypes
  <2> QED
    BY <1>4, <1>5, <2>1, Replaced
<1>7. FrameShape(x, n, Len(modules'))
  BY <1>1, <1>4 DEF FrameShape, Extended
<1>8. StackShape'
  <2>1. n \in 1 .. Len(stack) + 1
    BY DEF LowerTypes
  <2> QED
    BY <1>4, <1>6, <1>7, <2>1, ShapeKept
<1> QED
  BY <1>4, <1>6, <1>8 DEF Became

(* The lowering of a function that tag or jit calls keeps the shape.       *)
LEMMA Push ==
  ASSUME LowerTypes, StackShape, UNCHANGED modules, stack # <<>>,
         NEW ctx \in {"tag", "jit"}, NEW path \in Seq(STRING), NEW f \in FuncNames,
         stack' = Append(stack, Frame(ctx, Funcs[f], path, f))
  PROVE  /\ Frame(ctx, Funcs[f], path, f) \in Frames
         /\ Became(stack, stack', Len(stack) + 1, Frame(ctx, Funcs[f], path, f))
         /\ StackShape' /\ stack' \in Seq(Frames)
<1> DEFINE x == Frame(ctx, Funcs[f], path, f)
<1>1. Funcs[f] \in Seq(FuncItems) /\ Funcs[f] \in Seq(FuncItems \cup Jitted)
  BY FuncsAssumption
<1>2. /\ x \in Frames /\ x.ctx = ctx /\ x.items = Funcs[f] /\ x.of = f
  <2>1. ctx \in {"jax", "tag", "jit", "stablehlo"} /\ f \in Works \cup FuncNames
    OBVIOUS
  <2> QED
    BY <1>1, <2>1 DEF Frame, Frames
<1> HIDE DEF x
<1>3. Became(stack, stack', Len(stack) + 1, x)
  BY <1>2, Pushed DEF LowerTypes, x
<1>4. Len(modules') \in Nat /\ Len(modules) <= Len(modules') /\ Len(stack) \in Nat /\ Len(stack) > 0
  BY DEF LowerTypes
<1>5. FrameShape(x, Len(stack) + 1, Len(modules'))
  BY <1>1, <1>2, <1>4 DEF FrameShape
<1>6. StackShape'
  BY <1>2, <1>3, <1>4, <1>5, ShapeKept
<1> QED
  BY <1>2, <1>3, <1>6 DEF Became, x

(* The lowering that a call of the program starts has the shape.           *)
LEMMA Bottom ==
  ASSUME LowerTypes, StackShape, stack = <<>>, Len(modules') \in Nat, Len(modules) <= Len(modules'),
         NEW x \in Frames, FrameShape(x, 1, Len(modules')), stack' = <<x>>
  PROVE  Became(stack, stack', 1, x) /\ StackShape' /\ stack' \in Seq(Frames)
<1>1. Became(stack, stack', 1, x)
  BY Single
<1>2. 1 \in 1 .. Len(stack) + 1
  OBVIOUS
<1>3. StackShape'
  BY <1>1, <1>2, ShapeKept
<1> QED
  BY <1>1, <1>3 DEF Became

-----------------------------------------------------------------------------
(* Modules, schedules and kernels.                                         *)
LEMMA NewModuleTyped ==
  ASSUME NEW f \in FuncNames, NEW cached \in BOOLEAN, NEW ops \in Seq(Ops)
  PROVE  /\ NewModule(f, cached, ops) \in Modules /\ NewModule(f, cached, ops).schedules = <<>>
         /\ NewModule(f, cached, ops).level = "stablehlo"
BY DEF NewModule, Modules

(* The identity schedule is a schedule.                                    *)
LEMMA IdentityTyped == Identity \in Schedules
BY DEF Identity, Schedule, Schedules

(* A module or a kernel of the same ops of the same function.              *)
Same(a, b) == a.of = b.of /\ a.cached = b.cached /\ a.ops = b.ops

(* GenerateSchedule leaves a schedule for create_cpu_kernel to apply, the  *)
(* first one if there was one.                                             *)
LEMMA Generated ==
  ASSUME NEW mod \in Modules, NEW g, g = GenerateSchedule(mod, Identity)
  PROVE  /\ g \in Modules /\ g.level = mod.level /\ g.schedules # <<>>
         /\ mod.schedules # <<>> => g.schedules[1] = mod.schedules[1]
         /\ KernelOf(g) \in Kernels /\ KernelOf(g).params = g.schedules[1].params
         /\ [g EXCEPT !.level = "llvm", !.schedules = Tail(@)] \in Modules
         /\ [g EXCEPT !.level = "llvm", !.schedules = Tail(@)].level = "llvm"
         /\ Same(KernelOf(g), mod) /\ Same([g EXCEPT !.level = "llvm", !.schedules = Tail(@)], mod)
<1>1. g.schedules = Append(mod.schedules, Identity) /\ mod.schedules \in Seq(Schedules)
  BY DEF GenerateSchedule, Modules
<1>2. /\ g.schedules \in Seq(Schedules) /\ g.schedules # <<>> /\ Len(g.schedules) > 0
      /\ g.schedules[1] \in Schedules
  BY <1>1, IdentityTyped
<1>3. g \in Modules /\ g.level = mod.level
  BY <1>1, <1>2 DEF GenerateSchedule, Modules
<1>4. mod.schedules # <<>> => g.schedules[1] = mod.schedules[1]
  BY <1>1, IdentityTyped
<1>5. KernelOf(g) \in Kernels /\ KernelOf(g).params = g.schedules[1].params
  BY <1>2, <1>3 DEF KernelOf, Kernels, Modules, Schedules
<1>6. Tail(g.schedules) \in Seq(Schedules)
  BY <1>2
<1>7. /\ [g EXCEPT !.level = "llvm", !.schedules = Tail(@)] \in Modules
      /\ [g EXCEPT !.level = "llvm", !.schedules = Tail(@)].level = "llvm"
  BY <1>3, <1>6 DEF Modules
<1>8. Same(g, mod)
  BY DEF Same, GenerateSchedule, Modules
<1>9. Same(KernelOf(g), mod)
  BY <1>8 DEF Same, KernelOf
<1>10. Same([g EXCEPT !.level = "llvm", !.schedules = Tail(@)], mod)
  BY <1>3, <1>8 DEF Same, Modules
<1> QED
  BY <1>2, <1>3, <1>4, <1>5, <1>7, <1>9, <1>10

(* The frame at n goes on, with the ops and the kernels of what ended.     *)
Extending(n, ops, kernels) ==
  \E x \in Frames : Became(stack, stack', n, x) /\ Extended(stack[n], x, ops, kernels)

(* An op is lowered into the frame at the top, under the tags of the frame. *)
LEMMA LowerOpEffect ==
  ASSUME LowerTypes, StackShape, LowerOp
  PROVE  /\ LowerTypes' /\ StackShape'
         /\ \E op \in Ops : /\ Extending(Len(stack), <<op>>, {})
                            /\ op.tags = Top.path /\ op.kernel = 0
                            /\ op = Op(Top.items[1][2], Top.path, 0)
<1> DEFINE op == Op(Top.items[1][2], Top.path, 0)
<1>1. /\ Len(stack) \in 1 .. Len(stack) /\ Top = stack[Len(stack)] /\ Top \in Frames
      /\ Top.items[1] \in FuncItems \cup Jitted
  BY TopParts, StackParts DEF LowerOp
<1>2. op \in Ops /\ <<op>> \in Seq(Ops) /\ op.tags = Top.path /\ op.kernel = 0
  <2>1. Top.items[1][2] \in STRING
    BY <1>1, ItemParts DEF LowerOp
  <2>2. Top.path \in Seq(STRING) /\ 0 \in Nat
    BY <1>1, FrameParts
  <2>3. op \in Ops /\ op.tags = Top.path /\ op.kernel = 0
    BY <2>1, <2>2 DEF Op, Ops, OpNames
  <2> HIDE DEF op
  <2> QED
    BY <2>3
<1> HIDE DEF op
<1>3. stack' = Append(SubSeq(stack, 1, Len(stack) - 1),
                      [stack[Len(stack)] EXCEPT !.items = Next1(@), !.ops = @ \o <<op>>,
                                                !.keepalive = @ \cup {}])
  BY <1>1 DEF LowerOp, Continue, Below, op
<1>4. Len(modules') \in Nat /\ Len(modules) <= Len(modules')
  BY DEF LowerOp, LowerTypes
<1>5. Extending(Len(stack), <<op>>, {}) /\ StackShape' /\ stack' \in Seq(Frames)
  <2>1. {} \in SUBSET Nat
    OBVIOUS
  <2> QED
    BY <1>1, <1>2, <1>3, <1>4, <2>1, Extend DEF Extending
<1>6. LowerTypes'
  BY <1>5 DEF LowerOp, LowerTypes
<1>7. op = Op(Top.items[1][2], Top.path, 0)
  BY DEF op
<1> QED
  BY <1>2, <1>5, <1>6, <1>7

(* tag starts an empty frame, with the path that the switch makes.         *)
LEMMA TagLoweringEffect ==
  ASSUME LowerTypes, StackShape, TagLowering
  PROVE  /\ LowerTypes' /\ StackShape'
         /\ \E x \in Frames, name \in STRING :
              /\ Became(stack, stack', Len(stack) + 1, x)
              /\ x.ctx = "tag" /\ x.path = TagPath(Top.path, name) /\ x.ops = <<>> /\ x.keepalive = {}
              /\ x.of = Top.items[1][3] /\ x.items = Funcs[x.of] /\ name = Top.items[1][2]
<1> DEFINE item == Top.items[1]
           path == TagPath(Top.path, item[2])
           x == Frame("tag", Funcs[item[3]], path, item[3])
<1>1. Top \in Frames /\ item \in FuncItems \cup Jitted
  BY TopParts, StackParts DEF TagLowering
<1>2. item[2] \in STRING /\ item[3] \in FuncNames
  BY <1>1, ItemParts DEF TagLowering
<1>3. path \in Seq(STRING)
  <2>1. Top.path \in Seq(STRING) /\ <<item[2]>> \in Seq(STRING)
    BY <1>1, <1>2, FrameParts
  <2>2. <<item[2]>> \o Top.path \in Seq(STRING)
    BY <2>1, Joined
  <2> QED
    BY <2>1, <2>2 DEF TagPath
<1>4. stack' = Append(stack, x) /\ stack # <<>> /\ UNCHANGED modules
  BY DEF TagLowering
<1>5. x \in Frames /\ Became(stack, stack', Len(stack) + 1, x) /\ StackShape' /\ stack' \in Seq(Frames)
  <2> HIDE DEF item, path
  <2> QED
    BY <1>2, <1>3, <1>4, Push
<1>6. /\ x.ctx = "tag" /\ x.path = path /\ x.ops = <<>> /\ x.keepalive = {}
      /\ x.of = item[3] /\ x.items = Funcs[x.of]
  BY DEF Frame
<1>7. LowerTypes'
  BY <1>5 DEF TagLowering, LowerTypes
<1> QED
  BY <1>2, <1>5, <1>6, <1>7

(* The ops and the kernels of a tag region go to its caller.               *)
LEMMA EndTagEffect ==
  ASSUME LowerTypes, StackShape, EndTag
  PROVE  /\ LowerTypes' /\ StackShape' /\ Len(stack) - 1 \in 1 .. Len(stack)
         /\ Extending(Len(stack) - 1, Top.ops, Top.keepalive)
<1> DEFINE n == Len(stack) - 1
<1>1. Top \in Frames /\ n \in 1 .. Len(stack) /\ Len(stack) - 2 = n - 1
  BY TopParts DEF EndTag
<1>2. Top.ops \in Seq(Ops) /\ Top.keepalive \in SUBSET Nat
  BY <1>1, FrameParts
<1>3. stack' = Append(SubSeq(stack, 1, n - 1),
                      [stack[n] EXCEPT !.items = Next1(@), !.ops = @ \o Top.ops,
                                       !.keepalive = @ \cup Top.keepalive])
  BY <1>1 DEF EndTag
<1>4. Len(modules') \in Nat /\ Len(modules) <= Len(modules')
  BY DEF EndTag, LowerTypes
<1> HIDE DEF n
<1>5. Extending(n, Top.ops, Top.keepalive) /\ StackShape' /\ stack' \in Seq(Frames)
  BY <1>1, <1>2, <1>3, <1>4, Extend DEF Extending
<1>6. LowerTypes'
  BY <1>5 DEF EndTag, LowerTypes
<1> QED
  BY <1>1, <1>5, <1>6 DEF n

(* jit starts an empty frame of its own.                                   *)
LEMMA JitLoweringEffect ==
  ASSUME LowerTypes, StackShape, JitLowering
  PROVE  /\ LowerTypes' /\ StackShape'
         /\ \E x \in Frames :
              /\ Became(stack, stack', Len(stack) + 1, x)
              /\ x.ctx = "jit" /\ x.ops = <<>> /\ x.keepalive = {} /\ x.path = <<>>
              /\ x.of \in FuncNames /\ x.items = Funcs[x.of]
<1> DEFINE item == Top.items[1]
           x == Frame("jit", Funcs[item[2]], <<>>, item[2])
<1>1. Top \in Frames /\ item \in FuncItems \cup Jitted
  BY TopParts, StackParts DEF JitLowering
<1>2. item[2] \in FuncNames /\ <<>> \in Seq(STRING)
  BY <1>1, ItemParts DEF JitLowering
<1>3. stack' = Append(stack, x) /\ stack # <<>> /\ UNCHANGED modules
  BY DEF JitLowering
<1>4. x \in Frames /\ Became(stack, stack', Len(stack) + 1, x) /\ StackShape' /\ stack' \in Seq(Frames)
  <2> HIDE DEF item
  <2> QED
    BY <1>2, <1>3, Push
<1>5. /\ x.ctx = "jit" /\ x.ops = <<>> /\ x.keepalive = {} /\ x.path = <<>>
      /\ x.of \in FuncNames /\ x.items = Funcs[x.of]
  BY <1>2 DEF Frame
<1>6. LowerTypes'
  BY <1>4 DEF JitLowering, LowerTypes
<1> QED
  BY <1>4, <1>5, <1>6

(* An exception leaves a well-typed state, and the switch on unless it was *)
(* off outside of every Jasc lowering.                                     *)
LEMMA UnwindEffect ==
  ASSUME LowerTypes, StackShape, Unwind
  PROVE  LowerTypes' /\ StackShape' /\ (compat' <=> compat \/ InJasc)
<1>1. StackShape' /\ stack' \in Seq(Frames)
  BY EmptyShape DEF Unwind
<1>2. compat' \in BOOLEAN /\ (compat' <=> compat \/ InJasc)
  BY DEF Unwind, LowerTypes
<1> QED
  BY <1>1, <1>2 DEF Unwind, LowerTypes

(* The caller of jit calls one new kernel and keeps it alive.              *)
LEMMA EndJitEffect ==
  ASSUME LowerTypes, StackShape, EndJit, ~Unwind
  PROVE  /\ LowerTypes' /\ StackShape' /\ Len(stack) - 1 \in 1 .. Len(stack)
         /\ \E op \in Ops : /\ Extending(Len(stack) - 1, <<op>>, {NewKernel})
                            /\ op.tags = stack[Len(stack) - 1].path /\ op.kernel = NewKernel
         /\ \E k \in Kernels : /\ code' = Append(code, k)
                               /\ k.of = Top.of /\ k.cached = FALSE /\ k.ops = Top.ops
         /\ Top.of \in FuncNames /\ compat' = TRUE /\ UNCHANGED <<modules, lowered, executables, outcome>>
<1> DEFINE n == Len(stack) - 1
           mod == NewModule(Top.of, FALSE, Top.ops)
           g == GenerateSchedule(mod, Identity)
           op == Op("jasc.call_kernel", stack[n].path, NewKernel)
<1>1. Top \in Frames /\ n \in 1 .. Len(stack) /\ Len(stack) - 2 = n - 1 /\ Top.of \in FuncNames
      /\ Top.ops \in Seq(Ops)
  <2>1. Top \in Frames /\ n \in 1 .. Len(stack) /\ Len(stack) - 2 = n - 1
        /\ FrameShape(Top, Len(stack), Len(modules))
    BY TopParts DEF EndJit
  <2> QED
    BY <2>1, FrameParts DEF FrameShape, EndJit
<1>2. mod \in Modules /\ mod.of = Top.of /\ mod.cached = FALSE /\ mod.ops = Top.ops
  <2>1. mod \in Modules
    BY <1>1, NewModuleTyped
  <2>2. mod.of = Top.of /\ mod.cached = FALSE /\ mod.ops = Top.ops
    BY DEF NewModule
  <2> QED
    BY <2>1, <2>2
<1>3. /\ KernelOf(g) \in Kernels /\ KernelOf(g).of = Top.of /\ KernelOf(g).cached = FALSE
      /\ KernelOf(g).ops = Top.ops
  <2>1. KernelOf(g) \in Kernels /\ Same(KernelOf(g), mod)
    BY <1>2, Generated
  <2> QED
    BY <1>2, <2>1 DEF Same
<1>4. NewKernel \in Nat
  BY NewKernelIs
<1>5. stack[n] \in Frames /\ stack[n].path \in Seq(STRING)
  BY <1>1, StackParts, FrameParts
<1>6. op \in Ops /\ op.tags = stack[n].path /\ op.kernel = NewKernel
  <2>1. "jasc.call_kernel" \in OpNames
    BY DEF OpNames
  <2> QED
    BY <1>4, <1>5, <2>1, OpMade
<1>7. /\ code' = Append(code, KernelOf(g))
      /\ stack' = Append(SubSeq(stack, 1, n - 1),
                         [stack[n] EXCEPT !.items = Next1(@), !.ops = Append(@, op),
                                          !.keepalive = @ \cup {NewKernel}])
      /\ compat' = TRUE /\ UNCHANGED <<modules, lowered, executables, outcome, calls>>
  BY <1>1 DEF EndJit, NewModule, add_keepalive, AddKeepalive
<1> HIDE DEF n, mod, g, op
<1>8. Append(stack[n].ops, op) = stack[n].ops \o <<op>>
  <2>1. stack[n].ops \in Seq(Ops)
    BY <1>5, FrameParts
  <2> QED
    BY <1>6, <2>1, Appended
<1>9. <<op>> \in Seq(Ops) /\ {NewKernel} \in SUBSET Nat
  BY <1>4, <1>6
<1>10. Len(modules') \in Nat /\ Len(modules) <= Len(modules')
  BY <1>7 DEF LowerTypes
<1>11. Extending(n, <<op>>, {NewKernel}) /\ StackShape' /\ stack' \in Seq(Frames)
  BY <1>1, <1>7, <1>8, <1>9, <1>10, Extend DEF Extending
<1>12. LowerTypes'
  BY <1>3, <1>7, <1>11 DEF LowerTypes
<1> QED
  BY <1>1, <1>3, <1>6, <1>7, <1>11, <1>12 DEF n

(* The item at the top names a module.                                     *)
LEMMA GivenModule ==
  ASSUME LowerTypes, StackShape, stack # <<>>, Top.items # <<>>, Top.items[1][1] = "jit",
         Top.items[1][3] # 0
  PROVE  /\ Top.items[1][3] \in 1 .. Len(modules) /\ modules[Top.items[1][3]] \in Modules
         /\ Top.items = <<Top.items[1]>> /\ Top.items[1] \in Jitted
         /\ Next1(Top.items) = <<>>
<1>1. /\ Top.items[1] \in FuncItems \cup Jitted /\ FrameShape(Top, Len(stack), Len(modules))
      /\ Top.items \in Seq(FuncItems) => Top.items[1] \in FuncItems
  BY TopParts, StackParts
<1>2. Top.items[1] \notin FuncItems /\ Top.items[1] \in Jitted
  BY <1>1, ItemParts
<1>3. PICK f \in FuncNames, m \in 1 .. Len(modules) : Top.items = <<jit(f, m)>>
  BY <1>1, <1>2 DEF FrameShape
<1>4. Top.items[1] = jit(f, m)
  BY <1>3
<1>5. Top.items[1][3] = m
  BY <1>4 DEF jit
<1>6. Next1(Top.items) = <<>>
  BY <1>3 DEF Next1
<1> QED
  BY <1>2, <1>3, <1>4, <1>5, <1>6 DEF LowerTypes

(* jit with a module aborts on LLVM IR, and otherwise makes a kernel from  *)
(* the first schedule of the module and leaves LLVM IR in it.              *)
LEMMA JitModuleEffect ==
  ASSUME LowerTypes, StackShape, JitModule, ~Unwind, NEW m, m = Top.items[1][3]
  PROVE  /\ LowerTypes' /\ StackShape' /\ m \in 1 .. Len(modules)
         /\ \/ /\ outcome' = "crashed" /\ stack' = <<>> /\ modules[m].level = "llvm"
               /\ UNCHANGED <<compat, modules, lowered, executables, code>>
            \/ /\ \E op \in Ops : /\ Extending(Len(stack), <<op>>, {NewKernel})
                                  /\ op.tags = Top.path /\ op.kernel = NewKernel
               /\ \E k \in Kernels : /\ code' = Append(code, k)
                                     /\ modules[m].schedules # <<>> =>
                                          k.params = modules[m].schedules[1].params
                                     /\ Same(k, modules[m])
               /\ \E mod \in Modules : /\ modules' = [modules EXCEPT ![m] = mod]
                                       /\ mod.level = "llvm" /\ modules[m].level # "llvm"
                                       /\ Same(mod, modules[m])
               /\ UNCHANGED <<compat, lowered, executables, outcome>>
<1> DEFINE g == GenerateSchedule(modules[m], Identity)
           op == Op("jasc.call_kernel", Top.path, NewKernel)
           mod == [g EXCEPT !.level = "llvm", !.schedules = Tail(@)]
<1>1. m \in 1 .. Len(modules) /\ modules[m] \in Modules
  BY GivenModule DEF JitModule
<1>2. Len(stack) \in 1 .. Len(stack) /\ Top \in Frames /\ Top = stack[Len(stack)]
      /\ Top.path \in Seq(STRING)
  BY TopParts, FrameParts DEF JitModule
<1>3. /\ g.level = modules[m].level
      /\ modules[m].schedules # <<>> => g.schedules[1] = modules[m].schedules[1]
      /\ KernelOf(g) \in Kernels /\ KernelOf(g).params = g.schedules[1].params
      /\ mod \in Modules /\ mod.level = "llvm"
      /\ Same(KernelOf(g), modules[m]) /\ Same(mod, modules[m])
  BY <1>1, Generated
<1>4. NewKernel \in Nat
  BY NewKernelIs
<1>5. op \in Ops /\ op.tags = Top.path /\ op.kernel = NewKernel
  <2>1. "jasc.call_kernel" \in OpNames
    BY DEF OpNames
  <2> QED
    BY <1>2, <1>4, <2>1, OpMade
<1>6. \/ /\ g.level = "llvm" /\ outcome' = "crashed" /\ stack' = <<>>
         /\ UNCHANGED <<compat, modules, lowered, executables, code, calls>>
      \/ /\ g.level # "llvm" /\ code' = Append(code, KernelOf(g))
         /\ modules' = [modules EXCEPT ![m] = mod]
         /\ stack' = Append(SubSeq(stack, 1, Len(stack) - 1),
                            [stack[Len(stack)] EXCEPT !.items = Next1(@), !.ops = @ \o <<op>>,
                                                      !.keepalive = @ \cup {NewKernel}])
         /\ UNCHANGED <<compat, lowered, executables, outcome, calls>>
  BY <1>2 DEF JitModule, Continue, Below, add_keepalive, AddKeepalive
<1> HIDE DEF g, op, mod
<1>7. CASE /\ g.level = "llvm" /\ outcome' = "crashed" /\ stack' = <<>>
           /\ UNCHANGED <<compat, modules, lowered, executables, code, calls>>
  <2>1. StackShape' /\ stack' \in Seq(Frames)
    BY <1>7, EmptyShape
  <2>2. LowerTypes'
    BY <1>7, <2>1 DEF LowerTypes
  <2> QED
    BY <1>1, <1>3, <1>7, <2>1, <2>2
<1>8. CASE /\ g.level # "llvm" /\ code' = Append(code, KernelOf(g))
           /\ modules' = [modules EXCEPT ![m] = mod]
           /\ stack' = Append(SubSeq(stack, 1, Len(stack) - 1),
                              [stack[Len(stack)] EXCEPT !.items = Next1(@), !.ops = @ \o <<op>>,
                                                        !.keepalive = @ \cup {NewKernel}])
           /\ UNCHANGED <<compat, lowered, executables, outcome, calls>>
  <2>1. /\ modules' \in Seq(Modules) /\ Len(modules') = Len(modules)
        /\ Len(modules') \in Nat /\ Len(modules) <= Len(modules')
    BY <1>1, <1>3, <1>8 DEF LowerTypes
  <2>2. <<op>> \in Seq(Ops) /\ {NewKernel} \in SUBSET Nat
    BY <1>4, <1>5
  <2>3. Extending(Len(stack), <<op>>, {NewKernel}) /\ StackShape' /\ stack' \in Seq(Frames)
    BY <1>2, <1>8, <2>1, <2>2, Extend DEF Extending
  <2>4. LowerTypes'
    BY <1>3, <1>8, <2>1, <2>3 DEF LowerTypes
  <2>5. modules[m].schedules # <<>> => KernelOf(g).params = modules[m].schedules[1].params
    BY <1>3
  <2> QED
    BY <1>1, <1>3, <1>5, <1>8, <2>3, <2>4, <2>5
<1> QED
  BY <1>6, <1>7, <1>8

(* What a frame leaves to JAX is well typed.                               *)
LEMMA ResultTyped ==
  ASSUME NEW x \in Frames
  PROVE  /\ [ops |-> x.ops, keepalive |-> x.keepalive] \in Results
         /\ [ops |-> x.ops, keepalive |-> x.keepalive].ops = x.ops
         /\ [ops |-> x.ops, keepalive |-> x.keepalive].keepalive = x.keepalive
BY FrameParts DEF Results

(* What an ended lowering leaves to JAX.                                   *)
TopResult == [ops |-> Top.ops, keepalive |-> Top.keepalive]

(* An ended run puts the ops and kernels of the frame at the bottom into   *)
(* the caches.                                                             *)
LEMMA EndRunEffect ==
  ASSUME LowerTypes, StackShape, EndRun
  PROVE  /\ LowerTypes' /\ StackShape' /\ TopResult \in Results /\ Top = stack[1] /\ Top.of \in Works
         /\ executables' = With(executables, Top.of, TopResult)
         /\ \/ lowered' = lowered
            \/ Top.of[2] \in FuncNames /\ lowered' = With(lowered, Top.of[2], TopResult)
<1>1. stack # <<>>
  <2>1. stack \in Seq(Frames) /\ Len(stack) = 1
    BY DEF EndRun, LowerTypes
  <2> QED
    BY <2>1, NonEmpty, SMTT(20)
<1>2. Top \in Frames /\ Top.of \in Works /\ Top = stack[1]
  <2>1. Top \in Frames /\ Top = stack[Len(stack)] /\ FrameShape(Top, Len(stack), Len(modules))
    BY <1>1, TopParts
  <2> QED
    BY <2>1 DEF EndRun, FrameShape
<1>3. TopResult \in Results
  BY <1>2, ResultTyped DEF TopResult
<1>4. Top.of[2] \in FuncNames
  BY <1>2, WorkParts
<1>5. /\ executables' = With(executables, Top.of, TopResult)
      /\ \/ lowered' = lowered
         \/ lowered' = With(lowered, Top.of[2], TopResult)
  BY DEF EndRun, TopResult
<1> DEFINE e == With(executables, Top.of, TopResult)
           l == With(lowered, Top.of[2], TopResult)
<1>6. DOMAIN e \subseteq Works /\ e \in [DOMAIN e -> Results]
  BY <1>2, <1>3, ExecutablesWith
<1>7. DOMAIN l \subseteq FuncNames /\ l \in [DOMAIN l -> Results]
  BY <1>3, <1>4, LoweredWith
<1>8. executables' = e /\ lowered' \in {lowered, l}
  BY <1>5
<1> HIDE DEF e, l
<1>9. DOMAIN executables' \subseteq Works /\ executables' \in [DOMAIN executables' -> Results]
  BY <1>6, <1>8
<1>10. DOMAIN lowered' \subseteq FuncNames /\ lowered' \in [DOMAIN lowered' -> Results]
  BY <1>7, <1>8 DEF LowerTypes
<1>11. StackShape' /\ stack' \in Seq(Frames)
  BY EmptyShape DEF EndRun
<1>12. LowerTypes'
  BY <1>9, <1>10, <1>11 DEF EndRun, LowerTypes
<1> QED
  BY <1>2, <1>3, <1>4, <1>5, <1>11, <1>12

(* lower_to_stablehlo makes a module without schedules and clears the      *)
(* caches.                                                                 *)
LEMMA EndLoweringEffect ==
  ASSUME LowerTypes, StackShape, EndLowering
  PROVE  /\ LowerTypes' /\ StackShape' /\ Top = stack[1]
         /\ \E mod \in Modules : /\ modules' = Append(modules, mod)
                                 /\ mod.schedules = <<>> /\ mod.level = "stablehlo"
                                 /\ mod.of = Top.of /\ mod.cached = FALSE /\ mod.ops = Top.ops
         /\ Top.of \in FuncNames /\ lowered' = <<>> /\ executables' = <<>>
<1>1. stack # <<>>
  <2>1. stack \in Seq(Frames) /\ Len(stack) = 1
    BY DEF EndLowering, LowerTypes
  <2> QED
    BY <2>1
<1>2. Top \in Frames /\ Top.of \in FuncNames /\ Top = stack[1]
  <2>1. Top \in Frames /\ Top = stack[Len(stack)] /\ FrameShape(Top, Len(stack), Len(modules))
    BY <1>1, TopParts
  <2> QED
    BY <2>1 DEF EndLowering, FrameShape
<1> DEFINE mod == NewModule(Top.of, FALSE, Top.ops)
<1>3. /\ mod \in Modules /\ mod.schedules = <<>> /\ mod.level = "stablehlo"
      /\ mod.of = Top.of /\ mod.cached = FALSE /\ mod.ops = Top.ops
  <2>1. Top.ops \in Seq(Ops)
    BY <1>2, FrameParts
  <2>2. mod \in Modules /\ mod.schedules = <<>> /\ mod.level = "stablehlo"
    BY <1>2, <2>1, NewModuleTyped
  <2>3. mod.of = Top.of /\ mod.cached = FALSE /\ mod.ops = Top.ops
    BY DEF NewModule
  <2> HIDE DEF mod
  <2> QED
    BY <2>2, <2>3
<1>4. modules' = Append(modules, mod) /\ lowered' = <<>> /\ executables' = <<>>
  BY DEF EndLowering, ForgetLowering, clear_caches
<1> HIDE DEF mod
<1>5. StackShape' /\ stack' \in Seq(Frames)
  BY EmptyShape DEF EndLowering
<1>6. modules' \in Seq(Modules)
  BY <1>3, <1>4 DEF LowerTypes
<1>7. LowerTypes'
  BY <1>4, <1>5, <1>6, EmptyTyped DEF EndLowering, LowerTypes
<1> QED
  BY <1>2, <1>3, <1>4, <1>5, <1>7

(* Every step of a lowering keeps the types and the shape of the stack.    *)
LEMMA LoweringStepTypes ==
  ASSUME LowerTypes, StackShape, LoweringStep
  PROVE  LowerTypes' /\ StackShape'
<1>1. CASE LowerOp
  BY <1>1, LowerOpEffect
<1>2. CASE TagLowering
  BY <1>2, TagLoweringEffect
<1>3. CASE EndTag
  BY <1>3, EndTagEffect
<1>4. CASE JitLowering
  BY <1>4, JitLoweringEffect
<1>5. CASE Unwind
  BY <1>5, UnwindEffect
<1>6. CASE EndJit /\ ~Unwind
  BY <1>6, EndJitEffect
<1>7. CASE JitModule /\ ~Unwind
  BY <1>7, JitModuleEffect
<1>8. CASE EndRun
  BY <1>8, EndRunEffect
<1>9. CASE EndLowering
  BY <1>9, EndLoweringEffect
<1> QED
  BY <1>1, <1>2, <1>3, <1>4, <1>5, <1>6, <1>7, <1>8, <1>9 DEF LoweringStep

(* The three ways a run of w can go.                                       *)
RunsAgain(w) ==
  /\ w \in DOMAIN executables
  /\ UNCHANGED <<compat, stack, modules, lowered, executables, code>>
  /\ outcome' \in {"ok", "crashed"}
UsesLowering(w) ==
  /\ w \notin DOMAIN executables /\ w[2] \in DOMAIN lowered /\ w[1] = "jax"
  /\ executables' = With(executables, w, lowered[w[2]])
  /\ outcome' = "ok" /\ UNCHANGED <<compat, stack, modules, lowered, code>>
StartsLowering(x) ==
  /\ x.path = <<>> /\ x.ops = <<>> /\ x.keepalive = {}
  /\ stack' = <<x>> /\ outcome' = "none"
  /\ UNCHANGED <<modules, lowered, executables, code>>

(* What a run does to the caches and the stack.                            *)
LEMMA RunEffect ==
  ASSUME LowerTypes, StackShape, Idle, NEW w \in Works, Run(w), w[1] = "jit" => w[3] \in 0 .. Len(modules)
  PROVE  /\ LowerTypes' /\ StackShape'
         /\ \/ RunsAgain(w)
            \/ UsesLowering(w)
            \/ \E x \in Frames : /\ StartsLowering(x) /\ x.ctx = "jax" /\ x.of = w
                                 /\ w[1] = "jit" => x.items = <<w>>
                                 /\ UNCHANGED compat
<1>1. stack = <<>> /\ Len(modules) \in Nat
  BY DEF Idle, LowerTypes
<1>2. CASE w \in DOMAIN executables
  <2>1. RunsAgain(w)
    BY <1>2 DEF Run, RunsAgain
  <2>2. LowerTypes' /\ StackShape'
    BY <1>1, <2>1, EmptyShape DEF RunsAgain, LowerTypes
  <2> QED
    BY <2>1, <2>2
<1>3. CASE w \notin DOMAIN executables /\ w[1] = "jax" /\ w[2] \in DOMAIN lowered
  <2>1. UsesLowering(w)
    BY <1>3 DEF Run, UsesLowering
  <2>2. lowered[w[2]] \in Results
    BY <1>3 DEF LowerTypes
  <2> DEFINE e == With(executables, w, lowered[w[2]])
  <2>3. DOMAIN e \subseteq Works /\ e \in [DOMAIN e -> Results]
    BY <2>2, ExecutablesWith
  <2>4. executables' = e
    BY <2>1 DEF UsesLowering
  <2> HIDE DEF e
  <2>5. DOMAIN executables' \subseteq Works /\ executables' \in [DOMAIN executables' -> Results]
    BY <2>3, <2>4
  <2>6. StackShape'
    BY <1>1, <2>1, EmptyShape DEF UsesLowering
  <2>7. LowerTypes'
    BY <2>1, <2>5 DEF UsesLowering, LowerTypes
  <2> QED
    BY <2>1, <2>6, <2>7
<1>4. CASE w \notin DOMAIN executables /\ ~(w[1] = "jax" /\ w[2] \in DOMAIN lowered)
  <2> DEFINE items == IF w[1] = "jax" THEN Funcs[w[2]] ELSE <<w>>
             x == Frame("jax", items, <<>>, w)
  <2>1. items \in Seq(FuncItems \cup Jitted)
    <3>1. CASE w[1] = "jax"
      BY <3>1, WorkParts, FuncsAssumption
    <3>2. CASE w[1] # "jax"
      <4>1. w \in FuncItems \cup Jitted
        BY <3>2, WorkParts
      <4> QED
        BY <3>2, <4>1
    <3> QED
      BY <3>1, <3>2
  <2>2. \/ items \in Seq(FuncItems)
        \/ \E f \in FuncNames, m \in 1 .. Len(modules) : items = <<jit(f, m)>>
    <3>1. CASE w[1] = "jax"
      BY <3>1, WorkParts, FuncsAssumption
    <3>2. CASE w[1] # "jax" /\ w[3] = 0
      <4>1. w \in FuncItems
        BY <3>2, WorkParts DEF FuncItems
      <4> QED
        BY <3>2, <4>1
    <3>3. CASE w[1] # "jax" /\ w[3] # 0
      <4>1. w = jit(w[2], w[3]) /\ w[2] \in FuncNames /\ w[3] \in 1 .. Len(modules)
        BY <1>1, <3>3, WorkParts DEF jit
      <4> QED
        BY <3>3, <4>1
    <3> QED
      BY <3>1, <3>2, <3>3
  <2>3. w[1] = "jit" => items = <<w>>
    OBVIOUS
  <2>4. stack' = <<x>> /\ outcome' = "none" /\ UNCHANGED <<compat, modules, lowered, executables, code>>
    BY <1>4 DEF Run
  <2> HIDE DEF items
  <2>5. /\ x \in Frames /\ x.ctx = "jax" /\ x.items = items /\ x.path = <<>> /\ x.of = w
        /\ x.ops = <<>> /\ x.keepalive = {}
    BY <2>1 DEF Frame, Frames
  <2> HIDE DEF x
  <2>6. FrameShape(x, 1, Len(modules'))
    BY <2>2, <2>4, <2>5 DEF FrameShape
  <2>7. StackShape' /\ stack' \in Seq(Frames)
    BY <1>1, <2>4, <2>5, <2>6, Bottom
  <2>8. LowerTypes'
    BY <2>4, <2>7 DEF LowerTypes
  <2> QED
    BY <2>3, <2>4, <2>5, <2>7, <2>8 DEF StartsLowering
<1> QED
  BY <1>2, <1>3, <1>4

(* What lower_to_stablehlo does at once: a module from the cache, or a     *)
(* lowering for Jasc.                                                      *)
LEMMA LowerToStablehloEffect ==
  ASSUME LowerTypes, StackShape, Idle, NEW f \in FuncNames, lower_to_stablehlo(f)
  PROVE  /\ LowerTypes' /\ StackShape'
         /\ \/ /\ \E mod \in Modules : /\ modules' = Append(modules, mod)
                                       /\ mod.schedules = <<>> /\ mod.level = "stablehlo"
                                       /\ mod.cached = TRUE
               /\ lowered' = <<>> /\ executables' = <<>> /\ outcome' = "ok"
               /\ UNCHANGED <<compat, stack, code>>
            \/ \E x \in Frames : /\ StartsLowering(x) /\ x.ctx = "stablehlo" /\ compat' = FALSE
                                 /\ x.of = f /\ x.items = Funcs[f]
<1>1. stack = <<>> /\ Len(modules) \in Nat
  BY DEF Idle, LowerTypes
<1>2. CASE f \in DOMAIN lowered
  <2> DEFINE mod == NewModule(f, TRUE, lowered[f].ops)
  <2>1. lowered[f].ops \in Seq(Ops)
    BY <1>2 DEF LowerTypes, Results
  <2>2. mod \in Modules /\ mod.schedules = <<>> /\ mod.level = "stablehlo" /\ mod.cached = TRUE
    <3>1. mod \in Modules /\ mod.schedules = <<>> /\ mod.level = "stablehlo"
      BY <2>1, NewModuleTyped
    <3>2. mod.cached = TRUE
      BY DEF NewModule
    <3> HIDE DEF mod
    <3> QED
      BY <3>1, <3>2
  <2>3. /\ modules' = Append(modules, mod) /\ lowered' = <<>> /\ executables' = <<>>
        /\ outcome' = "ok" /\ UNCHANGED <<compat, stack, code>>
    BY <1>2 DEF lower_to_stablehlo, clear_caches
  <2> HIDE DEF mod
  <2>4. modules' \in Seq(Modules)
    BY <2>2, <2>3 DEF LowerTypes
  <2>5. LowerTypes' /\ StackShape'
    BY <1>1, <2>3, <2>4, EmptyTyped, EmptyShape DEF LowerTypes
  <2> QED
    BY <2>2, <2>3, <2>5
<1>3. CASE f \notin DOMAIN lowered
  <2> DEFINE x == Frame("stablehlo", Funcs[f], <<>>, f)
  <2>1. Funcs[f] \in Seq(FuncItems) /\ Funcs[f] \in Seq(FuncItems \cup Jitted)
    BY FuncsAssumption
  <2>2. /\ x \in Frames /\ x.ctx = "stablehlo" /\ x.items = Funcs[f] /\ x.path = <<>> /\ x.of = f
        /\ x.ops = <<>> /\ x.keepalive = {}
    BY <2>1 DEF Frame, Frames
  <2>3. /\ compat' = FALSE /\ stack' = <<x>> /\ outcome' = "none"
        /\ UNCHANGED <<modules, lowered, executables, code>>
    BY <1>3 DEF lower_to_stablehlo
  <2> HIDE DEF x
  <2>4. FrameShape(x, 1, Len(modules'))
    BY <2>1, <2>2 DEF FrameShape
  <2>5. StackShape' /\ stack' \in Seq(Frames)
    BY <1>1, <2>2, <2>3, <2>4, Bottom
  <2>6. LowerTypes'
    BY <2>3, <2>5 DEF LowerTypes
  <2> QED
    BY <2>2, <2>3, <2>5, <2>6 DEF StartsLowering
<1> QED
  BY <1>2, <1>3

-----------------------------------------------------------------------------
(* The tuner.                                                              *)
Grows(mods, mods2, cd, cd2) ==
  /\ Len(mods) \in Nat /\ Len(mods2) \in Nat /\ Len(mods) <= Len(mods2)
  /\ \A m \in 1 .. Len(mods) : mods[m].level = "llvm" => mods2[m].level = "llvm"
  /\ Len(cd) \in Nat /\ Len(cd2) \in Nat /\ Len(cd) <= Len(cd2)
  /\ \A k \in 1 .. Len(cd) : cd2[k] = cd[k]

(* A call of a kernel stays a call of the same kernel when others are made. *)
LEMMA CallsKept ==
  ASSUME NEW ops, NEW config, NEW mods, NEW mods2, NEW cd, NEW cd2, Calls(ops, config, cd),
         Grows(mods, mods2, cd, cd2)
  PROVE  Calls(ops, config, cd2)
BY DEF Calls, Grows

(* The best function stays what it is in a step that neither compiles it   *)
(* nor starts to, unless to compile it again.                              *)
LEMMA BestKept ==
  ASSUME NEW t, NEW mods, NEW mods2, NEW st, NEW st2, NEW exe, NEW exe2, NEW cd, NEW cd2,
         BestRuns(t, mods, st, exe, cd), Grows(mods, mods2, cd, cd2),
         t.best_fun # None /\ t.best_fun \in DOMAIN exe2 =>
           t.best_fun \in DOMAIN exe /\ exe2[t.best_fun] = exe[t.best_fun],
         t.best_fun # None /\ st2 # <<>> /\ st2[1].ctx = "jax" /\ st2[1].of = t.best_fun =>
           Len(st2) = 1 /\ st2[1].items = <<t.best_fun>>
  PROVE  BestRuns(t, mods2, st2, exe2, cd2)
<1> SUFFICES ASSUME t.best_fun # None
             PROVE  /\ t.best_fun[3] \in 1 .. Len(mods2) /\ mods2[t.best_fun[3]].level = "llvm"
                    /\ t.best_fun \in DOMAIN exe2 =>
                         \E i \in 1 .. Len(t.previous) :
                           /\ t.previous[i].time = t.best_time
                           /\ Calls(exe2[t.best_fun].ops, t.previous[i].config, cd2)
  BY DEF BestRuns
<1>1. t.best_fun[3] \in 1 .. Len(mods) /\ mods[t.best_fun[3]].level = "llvm"
  BY DEF BestRuns
<1>2. t.best_fun[3] \in 1 .. Len(mods2) /\ mods2[t.best_fun[3]].level = "llvm"
  BY <1>1 DEF Grows
<1>3. ASSUME t.best_fun \in DOMAIN exe2
      PROVE  \E i \in 1 .. Len(t.previous) :
               /\ t.previous[i].time = t.best_time
               /\ Calls(exe2[t.best_fun].ops, t.previous[i].config, cd2)
  <2>1. PICK i \in 1 .. Len(t.previous) :
          /\ t.previous[i].time = t.best_time
          /\ Calls(exe[t.best_fun].ops, t.previous[i].config, cd)
    BY <1>3 DEF BestRuns
  <2>2. Calls(exe2[t.best_fun].ops, t.previous[i].config, cd)
    BY <1>3, <2>1
  <2>3. Calls(exe2[t.best_fun].ops, t.previous[i].config, cd2)
    BY <2>2, CallsKept
  <2> QED
    BY <2>1, <2>3
<1> QED
  BY <1>2, <1>3

(* Modules and kernels that are added leave the others alone.              *)
LEMMA SameGrows ==
  ASSUME LowerTypes
  PROVE  /\ Grows(modules, modules, code, code)
         /\ \A mod \in Modules : /\ Grows(modules, Append(modules, mod), code, code)
                                 /\ Append(modules, mod) \in Seq(Modules)
                                 /\ Len(Append(modules, mod)) = Len(modules) + 1
                                 /\ Append(modules, mod)[Len(modules) + 1] = mod
         /\ \A k \in Kernels : /\ Grows(modules, modules, code, Append(code, k))
                               /\ Append(code, k)[Len(code) + 1] = k
                               /\ Len(Append(code, k)) = Len(code) + 1
<1>1. modules \in Seq(Modules) /\ code \in Seq(Kernels) /\ Len(modules) \in Nat /\ Len(code) \in Nat
  BY DEF LowerTypes
<1>2. Grows(modules, modules, code, code)
  BY <1>1 DEF Grows
<1>3. ASSUME NEW mod \in Modules
      PROVE  /\ Grows(modules, Append(modules, mod), code, code)
             /\ Append(modules, mod) \in Seq(Modules)
             /\ Len(Append(modules, mod)) = Len(modules) + 1
             /\ Append(modules, mod)[Len(modules) + 1] = mod
  <2>1. \A m \in 1 .. Len(modules) : Append(modules, mod)[m] = modules[m]
    BY <1>1
  <2>2. /\ Append(modules, mod) \in Seq(Modules) /\ Len(Append(modules, mod)) = Len(modules) + 1
        /\ Append(modules, mod)[Len(modules) + 1] = mod
    BY <1>1
  <2> QED
    BY <1>1, <2>1, <2>2 DEF Grows
<1>4. ASSUME NEW k \in Kernels
      PROVE  /\ Grows(modules, modules, code, Append(code, k))
             /\ Append(code, k)[Len(code) + 1] = k
             /\ Len(Append(code, k)) = Len(code) + 1
  <2>1. \A i \in 1 .. Len(code) : Append(code, k)[i] = code[i]
    BY <1>1
  <2>2. Append(code, k)[Len(code) + 1] = k /\ Len(Append(code, k)) = Len(code) + 1
    BY <1>1
  <2> QED
    BY <1>1, <2>1, <2>2 DEF Grows
<1> QED
  BY <1>2, <1>3, <1>4

(* A module that was not LLVM IR changes, or one becomes LLVM IR.          *)
LEMMA ChangedGrows ==
  ASSUME LowerTypes, NEW mod \in Modules, NEW m \in 1 .. Len(modules), NEW mods,
         mods = [modules EXCEPT ![m] = mod]
  PROVE  /\ mods \in Seq(Modules) /\ mods[m] = mod /\ Len(mods) = Len(modules)
         /\ modules[m].level # "llvm" => Grows(modules, mods, code, code)
         /\ mod.level = "llvm" => \A k \in Kernels : Grows(modules, mods, code, Append(code, k))
<1>1. modules \in Seq(Modules) /\ Len(modules) \in Nat
  BY DEF LowerTypes
<1>2. mods \in Seq(Modules) /\ mods[m] = mod /\ Len(mods) = Len(modules)
  BY <1>1
<1>3. \A i \in 1 .. Len(modules) : i # m => mods[i] = modules[i]
  BY <1>1
<1> QED
  BY <1>1, <1>2, <1>3, SameGrows DEF Grows

(* A step of a lowering only adds modules and kernels, and what changes in *)
(* an old module becomes LLVM IR.                                          *)
LEMMA StepGrows ==
  ASSUME LowerTypes, StackShape, LoweringStep
  PROVE  Grows(modules, modules', code, code')
<1>1. CASE LowerOp \/ TagLowering \/ EndTag \/ JitLowering \/ Unwind \/ EndRun
  BY <1>1, SameGrows DEF LowerOp, TagLowering, EndTag, JitLowering, Unwind, EndRun
<1>2. CASE EndJit /\ ~Unwind
  BY <1>2, EndJitEffect, SameGrows
<1>3. CASE JitModule /\ ~Unwind
  <2> DEFINE m == Top.items[1][3]
  <2>1. /\ m \in 1 .. Len(modules)
        /\ \/ UNCHANGED <<modules, code>>
           \/ /\ \E k \in Kernels : code' = Append(code, k)
              /\ \E mod \in Modules : modules' = [modules EXCEPT ![m] = mod] /\ mod.level = "llvm"
    BY <1>3, JitModuleEffect
  <2> HIDE DEF m
  <2>2. CASE UNCHANGED <<modules, code>>
    BY <2>2, SameGrows
  <2>3. CASE /\ \E k \in Kernels : code' = Append(code, k)
             /\ \E mod \in Modules : modules' = [modules EXCEPT ![m] = mod] /\ mod.level = "llvm"
    <3>1. PICK k \in Kernels, mod \in Modules :
            /\ code' = Append(code, k)
            /\ modules' = [modules EXCEPT ![m] = mod] /\ mod.level = "llvm"
      BY <2>3
    <3> QED
      BY <2>1, <3>1, ChangedGrows
  <2> QED
    BY <2>1, <2>2, <2>3
<1>4. CASE EndLowering
  <2>1. /\ \E mod \in Modules : modules' = Append(modules, mod)
        /\ code' = code
    BY <1>4, EndLoweringEffect DEF EndLowering
  <2> QED
    BY <2>1, SameGrows
<1> QED
  BY <1>1, <1>2, <1>3, <1>4 DEF LoweringStep

(* The frame at the bottom stays until the stack is empty.                 *)
LEMMA ExtendingBottom ==
  ASSUME LowerTypes, NEW n \in 1 .. Len(stack), NEW ops, NEW kernels, Extending(n, ops, kernels)
  PROVE  stack'[1].ctx = stack[1].ctx /\ stack'[1].of = stack[1].of
<1>1. PICK x \in Frames : Became(stack, stack', n, x) /\ Extended(stack[n], x, ops, kernels)
  BY DEF Extending
<1>2. CASE n = 1
  BY <1>1, <1>2 DEF Became, Extended
<1>3. CASE n # 1
  <2>1. 1 \in 1 .. n - 1
    BY <1>3 DEF LowerTypes
  <2> QED
    BY <1>1, <2>1 DEF Became
<1> QED
  BY <1>2, <1>3

(* A step of a lowering has a frame to work on.                            *)
LEMMA StepNonEmpty ==
  ASSUME LowerTypes, LoweringStep
  PROVE  stack # <<>>
<1>1. stack \in Seq(Frames)
  BY DEF LowerTypes
<1>2. Len(stack) = 1 => stack # <<>>
  BY <1>1, NonEmpty
<1> QED
  BY <1>2 DEF LoweringStep, LowerOp, TagLowering, EndTag, JitLowering, EndJit, JitModule, EndRun, EndLowering

(* A stack whose frame goes on is not empty.                               *)
LEMMA ExtendingNonEmpty ==
  ASSUME NEW n, NEW ops, NEW kernels, Extending(n, ops, kernels), n \in 1 .. Len(stack), LowerTypes
  PROVE  stack' # <<>>
<1>1. stack' \in Seq(Frames) /\ Len(stack') = n /\ n > 0
  BY DEF Extending, Became, LowerTypes
<1> QED
  BY <1>1, NonEmpty

(* While the stack is not empty its bottom frame stays and the caches do   *)
(* not change.                                                             *)
LEMMA BottomKept ==
  ASSUME LowerTypes, StackShape, LoweringStep, stack' # <<>>
  PROVE  /\ stack # <<>> /\ stack'[1].ctx = stack[1].ctx /\ stack'[1].of = stack[1].of
         /\ UNCHANGED <<lowered, executables>>
<1>1. stack # <<>>
  BY StepNonEmpty
<1>2. Len(stack) \in 1 .. Len(stack)
  BY <1>1, TopParts
<1>3. CASE LowerOp
  BY <1>1, <1>2, <1>3, LowerOpEffect, ExtendingBottom DEF LowerOp
<1>4. CASE TagLowering \/ JitLowering
  <2>1. \E x \in Frames : Became(stack, stack', Len(stack) + 1, x)
    BY <1>4, TagLoweringEffect, JitLoweringEffect
  <2>2. 1 \in 1 .. Len(stack) + 1 - 1
    BY <1>2 DEF LowerTypes
  <2> QED
    BY <1>1, <1>4, <2>1, <2>2 DEF Became, TagLowering, JitLowering
<1>5. CASE EndTag
  BY <1>1, <1>5, EndTagEffect, ExtendingBottom DEF EndTag
<1>6. CASE EndJit /\ ~Unwind
  BY <1>1, <1>6, EndJitEffect, ExtendingBottom
<1>7. CASE JitModule /\ ~Unwind
  BY <1>1, <1>2, <1>7, JitModuleEffect, ExtendingBottom
<1>8. CASE Unwind \/ EndRun \/ EndLowering
  BY <1>8 DEF Unwind, EndRun, EndLowering
<1> QED
  BY <1>3, <1>4, <1>5, <1>6, <1>7, <1>8 DEF LoweringStep

(* A frame that has a module to compile does nothing else.                 *)
LEMMA OnlyJitModule ==
  ASSUME LowerTypes, StackShape, LoweringStep, NEW w \in Jitted, w[3] # 0,
         Len(stack) = 1, stack[1].ctx = "jax", stack[1].items = <<w>>
  PROVE  JitModule /\ Top = stack[1] /\ Top.items[1] = w /\ Next1(Top.items) = <<>>
<1>1. Top = stack[1]
  BY DEF Top
<1>2. Top.items = <<w>> /\ Top.ctx = "jax"
  BY <1>1
<1>3. Top.items[1] = w /\ Top.items # <<>> /\ Next1(Top.items) = <<>>
  BY <1>2 DEF Next1
<1>4. w[1] = "jit"
  BY DEF Jitted
<1> QED
  BY <1>1, <1>2, <1>3, <1>4
     DEF LoweringStep, LowerOp, TagLowering, EndTag, JitLowering, EndJit, EndRun, EndLowering

(* No step of a lowering compiles the best function again: its module is   *)
(* LLVM IR, and the attempt aborts.                                        *)
LEMMA BestStep ==
  ASSUME LowerTypes, StackShape, LoweringStep, NEW t \in Tuners,
         BestRuns(t, modules, stack, executables, code)
  PROVE  BestRuns(t, modules', stack', executables', code')
<1>1. Grows(modules, modules', code, code')
  BY StepGrows
<1>2. ASSUME t.best_fun # None, stack # <<>>, stack[1].ctx = "jax", stack[1].of = t.best_fun
      PROVE  stack' = <<>> /\ UNCHANGED executables
  <2> DEFINE w == t.best_fun
  <2>1. /\ w \in Jitted /\ Len(stack) = 1 /\ stack[1].items = <<w>>
        /\ w[3] \in 1 .. Len(modules) /\ modules[w[3]].level = "llvm" /\ w[3] # 0
    BY <1>2 DEF BestRuns, Tuners
  <2>2. JitModule /\ Top.items[1] = w
    BY <1>2, <2>1, OnlyJitModule
  <2>3. CASE Unwind
    BY <2>3 DEF Unwind
  <2>4. CASE ~Unwind
    BY <2>1, <2>2, <2>4, JitModuleEffect
  <2> QED
    BY <2>3, <2>4
<1>3. ASSUME t.best_fun # None, t.best_fun \in DOMAIN executables'
      PROVE  t.best_fun \in DOMAIN executables /\ executables'[t.best_fun] = executables[t.best_fun]
  <2>1. CASE EndRun
    <3>1. /\ TopResult \in Results /\ Top = stack[1] /\ Top.of \in Works
          /\ executables' = With(executables, Top.of, TopResult)
      BY <2>1, EndRunEffect
    <3>2. stack # <<>>
      BY StepNonEmpty
    <3>3. Top.of # t.best_fun
      <4>1. ASSUME Top.of = t.best_fun
            PROVE  FALSE
        <5>1. stack[1].items = <<t.best_fun>>
          BY <1>3, <2>1, <3>1, <3>2, <4>1 DEF BestRuns, EndRun
        <5>2. stack[1].items = <<>>
          BY <2>1, <3>1 DEF EndRun
        <5> QED
          BY <5>1, <5>2
      <4> QED
        BY <4>1
    <3>4. /\ DOMAIN executables' = DOMAIN executables \cup {Top.of}
          /\ \A y \in DOMAIN executables : y # Top.of => executables'[y] = executables[y]
      BY <3>1 DEF With
    <3> QED
      BY <1>3, <3>3, <3>4
  <2>2. CASE EndLowering
    <3>1. DOMAIN executables' = {}
      BY <2>2, EndLoweringEffect, EmptyTyped
    <3> QED
      BY <1>3, <3>1
  <2>3. CASE ~EndRun /\ ~EndLowering
    <3>1. executables' = executables
      <4>1. CASE Unwind
        BY <4>1 DEF Unwind
      <4>2. CASE ~Unwind
        BY <2>3, <4>2, EndJitEffect, JitModuleEffect
           DEF LoweringStep, LowerOp, TagLowering, EndTag, JitLowering
      <4> QED
        BY <4>1, <4>2
    <3> QED
      BY <1>3, <3>1
  <2> QED
    BY <2>1, <2>2, <2>3
<1>4. ASSUME t.best_fun # None, stack' # <<>>, stack'[1].ctx = "jax", stack'[1].of = t.best_fun
      PROVE  FALSE
  BY <1>2, <1>4, BottomKept
<1> QED
  BY <1>1, <1>3, <1>4, BestKept

(* A step of a lowering takes the tuner from the candidate to compile to   *)
(* the kernel with its configuration.                                      *)
LEMMA PhaseStep ==
  ASSUME LowerTypes, StackShape, LoweringStep, NEW t \in Tuners,
         Phase(t, modules, stack, executables, code, outcome)
  PROVE  Phase(t, modules', stack', executables', code', outcome')
<1>1. stack # <<>>
  BY StepNonEmpty
<1>2. CASE t.step = "lower"
  <2>1. stack[1].ctx = "stablehlo"
    BY <1>1, <1>2 DEF Phase
  <2>2. stack' # <<>> => stack'[1].ctx = "stablehlo"
    BY <2>1, BottomKept
  <2>3. ASSUME stack' = <<>>
        PROVE  outcome' \in {"raised", "crashed"} \/ Fresh(modules')
    <3>1. CASE Unwind
      BY <3>1 DEF Unwind
    <3>2. CASE EndLowering
      <4>1. PICK mod \in Modules : /\ modules' = Append(modules, mod)
                                   /\ mod.schedules = <<>> /\ mod.level = "stablehlo"
        BY <3>2, EndLoweringEffect
      <4>2. Len(modules') = Len(modules) + 1 /\ modules'[Len(modules) + 1] = mod /\ Len(modules) \in Nat
        BY <4>1, SameGrows DEF Grows
      <4> QED
        BY <4>1, <4>2 DEF Fresh
    <3>3. CASE EndRun
      <4>1. stack[1].ctx = "jax"
        BY <3>3, EndRunEffect DEF EndRun
      <4> QED
        BY <2>1, <4>1
    <3>4. CASE JitModule /\ ~Unwind
      <4>1. outcome' = "crashed" \/ \E op \in Ops : Extending(Len(stack), <<op>>, {NewKernel})
        BY <3>4, JitModuleEffect
      <4> QED
        BY <2>3, <4>1, TopParts, <1>1, ExtendingNonEmpty
    <3>5. CASE LowerOp
      BY <2>3, <3>5, LowerOpEffect, TopParts, <1>1, ExtendingNonEmpty
    <3>6. CASE EndTag
      BY <2>3, <3>6, EndTagEffect, ExtendingNonEmpty
    <3>7. CASE EndJit /\ ~Unwind
      BY <2>3, <3>7, EndJitEffect, ExtendingNonEmpty
    <3>8. CASE TagLowering \/ JitLowering
      <4>1. \E x \in Frames : Became(stack, stack', Len(stack) + 1, x)
        BY <3>8, TagLoweringEffect, JitLoweringEffect
      <4>2. Len(stack') = Len(stack) + 1 /\ stack' \in Seq(Frames) /\ Len(stack) \in Nat
        BY <4>1 DEF Became, LowerTypes
      <4> QED
        BY <2>3, <4>2
    <3> QED
      BY <3>1, <3>2, <3>3, <3>4, <3>5, <3>6, <3>7, <3>8 DEF LoweringStep
  <2> QED
    BY <1>2, <2>2, <2>3 DEF Phase
<1>3. CASE t.step = "loop"
  BY <1>1, <1>3 DEF Phase
<1>4. CASE t.step = "timing" /\ ToCompile(t, modules, stack)
  <2> DEFINE w == jit(t.func, Len(modules))
  <2>1. /\ t.func \in FuncNames /\ Len(modules) \in Nat /\ Len(modules) > 0
        /\ Len(modules) \in 1 .. Len(modules)
    BY <1>4 DEF Tuners, LowerTypes, ToCompile
  <2>2. w \in Jitted /\ w[3] = Len(modules) /\ w[3] # 0
    BY <2>1 DEF jit, Jitted
  <2>3. JitModule /\ Top = stack[1] /\ Top.items[1] = w /\ Next1(Top.items) = <<>>
    BY <1>4, <2>2, OnlyJitModule DEF ToCompile
  <2>4. CASE Unwind
    BY <1>4, <2>4 DEF Phase, Unwind
  <2>5. CASE ~Unwind
    <3>1. PICK op \in Ops, k \in Kernels, mod \in Modules :
            /\ Extending(Len(stack), <<op>>, {NewKernel}) /\ op.kernel = NewKernel
            /\ code' = Append(code, k)
            /\ modules[Len(modules)].schedules # <<>> =>
                 k.params = modules[Len(modules)].schedules[1].params
            /\ modules' = [modules EXCEPT ![Len(modules)] = mod] /\ mod.level = "llvm"
      <4>1. Len(modules) = Top.items[1][3] /\ modules[Len(modules)].level # "llvm"
        BY <1>4, <2>2, <2>3 DEF ToCompile
      <4>2. /\ \E op \in Ops : /\ Extending(Len(stack), <<op>>, {NewKernel})
                               /\ op.tags = Top.path /\ op.kernel = NewKernel
            /\ \E k \in Kernels : /\ code' = Append(code, k)
                                  /\ modules[Len(modules)].schedules # <<>> =>
                                       k.params = modules[Len(modules)].schedules[1].params
                                  /\ Same(k, modules[Len(modules)])
            /\ \E mod \in Modules : /\ modules' = [modules EXCEPT ![Len(modules)] = mod]
                                    /\ mod.level = "llvm" /\ modules[Len(modules)].level # "llvm"
                                    /\ Same(mod, modules[Len(modules)])
        BY <2>3, <2>5, <4>1, JitModuleEffect
      <4> QED
        BY <4>2
    <3>2. k.params = t.config
      BY <1>4, <3>1 DEF ToCompile, Schedule
    <3>3. Len(modules') = Len(modules) /\ modules'[Len(modules)] = mod
      BY <2>1, <3>1, ChangedGrows
    <3>4. /\ Len(code') = Len(code) + 1 /\ code'[Len(code) + 1] = k /\ NewKernel = Len(code) + 1
          /\ Len(code) \in Nat
      BY <3>1, SameGrows, NewKernelIs
    <3>5. PICK x \in Frames : Became(stack, stack', 1, x) /\ Extended(stack[1], x, <<op>>, {NewKernel})
      BY <1>4, <3>1 DEF Extending, ToCompile
    <3>6. stack'[1] = x /\ Len(stack') = 1 /\ stack' # <<>>
      BY <3>5, NonEmpty DEF Became
    <3>7. x.items = <<>> /\ x.ops = <<op>> /\ x.ctx = "jax" /\ x.of = w
      BY <1>4, <2>3, <3>5 DEF Extended, ToCompile
    <3>8. Calls(x.ops, t.config, code')
      BY <3>1, <3>2, <3>4, <3>7 DEF Calls
    <3>9. Compiled(t, modules', stack', code')
      BY <2>1, <3>1, <3>3, <3>6, <3>7, <3>8 DEF Compiled
    <3> QED
      BY <1>4, <3>6, <3>9 DEF Phase
  <2> QED
    BY <2>4, <2>5
<1>5. CASE t.step = "timing" /\ Compiled(t, modules, stack, code)
  <2> DEFINE w == jit(t.func, Len(modules))
  <2>1. Top = stack[1] /\ Top.items = <<>> /\ Top.ctx = "jax" /\ Top.of = w
    BY <1>5 DEF Compiled, Top
  <2>2. EndRun
    BY <2>1
       DEF LoweringStep, LowerOp, TagLowering, EndTag, JitLowering, JitModule, EndJit, EndLowering
  <2>3. /\ executables' = With(executables, w, TopResult) /\ stack' = <<>>
        /\ UNCHANGED <<modules, code>>
    BY <2>1, <2>2, EndRunEffect DEF EndRun
  <2>4. executables'[w] = TopResult /\ TopResult.ops = stack[1].ops
    BY <2>1, <2>3 DEF With, TopResult
  <2>5. ToTime(t, modules', executables', code')
    BY <1>5, <2>3, <2>4 DEF ToTime, Compiled
  <2> QED
    BY <1>5, <2>3, <2>5 DEF Phase
<1> QED
  BY <1>1, <1>2, <1>3, <1>4, <1>5 DEF Phase, Tuners

(* A schedule has the parameters it was made with.                         *)
LEMMA ScheduleTyped ==
  ASSUME NEW params \in Seq(Int)
  PROVE  /\ Schedule(params) \in Schedules /\ Schedule(params).params = params
         /\ Schedule(params).meta = FALSE
         /\ Meta(params) \in Schedules /\ Meta(params).params = params /\ Meta(params).meta = TRUE
BY DEF Schedule, Meta, Schedules

(* The module that tune() prints has one schedule, with the default        *)
(* parameters.                                                             *)
LEMMA PreparedIs ==
  ASSUME NEW mod \in Modules, mod.schedules = <<>>
  PROVE  Printed(Prepared(mod)) /\ Same(Prepared(mod), mod)
<1> DEFINE m1 == insert_schedule(mod, Identity)
           m2 == ApplyTransformScript(m1)
           m3 == [m2 EXCEPT !.level = "linalg"]
           m4 == insert_schedule(m3, Schedule(Defaults))
<1>1. m1 \in Modules /\ m1.schedules = <<Identity>>
  <2>1. <<Identity>> \o <<>> = <<Identity>> /\ <<Identity>> \in Seq(Schedules)
    BY IdentityTyped
  <2> QED
    BY <2>1 DEF insert_schedule, Modules
<1>2. m2 \in Modules /\ m2.schedules = <<>>
  <2> HIDE DEF m1
  <2> DEFINE rest == [i \in 1 .. Len(m1.schedules) - 1 |->
                       IF m1.schedules[1].meta
                       THEN ApplyTuningConfig(m1.schedules[i + 1], m1.schedules[1].params)
                       ELSE m1.schedules[i + 1]]
  <2>1. m2 = [m1 EXCEPT !.schedules = rest]
    BY DEF ApplyTransformScript
  <2>2. rest = <<>>
    BY <1>1
  <2> HIDE DEF rest
  <2> QED
    BY <1>1, <2>1, <2>2 DEF Modules
<1> HIDE DEF m2
<1>3. m3 \in Modules /\ m3.schedules = <<>> /\ m3.level = "linalg"
  BY <1>2 DEF Modules
<1> HIDE DEF m3
<1>4. m4 \in Modules /\ m4.schedules = <<Schedule(Defaults)>> /\ m4.level = "linalg"
  <2>1. Schedule(Defaults) \in Schedules
    BY TunerAssumption, ScheduleTyped
  <2>2. /\ <<Schedule(Defaults)>> \o <<>> = <<Schedule(Defaults)>>
        /\ <<Schedule(Defaults)>> \in Seq(Schedules)
    BY <2>1
  <2> QED
    BY <1>3, <2>2 DEF insert_schedule, Modules
<1>5. m4 = Prepared(mod)
  BY DEF Prepared, lower_to_linalg, m3, m2
<1>6. Same(m1, mod)
  BY DEF insert_schedule, Modules, Same
<1>7. Same(m2, m1)
  <2> HIDE DEF m1
  <2> QED
    BY <1>1 DEF ApplyTransformScript, Modules, Same, m2
<1>8. Same(m3, m2)
  BY <1>2 DEF Modules, Same, m3
<1>9. Same(m4, m3)
  BY <1>3 DEF insert_schedule, Modules, Same
<1>10. Same(m4, mod)
  <2> HIDE DEF m1, m4
  <2> QED
    BY <1>6, <1>7, <1>8, <1>9 DEF Same
<1> QED
  BY <1>4, <1>5, <1>10 DEF Printed

(* A round applies its configuration to the parameters of the schedule.    *)
LEMMA AppliedIs ==
  ASSUME NEW p, Printed(p), NEW config \in Seq(Int)
  PROVE  LET mod == apply_schedule(insert_schedule(p, Meta(config))) IN
         /\ mod \in Modules /\ mod.level = "linalg" /\ mod.schedules = <<Schedule(config)>>
         /\ Same(mod, p)
<1> DEFINE m1 == insert_schedule(p, Meta(config))
           m2 == ApplyTransformScript(m1)
<1>1. Schedule(Defaults) \in Schedules /\ Schedule(Defaults).params = Defaults /\ Defaults # <<>>
      /\ Schedule(Defaults).meta = FALSE /\ Schedule(config) \in Schedules
      /\ Meta(config) \in Schedules /\ Meta(config).params = config /\ Meta(config).meta = TRUE
  BY TunerAssumption, ScheduleTyped
<1>2. /\ m1 \in Modules /\ m1.level = "linalg" /\ Len(m1.schedules) = 2
      /\ m1.schedules[1] = Meta(config) /\ m1.schedules[2] = Schedule(Defaults)
      /\ Same(m1, p)
  <2> DEFINE two == <<Meta(config)>> \o <<Schedule(Defaults)>>
  <2>1. two \in Seq(Schedules) /\ Len(two) = 2 /\ two[1] = Meta(config) /\ two[2] = Schedule(Defaults)
    BY <1>1
  <2>2. m1 = [p EXCEPT !.schedules = two] /\ p \in Modules /\ p.level = "linalg"
    BY DEF insert_schedule, Printed
  <2> HIDE DEF two
  <2> QED
    BY <2>1, <2>2 DEF Modules, Same
<1> HIDE DEF m1
<1> DEFINE rest == [i \in 1 .. Len(m1.schedules) - 1 |->
                     IF m1.schedules[1].meta
                     THEN ApplyTuningConfig(m1.schedules[i + 1], m1.schedules[1].params)
                     ELSE m1.schedules[i + 1]]
<1>3. m2 = [m1 EXCEPT !.schedules = rest]
  BY DEF ApplyTransformScript
<1>4. ApplyTuningConfig(Schedule(Defaults), config) = Schedule(config)
  BY <1>1 DEF ApplyTuningConfig
<1>5. rest = [i \in 1 .. 1 |-> Schedule(config)]
  BY <1>1, <1>2, <1>4
<1>6. rest = <<Schedule(config)>> /\ rest \in Seq(Schedules)
  <2> HIDE DEF rest
  <2> QED
    BY <1>1, <1>5
<1> HIDE DEF rest
<1>7. m2 \in Modules /\ m2.level = "linalg" /\ m2.schedules = <<Schedule(config)>>
  BY <1>2, <1>3, <1>6 DEF Modules
<1>8. Same(m2, p)
  BY <1>2, <1>3 DEF Modules, Same
<1> QED
  BY <1>7, <1>8 DEF apply_schedule, m1

(* What is not Nothing is a tuner.                                         *)
LEMMA SomeTuner ==
  ASSUME TunerTypes
  PROVE  /\ tuner # Nothing => tuner \in Tuners
         /\ tuned # Nothing => tuned \in Tuners
BY DEF TunerTypes

(* The calls of the program keep the invariant.                            *)
LEMMA ProgramKeeps ==
  ASSUME JascInv, Program
  PROVE  JascInv'
<1> USE DEF JascInv
<1>1. stack = <<>> /\ tuner = Nothing /\ Idle /\ UNCHANGED <<tuner, tuned>>
  BY DEF Program, Idle
<1>2. TunerTypes'
  BY <1>1 DEF TunerTypes
<1>3. ASSUME NEW f \in Entries, lower_to_stablehlo(f)
      PROVE  JascInv'
  <2>1. f \in FuncNames
    BY TunerAssumption DEF FuncNames
  <2>2. LowerTypes' /\ StackShape'
    BY <1>1, <1>3, <2>1, LowerToStablehloEffect
  <2>3. ASSUME tuned # Nothing
        PROVE  BestRuns(tuned, modules', stack', executables', code')
    <3>1. BestRuns(tuned, modules, stack, executables, code)
      BY <2>3 DEF TunerInv
    <3>2. CASE /\ \E mod \in Modules : modules' = Append(modules, mod)
               /\ executables' = <<>> /\ UNCHANGED <<stack, code>>
      <4>1. Grows(modules, modules', code, code') /\ DOMAIN executables' = {} /\ stack' = <<>>
        BY <1>1, <3>2, SameGrows, EmptyTyped
      <4> QED
        BY <3>1, <4>1, BestKept
    <3>3. CASE \E x \in Frames : StartsLowering(x) /\ x.ctx = "stablehlo"
      <4>1. PICK x \in Frames : StartsLowering(x) /\ x.ctx = "stablehlo"
        BY <3>3
      <4>2. /\ Grows(modules, modules', code, code') /\ executables' = executables
            /\ stack'[1].ctx = "stablehlo"
        BY <4>1, SameGrows DEF StartsLowering
      <4> QED
        BY <3>1, <4>2, BestKept
    <3> QED
      BY <1>1, <1>3, <2>1, <3>2, <3>3, LowerToStablehloEffect
  <2>4. TunerInv'
    BY <1>1, <2>3 DEF TunerInv
  <2> QED
    BY <1>2, <2>2, <2>4
<1>4. ASSUME NEW w \in Works, Run(w), w[1] = "jit" => w[3] \in 0 .. Len(modules)
      PROVE  JascInv'
  <2>1. LowerTypes' /\ StackShape'
    BY <1>1, <1>4, RunEffect
  <2>2. ASSUME tuned # Nothing
        PROVE  BestRuns(tuned, modules', stack', executables', code')
    <3>1. tuned.best_fun # None => tuned.best_fun[1] = "jit"
      BY <2>2, SomeTuner DEF Tuners, Jitted
    <3>2. BestRuns(tuned, modules, stack, executables, code)
      BY <2>2 DEF TunerInv
    <3>3. CASE RunsAgain(w)
      BY <3>2, <3>3 DEF RunsAgain
    <3>4. CASE UsesLowering(w)
      <4>1. Grows(modules, modules', code, code') /\ stack' = <<>> /\ w[1] = "jax"
        BY <1>1, <3>4, SameGrows DEF UsesLowering
      <4>2. /\ DOMAIN executables' = DOMAIN executables \cup {w}
            /\ \A y \in DOMAIN executables : y # w => executables'[y] = executables[y]
        BY <3>4 DEF UsesLowering, With
      <4>3. tuned.best_fun # None => tuned.best_fun # w
        BY <3>1, <4>1
      <4>4. tuned.best_fun # None /\ tuned.best_fun \in DOMAIN executables' =>
              tuned.best_fun \in DOMAIN executables
              /\ executables'[tuned.best_fun] = executables[tuned.best_fun]
        BY <4>2, <4>3
      <4> QED
        BY <3>2, <4>1, <4>4, BestKept
    <3>5. CASE \E x \in Frames : /\ StartsLowering(x) /\ x.ctx = "jax" /\ x.of = w
                                 /\ w[1] = "jit" => x.items = <<w>>
      <4>1. PICK x \in Frames : /\ StartsLowering(x) /\ x.ctx = "jax" /\ x.of = w
                                /\ w[1] = "jit" => x.items = <<w>>
        BY <3>5
      <4>2. Grows(modules, modules', code, code') /\ executables' = executables /\ stack' = <<x>>
        BY <4>1, SameGrows DEF StartsLowering
      <4>3. Len(stack') = 1 /\ stack'[1] = x
        BY <4>2
      <4>4. tuned.best_fun # None /\ x.of = tuned.best_fun => x.items = <<tuned.best_fun>>
        BY <3>1, <4>1
      <4> QED
        BY <3>2, <4>2, <4>3, <4>4, BestKept
    <3> QED
      BY <1>1, <1>4, <3>3, <3>4, <3>5, RunEffect
  <2>3. TunerInv'
    BY <1>1, <2>2 DEF TunerInv
  <2> QED
    BY <1>2, <2>1, <2>3
<1>5. ASSUME NEW f \in Entries, Run(Jax(f)) \/ Run(jit(f, 0))
      PROVE  JascInv'
  <2>1. f \in FuncNames /\ Len(modules) \in Nat
    BY TunerAssumption DEF FuncNames, LowerTypes
  <2>2. Jax(f) \in Works /\ Jax(f)[1] = "jax"
    BY <2>1 DEF Jax, Works
  <2>3. jit(f, 0) \in Works /\ jit(f, 0)[3] \in 0 .. Len(modules)
    BY <2>1 DEF jit, Works, Jitted
  <2>4. CASE Run(Jax(f))
    BY <1>4, <2>2, <2>4
  <2>5. CASE Run(jit(f, 0))
    BY <1>4, <2>3, <2>5
  <2> QED
    BY <1>5, <2>4, <2>5
<1>6. ASSUME tuned # Nothing, tuned.best_fun # None, Run(tuned.best_fun)
      PROVE  JascInv'
  <2>1. tuned.best_fun \in Works
    BY <1>6, SomeTuner DEF Tuners, Works
  <2>2. tuned.best_fun[3] \in 1 .. Len(modules)
    BY <1>6 DEF TunerInv, BestRuns
  <2>3. tuned.best_fun[3] \in 0 .. Len(modules)
    BY <2>2 DEF LowerTypes
  <2> QED
    BY <1>4, <1>6, <2>1, <2>3
<1> QED
  BY <1>3, <1>5, <1>6 DEF Program

(* The start of tune() keeps the invariant.                                *)
LEMMA StartTuningKeeps ==
  ASSUME JascInv, NEW f \in Entries, StartTuning(f)
  PROVE  JascInv'
<1> USE DEF JascInv
<1>1. stack = <<>> /\ Idle /\ tuner' = Tuning(f) /\ UNCHANGED tuned /\ lower_to_stablehlo(f)
      /\ f \in FuncNames
  BY TunerAssumption DEF StartTuning, Idle, FuncNames
<1>2. LowerTypes' /\ StackShape'
  BY <1>1, LowerToStablehloEffect
<1>3. /\ Tuning(f) \in Tuners /\ Tuning(f).step = "lower" /\ Tuning(f).previous = <<>>
      /\ Tuning(f).best_fun = None /\ Tuning(f).best_time = Infinity
  BY <1>1 DEF Tuning, Tuners, None, Infinity
<1>4. TunerTypes'
  BY <1>1, <1>3 DEF TunerTypes
<1>5. \/ /\ \E mod \in Modules : /\ modules' = Append(modules, mod)
                                 /\ mod.schedules = <<>> /\ mod.level = "stablehlo"
         /\ executables' = <<>> /\ UNCHANGED <<stack, code>>
      \/ \E x \in Frames : StartsLowering(x) /\ x.ctx = "stablehlo"
  BY <1>1, LowerToStablehloEffect
<1>6. /\ Grows(modules, modules', code, code')
      /\ stack' # <<>> => stack'[1].ctx = "stablehlo"
      /\ DOMAIN executables' = {} \/ executables' = executables
      /\ stack' = <<>> => Fresh(modules')
  <2>1. CASE /\ \E mod \in Modules : /\ modules' = Append(modules, mod)
                                     /\ mod.schedules = <<>> /\ mod.level = "stablehlo"
             /\ executables' = <<>> /\ UNCHANGED <<stack, code>>
    <3>1. PICK mod \in Modules : /\ modules' = Append(modules, mod)
                                 /\ mod.schedules = <<>> /\ mod.level = "stablehlo"
      BY <2>1
    <3>2. /\ Grows(modules, modules', code, code') /\ Len(modules') = Len(modules) + 1
          /\ modules'[Len(modules) + 1] = mod /\ Len(modules) \in Nat
      BY <2>1, <3>1, SameGrows DEF Grows
    <3> QED
      BY <1>1, <2>1, <3>1, <3>2, EmptyTyped DEF Fresh
  <2>2. CASE \E x \in Frames : StartsLowering(x) /\ x.ctx = "stablehlo"
    <3>1. PICK x \in Frames : StartsLowering(x) /\ x.ctx = "stablehlo"
      BY <2>2
    <3>2. stack' = <<x>> /\ modules' = modules /\ code' = code /\ executables' = executables
      BY <3>1 DEF StartsLowering
    <3>3. stack' # <<>> /\ stack'[1] = x
      BY <3>2
    <3> QED
      BY <3>1, <3>2, <3>3, SameGrows
  <2> QED
    BY <1>5, <2>1, <2>2
<1>7. ASSUME tuned # Nothing
      PROVE  BestRuns(tuned, modules', stack', executables', code')
  <2>1. BestRuns(tuned, modules, stack, executables, code)
    BY <1>7 DEF TunerInv
  <2> QED
    BY <1>6, <2>1, BestKept
<1>8. /\ Phase(tuner', modules', stack', executables', code', outcome')
      /\ Least(tuner') /\ BestRuns(tuner', modules', stack', executables', code')
  <2>1. Infinity <= Infinity /\ \A i \in 1 .. Len(<<>>) : FALSE
    BY DEF Infinity
  <2> QED
    BY <1>1, <1>3, <1>6, <2>1 DEF Phase, Least, BestRuns
<1>9. TunerInv'
  BY <1>1, <1>7, <1>8 DEF TunerInv
<1> QED
  BY <1>2, <1>4, <1>9

(* A tune() that raises keeps the invariant.                               *)
LEMMA AbortedKeeps ==
  ASSUME JascInv, Aborted
  PROVE  JascInv'
BY DEF JascInv, Aborted, lvars, LowerTypes, StackShape, TunerTypes, TunerInv

(* The preparation of the module keeps the invariant.                      *)
LEMMA PrepareModuleKeeps ==
  ASSUME JascInv, PrepareModule
  PROVE  JascInv'
<1> USE DEF JascInv
<1>1. CASE outcome = "raised"
  BY <1>1, AbortedKeeps DEF PrepareModule
<1>2. CASE outcome # "raised"
  <2> DEFINE n == Len(modules)
             mod == Prepared(modules[n])
  <2>1. /\ stack = <<>> /\ outcome # "crashed" /\ tuner \in Tuners /\ tuner # Nothing
        /\ tuner.step = "lower"
    BY SomeTuner DEF PrepareModule, Idle
  <2>2. /\ modules' = [modules EXCEPT ![n] = mod]
        /\ tuner' = [tuner EXCEPT !.step = "loop", !.printed = mod]
        /\ UNCHANGED <<compat, stack, lowered, executables, code, outcome, tuned>>
    BY <1>2 DEF PrepareModule
  <2>3. /\ tuner.previous = <<>> /\ tuner.best_fun = None /\ tuner.best_time = Infinity
        /\ Fresh(modules)
    BY <1>2, <2>1 DEF TunerInv, Phase
  <2>4. n \in 1 .. Len(modules) /\ modules[n] \in Modules /\ modules[n].schedules = <<>>
        /\ modules[n].level # "llvm"
    BY <2>3 DEF Fresh, LowerTypes
  <2>5. Printed(mod) /\ mod \in Modules
    BY <2>4, PreparedIs DEF Printed
  <2> HIDE DEF mod, n
  <2>6. modules' \in Seq(Modules) /\ Len(modules') = Len(modules) /\ Grows(modules, modules', code, code')
    BY <2>2, <2>4, <2>5, ChangedGrows
  <2>7. LowerTypes' /\ StackShape'
    BY <2>1, <2>2, <2>6, EmptyShape DEF LowerTypes
  <2>8. /\ tuner' \in Tuners /\ tuner'.step = "loop" /\ tuner'.printed = mod
        /\ tuner'.previous = <<>> /\ tuner'.best_fun = None /\ tuner'.best_time = Infinity
    BY <2>1, <2>2, <2>3, <2>5 DEF Tuners
  <2>9. TunerTypes'
    BY <2>2, <2>8 DEF TunerTypes
  <2>10. ASSUME tuned # Nothing
         PROVE  BestRuns(tuned, modules', stack', executables', code')
    <3>1. BestRuns(tuned, modules, stack, executables, code)
      BY <2>10 DEF TunerInv
    <3>2. executables' = executables /\ stack' = <<>>
      BY <2>1, <2>2
    <3> QED
      BY <2>6, <3>1, <3>2, BestKept
  <2>11. /\ Phase(tuner', modules', stack', executables', code', outcome')
         /\ Least(tuner') /\ BestRuns(tuner', modules', stack', executables', code')
    <3>1. Infinity <= Infinity /\ \A i \in 1 .. Len(<<>>) : FALSE
      BY DEF Infinity
    <3> QED
      BY <2>1, <2>2, <2>5, <2>8, <3>1 DEF Phase, Least, BestRuns
  <2>12. TunerInv'
    BY <2>2, <2>10, <2>11 DEF TunerInv
  <2> QED
    BY <2>7, <2>9, <2>12
<1> QED
  BY <1>1, <1>2

(* get_tuning_config returns a configuration.                              *)
LEMMA ConfigTyped ==
  ASSUME NEW t \in Tuners, Printed(t.printed)
  PROVE  get_tuning_config(get_tuning_vars(t.printed), t.previous) \in Seq(Int)
<1>1. CASE t.previous = <<>>
  <2>1. Defaults \in Seq(Int)
    BY TunerAssumption
  <2>2. t.printed.schedules[1] = Schedule(Defaults)
    BY DEF Printed
  <2>3. t.printed.schedules[1].params = Defaults
    BY <2>1, <2>2, ScheduleTyped
  <2> QED
    BY <1>1, <2>1, <2>3 DEF get_tuning_config, get_tuning_vars
<1>2. CASE t.previous # <<>>
  <2> DEFINE c == t.previous[Len(t.previous)].config
  <2>1. t.previous \in Seq([config : Seq(Int), time : Nat])
    BY DEF Tuners
  <2>2. c \in Seq(Int)
    <3>1. Len(t.previous) \in 1 .. Len(t.previous)
      BY <1>2, <2>1, NonEmpty
    <3>2. t.previous[Len(t.previous)] \in [config : Seq(Int), time : Nat]
      BY <2>1, <3>1, ElementOfSeq
    <3> QED
      BY <3>2
  <2> HIDE DEF c
  <2>3. [i \in DOMAIN c |-> c[i] + 1] \in Seq(Int)
    <3>1. DOMAIN c = 1 .. Len(c) /\ Len(c) \in Nat /\ \A i \in 1 .. Len(c) : c[i] \in Int
      BY <2>2
    <3>2. [i \in DOMAIN c |-> c[i] + 1] \in [1 .. Len(c) -> Int]
      BY <3>1
    <3> QED
      BY <3>1, <3>2, SeqDef
  <2> QED
    BY <1>2, <2>3 DEF get_tuning_config, c
<1> QED
  BY <1>1, <1>2

(* The start of a round keeps the invariant: the candidate is a new module. *)
LEMMA RoundKeeps ==
  ASSUME JascInv, Round
  PROVE  JascInv'
<1> USE DEF JascInv
<1>1. /\ stack = <<>> /\ tuner \in Tuners /\ tuner # Nothing /\ tuner.step = "loop"
      /\ Printed(tuner.printed) /\ tuner.func \in FuncNames
  BY SomeTuner DEF Round, Idle, TunerInv, Phase, Tuners
<1>2. PICK config \in OtherConfigs \cup {get_tuning_config(get_tuning_vars(tuner.printed), tuner.previous)} :
        LET mod == insert_schedule(Parsed, Meta(config))
            w == jit(tuner.func, Len(modules) + 1)
        IN IF ScheduleFails(mod) THEN Aborted
           ELSE /\ modules' = Append(modules, apply_schedule(mod))
                /\ stack' = <<Frame("jax", <<w>>, <<>>, w)>>
                /\ outcome' = "none"
                /\ tuner' = [tuner EXCEPT !.step = "timing", !.config = config]
                /\ UNCHANGED <<compat, lowered, executables, code, calls, tuned>>
  BY DEF Round
<1>3. config \in Seq(Int)
  BY <1>1, <1>2, ConfigTyped, TunerAssumption
<1>4. CASE Aborted
  BY <1>4, AbortedKeeps
<1>5. CASE ~Aborted
  <2> DEFINE mod == apply_schedule(insert_schedule(tuner.printed, Meta(config)))
             w == jit(tuner.func, Len(modules) + 1)
             x == Frame("jax", <<w>>, <<>>, w)
  <2>1. /\ modules' = Append(modules, mod) /\ stack' = <<x>> /\ outcome' = "none"
        /\ tuner' = [tuner EXCEPT !.step = "timing", !.config = config]
        /\ UNCHANGED <<compat, lowered, executables, code, tuned>>
    BY <1>2, <1>5 DEF Parsed
  <2>2. mod \in Modules /\ mod.level = "linalg" /\ mod.schedules = <<Schedule(config)>>
    BY <1>1, <1>3, AppliedIs
  <2> HIDE DEF mod
  <2>3. /\ modules' \in Seq(Modules) /\ Len(modules') = Len(modules) + 1 /\ Len(modules) \in Nat
        /\ modules'[Len(modules) + 1] = mod /\ Grows(modules, modules', code, code')
    BY <2>1, <2>2, SameGrows DEF Grows
  <2>4. w \in Jitted /\ w \in Works /\ w[3] = Len(modules) + 1
    BY <1>1, <2>3 DEF jit, Jitted, Works
  <2>5. w = jit(tuner.func, Len(modules'))
    BY <2>3
  <2> HIDE DEF w
  <2>6. <<w>> \in Seq(FuncItems \cup Jitted)
    BY <2>4
  <2>7. x \in Frames /\ x.ctx = "jax" /\ x.items = <<w>> /\ x.ops = <<>> /\ x.of = w
    BY <2>4, <2>6 DEF Frame, Frames
  <2> HIDE DEF x
  <2>8. FrameShape(x, 1, Len(modules'))
    <3>1. \E f \in FuncNames, m \in 1 .. Len(modules') : x.items = <<jit(f, m)>>
      BY <1>1, <2>3, <2>5, <2>7
    <3> QED
      BY <2>4, <2>7, <3>1 DEF FrameShape
  <2>9. StackShape' /\ stack' \in Seq(Frames)
    BY <1>1, <2>1, <2>3, <2>7, <2>8, Bottom
  <2>10. LowerTypes'
    BY <2>1, <2>3, <2>9 DEF LowerTypes
  <2>11. /\ tuner' \in Tuners /\ tuner'.step = "timing" /\ tuner'.config = config
         /\ tuner'.printed = tuner.printed /\ tuner'.previous = tuner.previous
         /\ tuner'.best_time = tuner.best_time /\ tuner'.best_fun = tuner.best_fun
         /\ tuner'.func = tuner.func
    BY <1>1, <1>3, <2>1 DEF Tuners
  <2>12. TunerTypes'
    BY <2>1, <2>11 DEF TunerTypes
  <2>13. stack' # <<>> /\ Len(stack') = 1 /\ stack'[1] = x
    BY <2>1
  <2>14. ASSUME NEW t, BestRuns(t, modules, stack, executables, code)
         PROVE  BestRuns(t, modules', stack', executables', code')
    <3>1. t.best_fun # None => t.best_fun # w
      BY <2>3, <2>4, <2>14 DEF BestRuns
    <3> QED
      BY <2>1, <2>3, <2>7, <2>13, <2>14, <3>1, BestKept
  <2>15. Phase(tuner', modules', stack', executables', code', outcome')
    <3>1. ToCompile(tuner', modules', stack')
      BY <2>2, <2>3, <2>5, <2>7, <2>11, <2>13 DEF ToCompile
    <3> QED
      BY <1>1, <2>11, <2>13, <3>1 DEF Phase
  <2>16. Least(tuner') /\ BestRuns(tuner', modules', stack', executables', code')
    <3>1. Least(tuner) /\ BestRuns(tuner, modules, stack, executables, code)
      BY <1>1 DEF TunerInv
    <3>2. BestRuns(tuner, modules', stack', executables', code')
      BY <2>14, <3>1
    <3> QED
      BY <2>11, <3>1, <3>2 DEF Least, BestRuns
  <2>17. tuned # Nothing => Least(tuned) /\ BestRuns(tuned, modules', stack', executables', code')
    BY <2>14 DEF TunerInv
  <2>18. TunerInv'
    BY <2>1, <2>15, <2>16, <2>17 DEF TunerInv
  <2> QED
    BY <2>9, <2>10, <2>12, <2>18
<1> QED
  BY <1>4, <1>5

(* The record of a time keeps the best one and the function that was timed *)
(* with it.                                                                *)
LEMMA RecordKeeps ==
  ASSUME JascInv, Idle, tuner # Nothing, tuner.step = "timing", NEW time \in Nat, Record(time),
         outcome = "raised" => time = Infinity
  PROVE  JascInv'
<1> USE DEF JascInv
<1> DEFINE best == time < Infinity /\ time < tuner.best_time
           w == jit(tuner.func, Len(modules))
           r == [config |-> tuner.config, time |-> time]
           s == tuner.previous
<1>1. /\ stack = <<>> /\ outcome # "crashed" /\ tuner \in Tuners
      /\ UNCHANGED lvars /\ tuned' = tuned
  BY SomeTuner DEF Idle, Record
<1>2. /\ tuner' = [tuner EXCEPT !.step = "loop", !.previous = Append(s, r),
                                !.best_time = IF best THEN time ELSE tuner.best_time,
                                !.best_fun = IF best THEN w ELSE tuner.best_fun,
                                !.best_schedule = IF best THEN <<"config">> ELSE tuner.best_schedule]
  BY DEF Record, IsBest
<1>3. /\ tuner.func \in FuncNames /\ tuner.config \in Seq(Int) /\ tuner.best_time \in Nat
      /\ s \in Seq([config : Seq(Int), time : Nat]) /\ tuner.best_fun \in Jitted \cup {None}
      /\ tuner.best_schedule \in Seq({"config"}) /\ tuner.printed \in Modules \cup {<<>>}
  BY <1>1 DEF Tuners
<1>4. Len(modules) \in Nat /\ w \in Jitted /\ w[3] = Len(modules)
  BY <1>3 DEF LowerTypes, jit, Jitted
<1>5. r \in [config : Seq(Int), time : Nat] /\ r.time = time /\ r.config = tuner.config
  BY <1>3
<1> HIDE DEF r, w, s
<1>6. /\ Append(s, r) \in Seq([config : Seq(Int), time : Nat]) /\ Len(Append(s, r)) = Len(s) + 1
      /\ Len(s) \in Nat /\ Append(s, r)[Len(s) + 1] = r
      /\ \A i \in 1 .. Len(s) : Append(s, r)[i] = s[i]
  BY <1>3, <1>5
<1>7. /\ tuner' \in Tuners /\ tuner'.step = "loop" /\ tuner'.previous = Append(s, r)
      /\ tuner'.best_time = (IF best THEN time ELSE tuner.best_time)
      /\ tuner'.best_fun = (IF best THEN w ELSE tuner.best_fun)
      /\ tuner'.printed = tuner.printed
  <2> DEFINE bt == IF best THEN time ELSE tuner.best_time
             bf == IF best THEN w ELSE tuner.best_fun
             bs == IF best THEN <<"config">> ELSE tuner.best_schedule
             ps == Append(s, r)
  <2>1. bt \in Nat /\ bf \in Jitted \cup {None} /\ bs \in Seq({"config"})
    <3>1. <<"config">> \in Seq({"config"})
      OBVIOUS
    <3>2. bs \in Seq({"config"})
      BY <1>3, <3>1, Zenon
    <3>3. bt \in Nat
      BY <1>3, Zenon
    <3>4. bf \in Jitted \cup {None}
      BY <1>3, <1>4, Zenon
    <3> QED
      BY <3>2, <3>3, <3>4
  <2>2. ps \in Seq([config : Seq(Int), time : Nat])
    BY <1>6
  <2>3. tuner' = [tuner EXCEPT !.step = "loop", !.previous = ps, !.best_time = bt,
                               !.best_fun = bf, !.best_schedule = bs]
    BY <1>2
  <2> HIDE DEF bt, bf, bs, ps
  <2>4. tuner' \in Tuners
    BY <1>1, <2>1, <2>2, <2>3 DEF Tuners
  <2>5. /\ tuner'.step = "loop" /\ tuner'.previous = ps /\ tuner'.best_time = bt
        /\ tuner'.best_fun = bf /\ tuner'.printed = tuner.printed
    BY <1>1, <2>3 DEF Tuners
  <2> QED
    BY <2>4, <2>5 DEF bt, bf, ps
<1>8. LowerTypes' /\ StackShape' /\ TunerTypes'
  BY <1>1, <1>7 DEF LowerTypes, StackShape, TunerTypes, lvars
<1>9. /\ Phase(tuner, modules, stack, executables, code, outcome)
      /\ Least(tuner) /\ BestRuns(tuner, modules, stack, executables, code)
  BY DEF TunerInv
<1>10. Phase(tuner', modules', stack', executables', code', outcome')
  BY <1>1, <1>7, <1>9 DEF Phase, lvars
<1>11. Least(tuner')
  <2>1. tuner.best_time <= Infinity /\ \A i \in 1 .. Len(s) : tuner.best_time <= s[i].time
    BY <1>9 DEF Least, s
  <2>2. tuner'.best_time <= tuner.best_time /\ tuner'.best_time <= time /\ tuner'.best_time \in Nat
    BY <1>3, <1>7, <2>1 DEF Infinity
  <2>3. ASSUME NEW i \in 1 .. Len(s)
        PROVE  s[i].time \in Nat
    <3>1. s[i] \in [config : Seq(Int), time : Nat]
      BY <1>3, ElementOfSeq
    <3> QED
      BY <3>1
  <2>4. \A i \in 1 .. Len(s) + 1 : tuner'.best_time <= Append(s, r)[i].time
    <3> TAKE i \in 1 .. Len(s) + 1
    <3>1. CASE i = Len(s) + 1
      BY <1>5, <1>6, <2>2, <3>1
    <3>2. CASE i # Len(s) + 1
      <4>1. i \in 1 .. Len(s)
        BY <1>6, <3>2
      <4>2. tuner.best_time <= s[i].time /\ s[i].time \in Nat /\ Append(s, r)[i] = s[i]
        BY <1>6, <2>1, <2>3, <4>1
      <4>3. tuner'.best_time <= s[i].time
        BY <1>3, <2>2, <4>2, SMTT(20)
      <4> QED
        BY <4>2, <4>3
    <3> QED
      BY <3>1, <3>2
  <2>5. tuner'.best_time <= Infinity
    BY <1>3, <2>1, <2>2 DEF Infinity
  <2> QED
    BY <1>6, <1>7, <2>4, <2>5 DEF Least
<1>12. BestRuns(tuner', modules, stack, executables, code)
  <2>1. CASE best
    <3>1. outcome # "raised"
      BY <2>1 DEF Infinity
    <3>2. ToTime(tuner, modules, executables, code)
      BY <1>1, <1>9, <3>1 DEF Phase
    <3>3. w[3] \in 1 .. Len(modules) /\ modules[w[3]].level = "llvm"
      BY <1>4, <3>2 DEF ToTime
    <3>4. w \in DOMAIN executables => Calls(executables[w].ops, tuner.config, code)
      BY <3>2 DEF ToTime, w
    <3>5. Len(s) + 1 \in 1 .. Len(Append(s, r))
      BY <1>6
    <3> QED
      BY <1>1, <1>5, <1>6, <1>7, <2>1, <3>3, <3>4, <3>5, SMTT(20) DEF BestRuns
  <2>2. CASE ~best
    <3>1. tuner'.best_fun = tuner.best_fun /\ tuner'.best_time = tuner.best_time
      BY <1>7, <2>2
    <3>2. ASSUME NEW i \in 1 .. Len(s)
          PROVE  i \in 1 .. Len(Append(s, r)) /\ Append(s, r)[i] = s[i]
      BY <1>6
    <3> QED
      BY <1>7, <1>9, <3>1, <3>2 DEF BestRuns, s
  <2> QED
    BY <2>1, <2>2
<1>13. TunerInv'
  <2>1. tuned # Nothing => Least(tuned) /\ BestRuns(tuned, modules, stack, executables, code)
    BY DEF TunerInv
  <2> QED
    BY <1>1, <1>10, <1>11, <1>12, <2>1 DEF TunerInv, lvars
<1> QED
  BY <1>8, <1>13

(* The end of a round keeps the invariant.                                 *)
LEMMA TimedKeeps ==
  ASSUME JascInv, Timed
  PROVE  JascInv'
<1>1. CASE outcome = "raised"
  <2>1. Infinity \in Nat
    BY DEF Infinity
  <2> QED
    BY <1>1, <2>1, RecordKeeps DEF Timed
<1>2. CASE outcome # "raised"
  BY <1>2, RecordKeeps, TunerAssumption DEF Timed
<1> QED
  BY <1>1, <1>2

(* The end of tune() keeps the invariant.                                  *)
LEMMA ReturnTunedKeeps ==
  ASSUME JascInv, ReturnTuned
  PROVE  JascInv'
BY DEF JascInv, ReturnTuned, lvars, LowerTypes, StackShape, TunerTypes, TunerInv

(* The steps of a lowering keep the invariant.                             *)
LEMMA LoweringStepKeeps ==
  ASSUME JascInv, LoweringStep, UNCHANGED <<tuner, tuned>>
  PROVE  JascInv'
<1> USE DEF JascInv
<1>1. LowerTypes' /\ StackShape'
  BY LoweringStepTypes
<1>2. TunerTypes'
  BY DEF TunerTypes
<1>3. ASSUME tuner # Nothing
      PROVE  /\ Phase(tuner, modules', stack', executables', code', outcome')
             /\ Least(tuner) /\ BestRuns(tuner, modules', stack', executables', code')
  BY <1>3, SomeTuner, PhaseStep, BestStep DEF TunerInv
<1>4. ASSUME tuned # Nothing
      PROVE  Least(tuned) /\ BestRuns(tuned, modules', stack', executables', code')
  BY <1>4, SomeTuner, BestStep DEF TunerInv
<1>5. TunerInv'
  BY <1>3, <1>4 DEF TunerInv
<1> QED
  BY <1>1, <1>2, <1>5

(* The invariant holds initially.                                          *)
LEMMA JascInvInit == Init => JascInv
<1> SUFFICES ASSUME Init
             PROVE  JascInv
  OBVIOUS
<1> USE DEF Init, LoweringInit
<1>1. LowerTypes
  BY EmptyTyped DEF LowerTypes
<1>2. StackShape
  BY DEF StackShape
<1>3. TunerTypes /\ TunerInv
  BY DEF TunerTypes, TunerInv
<1> QED
  BY <1>1, <1>2, <1>3 DEF JascInv

(* Every step keeps the invariant.                                         *)
LEMMA JascInvNext ==
  ASSUME JascInv, [Next]_vars
  PROVE  JascInv'
<1>1. CASE UNCHANGED vars
  BY <1>1 DEF vars, lvars, JascInv, LowerTypes, StackShape, TunerTypes, TunerInv
<1>2. CASE Program
  BY <1>2, ProgramKeeps
<1>3. CASE \E f \in Entries : StartTuning(f)
  BY <1>3, StartTuningKeeps
<1>4. CASE LoweringStep /\ UNCHANGED <<tuner, tuned>>
  BY <1>4, LoweringStepKeeps
<1>5. CASE PrepareModule
  BY <1>5, PrepareModuleKeeps
<1>6. CASE Round
  BY <1>6, RoundKeeps
<1>7. CASE Timed
  BY <1>7, TimedKeeps
<1>8. CASE ReturnTuned
  BY <1>8, ReturnTunedKeeps
<1>9. CASE Over
  BY <1>1, <1>9 DEF Over
<1> QED
  BY <1>1, <1>2, <1>3, <1>4, <1>5, <1>6, <1>7, <1>8, <1>9 DEF Next

(* The invariant always holds.                                             *)
LEMMA JascInvAlways == Spec => []JascInv
<1>1. Init => JascInv
  BY JascInvInit
<1>2. JascInv /\ [Next]_vars => JascInv'
  BY JascInvNext
<1> QED
  BY <1>1, <1>2, PTL DEF Spec

(* Whatever the program runs, lowers and compiles in between, tune()       *)
(* returns the least of the times, and the function it returns runs a      *)
(* kernel with the parameters that were timed.                             *)
THEOREM TunedAlways == Spec => []TunedIsBest
<1>1. JascInv => TunedIsBest
  <2> SUFFICES ASSUME JascInv, tuned # Nothing
               PROVE  /\ \A i \in DOMAIN tuned.previous : tuned.best_time <= tuned.previous[i].time
                      /\ tuned.best_fun \in DOMAIN executables =>
                           LET k == executables[tuned.best_fun].ops[1].kernel IN
                           \E i \in DOMAIN tuned.previous :
                             /\ tuned.previous[i].time = tuned.best_time
                             /\ tuned.previous[i].config = code[k].params
    BY DEF TunedIsBest
  <2>1. tuned \in Tuners /\ tuned.previous \in Seq([config : Seq(Int), time : Nat])
    BY SomeTuner DEF JascInv, Tuners
  <2>2. DOMAIN tuned.previous = 1 .. Len(tuned.previous)
    BY <2>1
  <2>3. Least(tuned) /\ BestRuns(tuned, modules, stack, executables, code)
    BY DEF JascInv, TunerInv
  <2>4. tuned.best_fun \in DOMAIN executables => tuned.best_fun # None
    <3>1. tuned.best_fun \in DOMAIN executables => tuned.best_fun[1] \in {"jax", "jit"} /\ tuned.best_fun \in Works
      BY WorkParts DEF JascInv, LowerTypes
    <3>2. None \notin Works
      BY DEF None, Works, Jitted
    <3> QED
      BY <3>1, <3>2
  <2> QED
    BY <2>2, <2>3, <2>4 DEF Least, BestRuns, Calls
<1> QED
  BY <1>1, JascInvAlways, PTL

-----------------------------------------------------------------------------
(* Tags and kernels.                                                       *)
LEMMA InJascIs ==
  ASSUME LowerTypes
  PROVE  InJasc <=> ForJasc(stack)
<1>1. DOMAIN stack = 1 .. Len(stack)
  BY DEF LowerTypes
<1> QED
  BY <1>1 DEF InJasc, ForJasc

(* Ops without tags, and ops whose kernels are kept alive, stay so         *)
(* together.                                                               *)
LEMMA JoinedSafe ==
  ASSUME NEW a \in Seq(Ops), NEW b \in Seq(Ops), NEW c, NEW k, Keeps(a, c), Keeps(b, k)
  PROVE  /\ Keeps(a \o b, c \cup k)
         /\ NoTags(a) /\ NoTags(b) => NoTags(a \o b)
<1>1. Len(a) \in Nat /\ Len(b) \in Nat
  OBVIOUS
<1>2. \A i \in 1 .. Len(a \o b) : \/ i \in 1 .. Len(a) /\ (a \o b)[i] = a[i]
                                  \/ i - Len(a) \in 1 .. Len(b) /\ (a \o b)[i] = b[i - Len(a)]
  BY Joined
<1> DEFINE ab == a \o b
<1> HIDE DEF ab
<1>3. \A i \in 1 .. Len(ab) : \/ i \in 1 .. Len(a) /\ ab[i] = a[i]
                              \/ i - Len(a) \in 1 .. Len(b) /\ ab[i] = b[i - Len(a)]
  BY <1>2 DEF ab
<1>4. Keeps(ab, c \cup k)
  BY <1>3 DEF Keeps
<1>5. NoTags(a) /\ NoTags(b) => NoTags(ab)
  BY <1>3 DEF NoTags
<1> QED
  BY <1>4, <1>5 DEF ab

(* A step that leaves the frames below alone is safe when the new top is.  *)
LEMMA BecameSafe ==
  ASSUME LowerTypes, \A i \in 1 .. Len(stack) : FrameSafe(stack, i),
         NEW n \in 1 .. Len(stack) + 1, NEW x, Became(stack, stack', n, x),
         ForJax(stack', n) => x.path = <<>> /\ NoTags(x.ops), Keeps(x.ops, x.keepalive)
  PROVE  \A i \in 1 .. Len(stack') : FrameSafe(stack', i)
<1> TAKE i \in 1 .. Len(stack')
<1>1. Len(stack) \in Nat /\ Len(stack') = n
  BY DEF LowerTypes, Became
<1>2. CASE i = n
  BY <1>2 DEF FrameSafe, Became
<1>3. CASE i # n
  <2>1. i \in 1 .. n - 1 /\ i \in 1 .. Len(stack)
    BY <1>1, <1>3
  <2>2. \A j \in 1 .. i : stack'[j] = stack[j]
    BY <1>1, <2>1 DEF Became
  <2>3. stack'[i] = stack[i] /\ (ForJax(stack', i) <=> ForJax(stack, i))
    BY <2>1, <2>2 DEF ForJax
  <2> QED
    BY <2>1, <2>3 DEF FrameSafe
<1> QED
  BY <1>2, <1>3

(* A frame goes on with ops that are safe for it.                          *)
LEMMA ExtendingSafe ==
  ASSUME LowerTypes, StackShape, \A i \in 1 .. Len(stack) : FrameSafe(stack, i),
         NEW n \in 1 .. Len(stack), NEW ops \in Seq(Ops), NEW kernels,
         Extending(n, ops, kernels), Keeps(ops, kernels), ForJax(stack, n) => NoTags(ops)
  PROVE  /\ \A i \in 1 .. Len(stack') : FrameSafe(stack', i)
         /\ Len(stack') = n /\ \A i \in 1 .. n : stack'[i].ctx = stack[i].ctx
<1>1. PICK x \in Frames : Became(stack, stack', n, x) /\ Extended(stack[n], x, ops, kernels)
  BY DEF Extending
<1> DEFINE y == stack[n]
<1>2. y \in Frames /\ y.ops \in Seq(Ops)
  BY StackParts, FrameParts
<1>3. FrameSafe(stack, n)
  OBVIOUS
<1>4. Len(stack) \in Nat /\ n \in 1 .. Len(stack) + 1
  BY DEF LowerTypes
<1>5. Len(stack') = n /\ \A i \in 1 .. n : stack'[i].ctx = stack[i].ctx
  <2>1. \A i \in 1 .. n : i # n => i \in 1 .. n - 1
    BY <1>4
  <2> QED
    BY <1>1, <2>1 DEF Became, Extended
<1>6. ForJax(stack', n) <=> ForJax(stack, n)
  BY <1>5 DEF ForJax
<1>7. x.ops = y.ops \o ops /\ x.keepalive = y.keepalive \cup kernels /\ x.path = y.path
  BY <1>1 DEF Extended
<1> HIDE DEF y
<1>8. Keeps(y.ops, y.keepalive) /\ (ForJax(stack, n) => y.path = <<>> /\ NoTags(y.ops))
  BY <1>3 DEF FrameSafe, y
<1>9. /\ Keeps(y.ops \o ops, y.keepalive \cup kernels)
      /\ NoTags(y.ops) /\ NoTags(ops) => NoTags(y.ops \o ops)
  BY <1>2, <1>8, JoinedSafe
<1>10. Keeps(x.ops, x.keepalive) /\ (ForJax(stack', n) => x.path = <<>> /\ NoTags(x.ops))
  BY <1>6, <1>7, <1>8, <1>9
<1>11. \A i \in 1 .. Len(stack') : FrameSafe(stack', i)
  BY <1>1, <1>4, <1>10, BecameSafe
<1> QED
  BY <1>5, <1>11

(* A new frame is safe when it has no tags under a lowering for JAX.       *)
LEMMA PushSafe ==
  ASSUME LowerTypes, \A i \in 1 .. Len(stack) : FrameSafe(stack, i), NEW x \in Frames,
         Became(stack, stack', Len(stack) + 1, x), x.ops = <<>>,
         ForJax(stack, Len(stack)) /\ x.ctx \in {"jax", "tag"} => x.path = <<>>
  PROVE  /\ \A i \in 1 .. Len(stack') : FrameSafe(stack', i)
         /\ Len(stack') = Len(stack) + 1 /\ \A i \in 1 .. Len(stack) : stack'[i] = stack[i]
<1>1. Len(stack) \in Nat
  BY DEF LowerTypes
<1>2. /\ Len(stack') = Len(stack) + 1 /\ stack'[Len(stack) + 1] = x
      /\ \A i \in 1 .. Len(stack) : stack'[i] = stack[i]
  BY <1>1 DEF Became
<1>3. Len(x.ops) = 0
  OBVIOUS
<1>4. NoTags(x.ops) /\ Keeps(x.ops, x.keepalive)
  BY <1>3 DEF NoTags, Keeps
<1>5. ForJax(stack', Len(stack) + 1) => ForJax(stack, Len(stack)) /\ x.ctx \in {"jax", "tag"}
  BY <1>1, <1>2 DEF ForJax
<1>6. \A i \in 1 .. Len(stack') : FrameSafe(stack', i)
  BY <1>1, <1>4, <1>5, BecameSafe
<1> QED
  BY <1>2, <1>6

(* One op that calls a kernel that is kept alive.                          *)
LEMMA CallSafe ==
  ASSUME NEW op \in Ops, NEW k, op.kernel = k
  PROVE  /\ <<op>> \in Seq(Ops) /\ Keeps(<<op>>, {k})
         /\ op.tags = <<>> => NoTags(<<op>>)
         /\ op.kernel = 0 => Keeps(<<op>>, {})
<1>1. Len(<<op>>) = 1 /\ <<op>>[1] = op
  OBVIOUS
<1> QED
  BY <1>1 DEF Keeps, NoTags

(* A cache with one more safe entry is safe.                               *)
LEMMA WithSafe ==
  ASSUME NEW f, \A y \in DOMAIN f : Safe(f[y]), NEW x, NEW v, Safe(v)
  PROVE  \A y \in DOMAIN With(f, x, v) : Safe(With(f, x, v)[y])
BY DEF With

(* A lowering for JAX goes on only while the switch says so.               *)
LEMMA SwitchedBack ==
  ASSUME LowerTypes, SafeInv, stack # <<>>, ForJax(stack, Len(stack))
  PROVE  compat
<1>1. ~ForJasc(stack)
  BY DEF ForJasc, ForJax
<1> QED
  BY <1>1 DEF SafeInv

(* Every step of a lowering is safe.                                       *)
LEMMA LoweringStepSafe ==
  ASSUME LowerTypes, StackShape, SafeInv, LoweringStep
  PROVE  SafeInv'
<1>1. /\ stack # <<>> /\ outcome # "crashed" /\ Len(stack) \in 1 .. Len(stack)
      /\ Top = stack[Len(stack)] /\ (compat \/ ForJasc(stack))
  BY StepNonEmpty, TopParts DEF SafeInv
<1>2. ASSUME NEW i \in 1 .. Len(stack)
      PROVE  FrameSafe(stack, i)
  BY DEF SafeInv
<1>3. /\ \A f \in DOMAIN lowered : Safe(lowered[f])
      /\ \A w \in DOMAIN executables : Safe(executables[w])
  BY DEF SafeInv
<1>4. CASE LowerOp
  <2>1. PICK op \in Ops : Extending(Len(stack), <<op>>, {}) /\ op.tags = Top.path /\ op.kernel = 0
    BY <1>4, LowerOpEffect
  <2>2. <<op>> \in Seq(Ops) /\ Keeps(<<op>>, {}) /\ (op.tags = <<>> => NoTags(<<op>>))
    BY <2>1, CallSafe
  <2>3. ForJax(stack, Len(stack)) => NoTags(<<op>>)
    BY <1>1, <1>2, <2>1, <2>2 DEF FrameSafe
  <2>4. /\ \A i \in 1 .. Len(stack') : FrameSafe(stack', i)
        /\ Len(stack') = Len(stack) /\ \A i \in 1 .. Len(stack) : stack'[i].ctx = stack[i].ctx
    BY <1>1, <1>2, <2>1, <2>2, <2>3, ExtendingSafe
  <2>5. ForJasc(stack) => ForJasc(stack')
    BY <2>4 DEF ForJasc
  <2> QED
    BY <1>1, <1>3, <1>4, <2>4, <2>5 DEF SafeInv, LowerOp
<1>5. CASE EndTag
  <2> DEFINE n == Len(stack) - 1
  <2>1. n \in 1 .. Len(stack) /\ Extending(n, Top.ops, Top.keepalive) /\ Top.ops \in Seq(Ops)
    BY <1>1, <1>5, EndTagEffect, TopParts, FrameParts
  <2>2. Keeps(Top.ops, Top.keepalive) /\ (ForJax(stack, n) => NoTags(Top.ops))
    <3>1. ForJax(stack, n) => ForJax(stack, Len(stack))
      <4>1. \A j \in 1 .. Len(stack) : j \in 1 .. n \/ j = Len(stack)
        BY <1>1
      <4> QED
        BY <1>1, <1>5, <4>1 DEF ForJax, EndTag
    <3> QED
      BY <1>1, <1>2, <3>1 DEF FrameSafe
  <2> HIDE DEF n
  <2>3. /\ \A i \in 1 .. Len(stack') : FrameSafe(stack', i)
        /\ Len(stack') = n /\ \A i \in 1 .. n : stack'[i].ctx = stack[i].ctx
    BY <1>2, <2>1, <2>2, ExtendingSafe
  <2>4. ForJasc(stack) => ForJasc(stack')
    <3>1. ASSUME NEW i \in 1 .. Len(stack), stack[i].ctx \in {"jit", "stablehlo"}
          PROVE  ForJasc(stack')
      <4>1. i # Len(stack)
        BY <1>1, <1>5, <3>1 DEF EndTag
      <4>2. i \in 1 .. n
        BY <1>1, <4>1 DEF n
      <4> QED
        BY <2>3, <3>1, <4>2 DEF ForJasc
    <3> QED
      BY <3>1 DEF ForJasc
  <2> QED
    BY <1>1, <1>3, <1>5, <2>3, <2>4 DEF SafeInv, EndTag
<1>6. CASE TagLowering
  <2>1. PICK x \in Frames, name \in STRING :
          /\ Became(stack, stack', Len(stack) + 1, x)
          /\ x.ctx = "tag" /\ x.path = TagPath(Top.path, name) /\ x.ops = <<>> /\ x.keepalive = {}
    BY <1>6, TagLoweringEffect
  <2>2. ForJax(stack, Len(stack)) => x.path = <<>>
    <3>1. ASSUME ForJax(stack, Len(stack))
          PROVE  x.path = <<>>
      <4>1. compat
        BY <1>1, <3>1, SwitchedBack
      <4>2. Top.path = <<>>
        BY <1>1, <1>2, <3>1 DEF FrameSafe
      <4> QED
        BY <2>1, <4>1, <4>2 DEF TagPath
    <3> QED
      BY <3>1
  <2>3. /\ \A i \in 1 .. Len(stack') : FrameSafe(stack', i)
        /\ Len(stack') = Len(stack) + 1 /\ \A i \in 1 .. Len(stack) : stack'[i] = stack[i]
    BY <1>2, <2>1, <2>2, PushSafe
  <2>4. ForJasc(stack) => ForJasc(stack')
    BY <1>1, <2>3 DEF ForJasc
  <2> QED
    BY <1>1, <1>3, <1>6, <2>3, <2>4 DEF SafeInv, TagLowering
<1>7. CASE JitLowering
  <2>1. PICK x \in Frames : /\ Became(stack, stack', Len(stack) + 1, x)
                            /\ x.ctx = "jit" /\ x.ops = <<>> /\ x.keepalive = {}
    BY <1>7, JitLoweringEffect
  <2>2. /\ \A i \in 1 .. Len(stack') : FrameSafe(stack', i)
        /\ Len(stack') = Len(stack) + 1 /\ \A i \in 1 .. Len(stack) : stack'[i] = stack[i]
    BY <1>2, <2>1, PushSafe
  <2>3. Len(stack) + 1 \in 1 .. Len(stack') /\ stack'[Len(stack) + 1].ctx = "jit"
    BY <1>1, <2>1, <2>2 DEF Became, LowerTypes
  <2>4. ForJasc(stack')
    BY <2>3 DEF ForJasc
  <2> QED
    BY <1>1, <1>3, <1>7, <2>2, <2>4 DEF SafeInv, JitLowering
<1>8. CASE Unwind
  <2>1. compat'
    BY <1>1, <1>8, InJascIs, UnwindEffect
  <2>2. stack' = <<>> /\ UNCHANGED <<lowered, executables>>
    BY <1>8 DEF Unwind
  <2>3. \A i \in 1 .. Len(stack') : FrameSafe(stack', i)
    BY <2>2
  <2> QED
    BY <1>3, <2>1, <2>2, <2>3 DEF SafeInv
<1>9. CASE EndJit /\ ~Unwind
  <2> DEFINE n == Len(stack) - 1
  <2>1. PICK op \in Ops : Extending(n, <<op>>, {NewKernel}) /\ op.tags = stack[n].path /\ op.kernel = NewKernel
    BY <1>9, EndJitEffect
  <2>2. n \in 1 .. Len(stack) /\ compat' = TRUE /\ UNCHANGED <<lowered, executables, outcome>>
    BY <1>9, EndJitEffect
  <2>3. <<op>> \in Seq(Ops) /\ Keeps(<<op>>, {NewKernel}) /\ (op.tags = <<>> => NoTags(<<op>>))
    BY <2>1, CallSafe
  <2>4. ForJax(stack, n) => NoTags(<<op>>)
    BY <1>2, <2>1, <2>2, <2>3 DEF FrameSafe
  <2> HIDE DEF n
  <2>5. \A i \in 1 .. Len(stack') : FrameSafe(stack', i)
    BY <1>2, <2>1, <2>2, <2>3, <2>4, ExtendingSafe
  <2> QED
    BY <1>1, <1>3, <2>2, <2>5 DEF SafeInv
<1>10. CASE JitModule /\ ~Unwind
  <2>1. CASE outcome' = "crashed" /\ stack' = <<>> /\ UNCHANGED <<lowered, executables>>
    <3>1. \A i \in 1 .. Len(stack') : FrameSafe(stack', i)
      BY <2>1
    <3> QED
      BY <1>3, <2>1, <3>1 DEF SafeInv
  <2>2. CASE /\ \E op \in Ops : /\ Extending(Len(stack), <<op>>, {NewKernel})
                                /\ op.tags = Top.path /\ op.kernel = NewKernel
             /\ UNCHANGED <<compat, lowered, executables, outcome>>
    <3>1. PICK op \in Ops : /\ Extending(Len(stack), <<op>>, {NewKernel})
                            /\ op.tags = Top.path /\ op.kernel = NewKernel
      BY <2>2
    <3>2. <<op>> \in Seq(Ops) /\ Keeps(<<op>>, {NewKernel}) /\ (op.tags = <<>> => NoTags(<<op>>))
      BY <3>1, CallSafe
    <3>3. ForJax(stack, Len(stack)) => NoTags(<<op>>)
      BY <1>1, <1>2, <3>1, <3>2 DEF FrameSafe
    <3>4. /\ \A i \in 1 .. Len(stack') : FrameSafe(stack', i)
          /\ Len(stack') = Len(stack) /\ \A i \in 1 .. Len(stack) : stack'[i].ctx = stack[i].ctx
      BY <1>1, <1>2, <3>1, <3>2, <3>3, ExtendingSafe
    <3>5. ForJasc(stack) => ForJasc(stack')
      BY <3>4 DEF ForJasc
    <3> QED
      BY <1>1, <1>3, <2>2, <3>4, <3>5 DEF SafeInv
  <2> QED
    BY <1>10, <2>1, <2>2, JitModuleEffect
<1>11. CASE EndRun
  <2>1. /\ executables' = With(executables, Top.of, TopResult)
        /\ lowered' = lowered \/ lowered' = With(lowered, Top.of[2], TopResult)
    BY <1>11, EndRunEffect
  <2>2. ForJax(stack, Len(stack))
    BY <1>1, <1>11 DEF ForJax, EndRun
  <2>3. compat /\ FrameSafe(stack, Len(stack))
    BY <1>1, <1>2, <2>2, SwitchedBack
  <2>4. Safe(TopResult)
    BY <1>1, <2>2, <2>3 DEF Safe, FrameSafe, TopResult
  <2>5. \A w \in DOMAIN executables' : Safe(executables'[w])
    BY <1>3, <2>1, <2>4, WithSafe
  <2>6. \A f \in DOMAIN lowered' : Safe(lowered'[f])
    BY <1>3, <2>1, <2>4, WithSafe
  <2>7. \A i \in 1 .. Len(stack') : FrameSafe(stack', i)
    BY <1>11 DEF EndRun
  <2> QED
    BY <1>11, <2>3, <2>5, <2>6, <2>7 DEF SafeInv, EndRun
<1>12. CASE EndLowering
  <2>1. DOMAIN lowered' = {} /\ DOMAIN executables' = {} /\ stack' = <<>> /\ compat' = TRUE /\ outcome' = "ok"
    BY <1>12, EndLoweringEffect, EmptyTyped DEF EndLowering
  <2>2. \A i \in 1 .. Len(stack') : FrameSafe(stack', i)
    BY <2>1
  <2> QED
    BY <2>1, <2>2 DEF SafeInv
<1> QED
  BY <1>4, <1>5, <1>6, <1>7, <1>8, <1>9, <1>10, <1>11, <1>12 DEF LoweringStep

(* Between the calls of the program the switch is on.                      *)
LEMMA IdleCompat ==
  ASSUME LowerTypes, SafeInv, Idle
  PROVE  compat /\ stack = <<>> /\ outcome # "crashed"
<1>1. stack = <<>> /\ ~ForJasc(stack)
  BY DEF Idle, ForJasc
<1> QED
  BY <1>1 DEF Idle, SafeInv

(* A lowering starts with a frame that has nothing in it.                  *)
LEMMA StartsSafe ==
  ASSUME LowerTypes, SafeInv, Idle, NEW x, stack' = <<x>>, x.ops = <<>>, x.path = <<>>,
         UNCHANGED <<lowered, executables>>, outcome' = "none",
         (compat' = compat) \/ (x.ctx = "stablehlo")
  PROVE  SafeInv'
<1>1. Len(stack') = 1 /\ stack'[1] = x
  OBVIOUS
<1>2. Len(x.ops) = 0
  OBVIOUS
<1>3. \A i \in 1 .. Len(stack') : FrameSafe(stack', i)
  BY <1>1, <1>2 DEF FrameSafe, NoTags, Keeps
<1>4. compat' \/ ForJasc(stack')
  <2>1. CASE compat' = compat
    BY <2>1, IdleCompat
  <2>2. CASE x.ctx = "stablehlo"
    <3>1. 1 \in 1 .. Len(stack') /\ stack'[1].ctx = "stablehlo"
      BY <1>1, <2>2
    <3> QED
      BY <3>1 DEF ForJasc
  <2> QED
    BY <2>1, <2>2
<1> QED
  BY <1>3, <1>4 DEF SafeInv

(* lower_to_stablehlo is safe: it leaves no lowering in the caches.        *)
LEMMA LowerToStablehloSafe ==
  ASSUME LowerTypes, StackShape, SafeInv, Idle, NEW f \in FuncNames, lower_to_stablehlo(f)
  PROVE  SafeInv'
<1>1. CASE lowered' = <<>> /\ executables' = <<>> /\ outcome' = "ok" /\ UNCHANGED <<compat, stack, code>>
  <2>1. DOMAIN lowered' = {} /\ DOMAIN executables' = {}
    BY <1>1, EmptyTyped
  <2> QED
    BY <1>1, <2>1, IdleCompat DEF SafeInv
<1>2. CASE \E x \in Frames : /\ StartsLowering(x) /\ x.ctx = "stablehlo" /\ compat' = FALSE
  BY <1>2, StartsSafe DEF StartsLowering
<1> QED
  BY <1>1, <1>2, LowerToStablehloEffect

(* A run is safe.                                                          *)
LEMMA RunSafe ==
  ASSUME LowerTypes, StackShape, SafeInv, Idle, NEW w \in Works, Run(w),
         w[1] = "jit" => w[3] \in 0 .. Len(modules)
  PROVE  SafeInv'
<1>1. CASE RunsAgain(w)
  BY <1>1, IdleCompat DEF RunsAgain, SafeInv
<1>2. CASE UsesLowering(w)
  <2>1. Safe(lowered[w[2]])
    BY <1>2 DEF UsesLowering, SafeInv
  <2>2. \A y \in DOMAIN executables' : Safe(executables'[y])
    BY <1>2, <2>1, WithSafe DEF UsesLowering, SafeInv
  <2> QED
    BY <1>2, <2>2, IdleCompat DEF UsesLowering, SafeInv
<1>3. CASE \E x \in Frames : StartsLowering(x) /\ UNCHANGED compat
  BY <1>3, StartsSafe DEF StartsLowering
<1> QED
  BY <1>1, <1>2, <1>3, RunEffect

(* Every step is safe.                                                     *)
LEMMA SafeInvNext ==
  ASSUME JascInv, SafeInv, [Next]_vars
  PROVE  SafeInv'
<1> USE DEF JascInv
<1>1. CASE UNCHANGED <<compat, stack, lowered, executables, outcome>>
  BY <1>1 DEF SafeInv
<1>2. CASE LoweringStep
  BY <1>2, LoweringStepSafe
<1>3. CASE Program
  <2>1. Idle
    BY <1>3 DEF Program
  <2>2. ASSUME NEW f \in Entries, Run(Jax(f)) \/ Run(jit(f, 0)) \/ lower_to_stablehlo(f)
        PROVE  SafeInv'
    <3>1. f \in FuncNames /\ Len(modules) \in Nat
      BY TunerAssumption DEF FuncNames, LowerTypes
    <3>2. Jax(f) \in Works /\ Jax(f)[1] = "jax"
      BY <3>1 DEF Jax, Works
    <3>3. jit(f, 0) \in Works /\ jit(f, 0)[3] \in 0 .. Len(modules)
      BY <3>1 DEF jit, Works, Jitted
    <3>4. CASE Run(Jax(f))
      BY <2>1, <3>2, <3>4, RunSafe
    <3>5. CASE Run(jit(f, 0))
      BY <2>1, <3>3, <3>5, RunSafe
    <3>6. CASE lower_to_stablehlo(f)
      BY <2>1, <3>1, <3>6, LowerToStablehloSafe
    <3> QED
      BY <2>2, <3>4, <3>5, <3>6
  <2>3. ASSUME tuned # Nothing, tuned.best_fun # None, Run(tuned.best_fun)
        PROVE  SafeInv'
    <3>1. tuned.best_fun \in Works
      BY <2>3, SomeTuner DEF Tuners, Works
    <3>2. tuned.best_fun[3] \in 1 .. Len(modules)
      BY <2>3 DEF TunerInv, BestRuns
    <3>3. tuned.best_fun[3] \in 0 .. Len(modules)
      BY <3>2 DEF LowerTypes
    <3> QED
      BY <2>1, <2>3, <3>1, <3>3, RunSafe
  <2> QED
    BY <1>3, <2>2, <2>3 DEF Program
<1>4. CASE \E f \in Entries : StartTuning(f)
  <2>1. PICK f \in Entries : Idle /\ lower_to_stablehlo(f)
    BY <1>4 DEF StartTuning
  <2>2. f \in FuncNames
    BY TunerAssumption DEF FuncNames
  <2> QED
    BY <2>1, <2>2, LowerToStablehloSafe
<1>5. CASE Aborted \/ PrepareModule \/ Timed \/ ReturnTuned \/ Over \/ UNCHANGED vars
  BY <1>1, <1>5 DEF Aborted, PrepareModule, Timed, Record, ReturnTuned, Over, vars, lvars
<1>6. CASE Round /\ ~Aborted
  <2>1. Idle /\ outcome' = "none" /\ UNCHANGED <<compat, lowered, executables>>
    BY <1>6 DEF Round
  <2>2. PICK w : stack' = <<Frame("jax", <<w>>, <<>>, w)>>
    BY <1>6 DEF Round
  <2>3. Frame("jax", <<w>>, <<>>, w).ops = <<>> /\ Frame("jax", <<w>>, <<>>, w).path = <<>>
    BY DEF Frame
  <2> QED
    BY <2>1, <2>2, <2>3, StartsSafe
<1> QED
  BY <1>2, <1>3, <1>4, <1>5, <1>6 DEF Next

(* The state is always safe.                                               *)
LEMMA SafeInvAlways == Spec => [](JascInv /\ SafeInv)
<1>1. Init => SafeInv
  <2> SUFFICES ASSUME Init
               PROVE  SafeInv
    OBVIOUS
  <2>1. DOMAIN lowered = {} /\ DOMAIN executables = {}
    BY EmptyTyped DEF Init, LoweringInit
  <2> QED
    BY <2>1 DEF Init, LoweringInit, SafeInv
<1>2. JascInv /\ SafeInv /\ [Next]_vars => SafeInv'
  BY SafeInvNext
<1> QED
  BY <1>1, <1>2, JascInvAlways, PTL DEF Spec

(* For all functions, however tag, jit and exceptions nest, what JAX       *)
(* compiles for itself has no tag region.                                  *)
THEOREM PlainAlways == Spec => []PlainHasNoTags
<1>1. JascInv /\ SafeInv => PlainHasNoTags
  <2> SUFFICES ASSUME JascInv, SafeInv, NEW w \in DOMAIN executables,
                      NEW i \in DOMAIN executables[w].ops
               PROVE  executables[w].ops[i].tags = <<>>
    BY DEF PlainHasNoTags
  <2>1. executables[w].ops \in Seq(Ops)
    BY DEF JascInv, LowerTypes, Results
  <2>2. i \in 1 .. Len(executables[w].ops)
    BY <2>1
  <2> QED
    BY <2>2 DEF SafeInv, Safe, NoTags
<1> QED
  BY <1>1, SafeInvAlways, PTL

(* For all functions and all calls of the program, an executable that JAX  *)
(* may run finds each of its kernels in the registry.                      *)
THEOREM KernelsAlways == Spec => []KernelsRegistered
<1>1. JascInv /\ SafeInv => KernelsRegistered
  <2> SUFFICES ASSUME JascInv, SafeInv, NEW w \in DOMAIN executables,
                      NEW i \in DOMAIN executables[w].ops
               PROVE  executables[w].ops[i].kernel \in Registered \cup {0}
    BY DEF KernelsRegistered
  <2>1. executables[w].ops \in Seq(Ops)
    BY DEF JascInv, LowerTypes, Results
  <2>2. i \in 1 .. Len(executables[w].ops)
    BY <2>1
  <2>3. executables[w].ops[i].kernel \in executables[w].keepalive \cup {0}
    BY <2>2 DEF SafeInv, Safe, Keeps
  <2>4. executables[w].keepalive \subseteq Registered
    BY DEF Registered
  <2> QED
    BY <2>3, <2>4
<1> QED
  BY <1>1, SafeInvAlways, PTL

-----------------------------------------------------------------------------
(* The ops of a function, flattened.                                       *)
FlatOps == [op : OpNames, tags : Seq(STRING), kernel : Int]

(* A set of numbers that is not empty has a least element.                 *)
LEMMA LeastNumber ==
  ASSUME NEW T \in SUBSET Nat, T # {}
  PROVE  \E x \in T : \A y \in T : x <= y
<1> DEFINE R == {ss \in Nat \X Nat : ss[1] < ss[2]}
<1>1. IsWellFoundedOn(R, Nat)
  BY NatLessThanWellFounded DEF OpToRel
<1>2. PICK x \in T : \A y \in T : ~ (<<y, x>> \in R)
  <2> HIDE DEF R
  <2> QED
    BY <1>1, WFMin
<1>3. \A y \in T : ~ (y < x)
  BY <1>2
<1> QED
  BY <1>3

(* FlattenSeq appends one sequence after the other: u[k] is what the first *)
(* k of them make.                                                         *)
Flattened(u, z, seqs, S) ==
  /\ u \in [0 .. Len(seqs) -> Seq(S)] /\ u[0] = <<>> /\ z = u[Len(seqs)]
  /\ \A i \in 1 .. Len(seqs) : u[i] = u[i - 1] \o seqs[i]

(* The recursive function inside of FlattenSeq exists.                     *)
LEMMA FlattenExists ==
  ASSUME NEW seqs, NEW l \in Nat, l >= 1
  PROVE  \E g : g = [i \in 1 .. l |-> IF i = 1 THEN seqs[i] ELSE g[i - 1] \o seqs[i]]
<1> DEFINE Body(g, i) == IF i = 1 THEN seqs[i] ELSE g[i - 1] \o seqs[i]
           Is(g, k) == g = [i \in 1 .. k |-> Body(g, i)]
           T == {k \in 1 .. l : ~ \E g : Is(g, k)}
<1>1. T = {}
  <2> SUFFICES ASSUME T # {} PROVE FALSE
    OBVIOUS
  <2>1. PICK k \in T : \A j \in T : k <= j
    <3>1. T \in SUBSET Nat
      <4> HIDE DEF Is
      <4> QED
        OBVIOUS
    <3> HIDE DEF T
    <3> QED
      BY <3>1, LeastNumber
  <2>2. k \in 1 .. l /\ ~ \E g : Is(g, k)
    OBVIOUS
  <2>3. CASE k = 1
    <3>1. PICK g : g = [i \in 1 .. 1 |-> seqs[1]]
      OBVIOUS
    <3>2. g = [i \in 1 .. 1 |-> Body(g, i)]
      BY <3>1
    <3> QED
      BY <2>2, <2>3, <3>2
  <2>4. CASE k # 1
    <3>1. k - 1 \in 1 .. l /\ ~ (k <= k - 1)
      BY <2>2, <2>4
    <3>2. k - 1 \notin T
      BY <2>1, <3>1
    <3>3. PICK g : Is(g, k - 1)
      BY <3>1, <3>2
    <3>4. PICK h : h = [i \in 1 .. k |-> IF i < k THEN g[i] ELSE Body(g, k)]
      OBVIOUS
    <3>5. \A i \in 1 .. k - 1 : h[i] = g[i] /\ g[i] = Body(g, i)
      <4> HIDE DEF Body
      <4>1. \A i \in 1 .. k - 1 : g[i] = Body(g, i)
        BY <3>3
      <4>2. \A i \in 1 .. k - 1 : i \in 1 .. k /\ i < k
        BY <2>2
      <4>3. \A i \in 1 .. k - 1 : h[i] = g[i]
        BY <3>4, <4>2
      <4> QED
        BY <4>1, <4>3
    <3>6. \A i \in 1 .. k : h[i] = Body(h, i)
      <4> SUFFICES ASSUME NEW i \in 1 .. k PROVE h[i] = Body(h, i)
        OBVIOUS
      <4>1. i = 1 \/ h[i - 1] = g[i - 1]
        BY <2>2, <3>5
      <4>2. Body(h, i) = Body(g, i)
        BY <4>1
      <4>3. CASE i < k
        BY <2>2, <3>5, <4>2, <4>3
      <4>4. CASE i = k
        BY <2>2, <3>4, <4>2, <4>4
      <4> QED
        BY <2>2, <4>3, <4>4
    <3>7. Is(h, k)
      BY <3>4, <3>6
    <3> QED
      BY <2>2, <3>7
  <2> QED
    BY <2>3, <2>4
<1>2. \E g : Is(g, l)
  <2> HIDE DEF Is
  <2> QED
    BY <1>1
<1> QED
  BY <1>2

(* FlattenSeq of sequences over a set is such a u, at its end.             *)
LEMMA FlattenIs ==
  ASSUME NEW S, NEW seqs \in Seq(Seq(S))
  PROVE  \E u : Flattened(u, FlattenSeq(seqs), seqs, S)
<1>1. PICK l \in Nat : l = Len(seqs)
  OBVIOUS
<1>2. CASE l = 0
  <2>1. seqs = <<>> /\ FlattenSeq(seqs) = <<>>
    <3>0. PICK R : R = Seq(S)
      OBVIOUS
    <3>a. Len(seqs) = 0
      BY <1>1, <1>2
    <3>b. seqs \in Seq(R)
      BY <3>0
    <3>1. seqs = <<>> /\ Len(seqs) = 0
      BY ONLY <3>a, <3>b
    <3>2. FlattenSeq(seqs) = seqs
      BY <3>1 DEF FlattenSeq
    <3> QED
      BY <3>1, <3>2
  <2>2. PICK u : u = [i \in 0 .. 0 |-> <<>>]
    OBVIOUS
  <2>3. u \in [0 .. 0 -> Seq(S)] /\ u[0] = <<>>
    BY <2>2
  <2> QED
    BY <1>1, <1>2, <2>1, <2>3 DEF Flattened
<1>3. CASE l # 0
  <2>1. PICK m : /\ m = [i \in 1 .. l |-> IF i = 1 THEN seqs[i] ELSE m[i - 1] \o seqs[i]]
                 /\ FlattenSeq(seqs) = m[l]
    <3>1. \E g : g = [i \in 1 .. l |-> IF i = 1 THEN seqs[i] ELSE g[i - 1] \o seqs[i]]
      <4>1. l >= 1
        BY <1>3
      <4> QED
        BY <4>1, FlattenExists
    <3>2. FlattenSeq(seqs) = (CHOOSE g : g = [i \in 1 .. l |-> IF i = 1 THEN seqs[i] ELSE g[i - 1] \o seqs[i]])[l]
      BY <1>1, <1>3 DEF FlattenSeq
    <3> QED
      BY <3>1, <3>2
  <2>2. \A i \in 1 .. l : m[i] = IF i = 1 THEN seqs[i] ELSE m[i - 1] \o seqs[i]
    BY <2>1
  <2> DEFINE T == {k \in 1 .. l : m[k] \notin Seq(S)}
  <2>3. T = {}
    <3> SUFFICES ASSUME T # {} PROVE FALSE
      OBVIOUS
    <3>1. PICK k \in T : \A j \in T : k <= j
      <4>1. T \in SUBSET Nat
        OBVIOUS
      <4> HIDE DEF T
      <4> QED
        BY <4>1, LeastNumber
    <3>2. k \in 1 .. l /\ seqs[k] \in Seq(S) /\ m[k] \notin Seq(S)
      BY <1>1
    <3>3. k # 1
      BY <2>2, <3>2
    <3>4. k - 1 \in 1 .. l /\ ~(k <= k - 1)
      BY <3>2, <3>3
    <3>5. m[k - 1] \in Seq(S)
      BY <3>1, <3>4
    <3>6. m[k] = m[k - 1] \o seqs[k]
      BY <2>2, <3>2, <3>3
    <3>7. m[k] \in Seq(S)
      BY <3>2, <3>5, <3>6, Joined
    <3> QED
      BY <3>2, <3>7
  <2>4. \A i \in 1 .. l : m[i] \in Seq(S)
    BY <2>3
  <2>5. PICK u : u = [i \in 0 .. l |-> IF i = 0 THEN <<>> ELSE m[i]]
    OBVIOUS
  <2>6. /\ u \in [0 .. l -> Seq(S)] /\ u[0] = <<>> /\ u[l] = m[l]
        /\ \A i \in 1 .. l : u[i] = m[i]
    <3>1. \A i \in 0 .. l : i # 0 => i \in 1 .. l
      OBVIOUS
    <3>2. <<>> \in Seq(S)
      OBVIOUS
    <3> QED
      BY <1>3, <2>4, <2>5, <3>1, <3>2
  <2>7. ASSUME NEW i \in 1 .. l PROVE u[i] = u[i - 1] \o seqs[i]
    <3>1. CASE i = 1
      <4>1. <<>> \o seqs[1] = seqs[1]
        BY <1>1, <3>1
      <4>2. u[1] = seqs[1] /\ i - 1 = 0
        BY <2>2, <2>6, <3>1
      <4> QED
        BY <2>6, <3>1, <4>1, <4>2
    <3>2. CASE i # 1
      <4>1. i - 1 \in 1 .. l
        BY <3>2
      <4> QED
        BY <2>2, <2>6, <3>2, <4>1
    <3> QED
      BY <3>1, <3>2
  <2> QED
    BY <1>1, <2>1, <2>6, <2>7 DEF Flattened
<1> QED
  BY <1>2, <1>3

(* What FlatItem makes of the items of a function depends on the functions *)
(* that it tags.                                                           *)
Items(flat, f) == [i \in DOMAIN Funcs[f] |-> FlatItem(flat, Funcs[f][i])]
Tags(f) == {Funcs[f][i][3] : i \in {j \in DOMAIN Funcs[f] : Funcs[f][j][1] = "tag"}}

(* The flattened items of a function are the same under both.              *)
LEMMA ItemsSame ==
  ASSUME NEW f, NEW a, NEW b, \A g \in Tags(f) : a[g] = b[g]
  PROVE  Items(a, f) = Items(b, f)
<1>1. ASSUME NEW i \in DOMAIN Funcs[f]
      PROVE  FlatItem(a, Funcs[f][i]) = FlatItem(b, Funcs[f][i])
  <2>1. CASE Funcs[f][i][1] = "tag"
    <3>1. a[Funcs[f][i][3]] = b[Funcs[f][i][3]]
      BY <2>1 DEF Tags
    <3> QED
      BY <3>1 DEF FlatItem
  <2>2. CASE Funcs[f][i][1] # "tag"
    BY <2>2 DEF FlatItem
  <2> QED
    BY <2>1, <2>2
<1> QED
  BY <1>1 DEF Items

(* The tagged functions are functions, and lie less deep.                  *)
LEMMA Depths ==
  \E n \in Nat, depth \in [FuncNames -> Nat] :
    \A f \in FuncNames : depth[f] < n /\ \A g \in Tags(f) : g \in FuncNames /\ depth[g] < depth[f]
<1>1. PICK c \in Nat : c = Cardinality(FuncNames)
  BY NestingAssumption, FS_CardinalityType
<1>2. PICK depth \in [FuncNames -> 0 .. c] :
        \A f \in FuncNames : \A i \in DOMAIN Funcs[f] :
          Funcs[f][i][1] = "tag" => depth[Funcs[f][i][3]] < depth[f]
  BY <1>1, NestingAssumption
<1>3. depth \in [FuncNames -> Nat] /\ \A f \in FuncNames : depth[f] < c + 1
  BY <1>2
<1>4. ASSUME NEW f \in FuncNames, NEW g \in Tags(f)
      PROVE  g \in FuncNames /\ depth[g] < depth[f]
  <2>1. PICK i \in DOMAIN Funcs[f] : Funcs[f][i][1] = "tag" /\ g = Funcs[f][i][3]
    BY <1>4 DEF Tags
  <2>2. Funcs[f] \in Seq(FuncItems)
    BY FuncsAssumption
  <2>3. Funcs[f][i] \in FuncItems \cup Jitted
    BY <2>1, <2>2
  <2>4. Funcs[f][i][3] \in FuncNames
    BY <2>1, <2>3, ItemParts
  <2> QED
    BY <1>2, <2>1, <2>4
<1>5. c + 1 \in Nat
  OBVIOUS
<1> QED
  BY <1>3, <1>4, <1>5

(* The recursive function inside of Flat exists.                           *)
LEMMA FlatExists ==
  \E flat : flat = [f \in FuncNames |-> FlattenSeq(Items(flat, f))]
<1>1. PICK n \in Nat, depth \in [FuncNames -> Nat] :
        \A f \in FuncNames : depth[f] < n /\ \A g \in Tags(f) : g \in FuncNames /\ depth[g] < depth[f]
  BY Depths
<1> DEFINE Body(flat, f) == FlattenSeq(Items(flat, f))
           D(k) == {f \in FuncNames : depth[f] < k}
           Is(flat, k) == flat = [f \in D(k) |-> Body(flat, f)]
           T == {k \in Nat : ~ \E flat : Is(flat, k)}
<1>2. T = {}
  <2> SUFFICES ASSUME T # {} PROVE FALSE
    OBVIOUS
  <2>1. PICK k \in T : \A j \in T : k <= j
    <3>1. T \in SUBSET Nat
      <4> HIDE DEF Is
      <4> QED
        OBVIOUS
    <3> HIDE DEF T
    <3> QED
      BY <3>1, LeastNumber
  <2>2. k \in Nat /\ ~ \E flat : Is(flat, k)
    OBVIOUS
  <2>3. CASE k = 0
    <3>1. D(k) = {}
      BY <2>3
    <3>2. PICK flat : flat = [f \in D(k) |-> 0]
      OBVIOUS
    <3>3. [f \in D(k) |-> 0] = [f \in D(k) |-> Body(flat, f)]
      <4> HIDE DEF D, Body
      <4> QED
        BY <3>1
    <3>4. Is(flat, k)
      BY <3>2, <3>3
    <3> QED
      BY <2>2, <3>4
  <2>4. CASE k # 0
    <3>1. k - 1 \in Nat /\ ~ (k <= k - 1)
      BY <2>2, <2>4
    <3>2. k - 1 \notin T
      BY <2>1, <3>1
    <3>3. PICK a : Is(a, k - 1)
      BY <3>1, <3>2
    <3>4. PICK b : b = [f \in D(k) |-> Body(a, f)]
      OBVIOUS
    <3>5. \A f \in D(k - 1) : f \in D(k) /\ a[f] = Body(a, f) /\ b[f] = Body(a, f)
      <4>1. \A f \in D(k - 1) : f \in D(k)
        BY <2>2
      <4>2. a = [f \in D(k - 1) |-> Body(a, f)]
        BY <3>3
      <4> HIDE DEF D, Body
      <4> QED
        BY <3>4, <4>1, <4>2
    <3>6. ASSUME NEW f \in D(k) PROVE Body(a, f) = Body(b, f)
      <4>1. \A g \in Tags(f) : g \in D(k - 1)
        BY <1>1, <2>2
      <4>2. \A g \in Tags(f) : a[g] = b[g]
        <5> HIDE DEF D, Body
        <5> QED
          BY <3>5, <4>1
      <4> QED
        BY <4>2, ItemsSame
    <3>7. Is(b, k)
      <4> HIDE DEF D, Body
      <4>1. [f \in D(k) |-> Body(a, f)] = [f \in D(k) |-> Body(b, f)]
        BY <3>6
      <4> QED
        BY <3>4, <4>1
    <3> QED
      BY <2>2, <3>7
  <2> QED
    BY <2>3, <2>4
<1>3. PICK flat : Is(flat, n)
  <2> HIDE DEF Is
  <2> QED
    BY <1>2
<1>4. D(n) = FuncNames
  BY <1>1
<1> HIDE DEF D
<1> QED
  BY <1>3, <1>4

(* Flat does what it says.                                                 *)
LEMMA FlatIs ==
  /\ DOMAIN Flat = FuncNames
  /\ \A f \in FuncNames : Flat[f] = FlattenSeq(Items(Flat, f))
<1>1. Flat = CHOOSE flat :
               flat = [f \in DOMAIN Funcs |->
                         FlattenSeq([i \in DOMAIN Funcs[f] |-> FlatItem(flat, Funcs[f][i])])]
  BY DEF Flat
<1>2. Flat = CHOOSE flat : flat = [f \in FuncNames |-> FlattenSeq(Items(flat, f))]
  BY <1>1 DEF FuncNames, Items
<1>3. Flat = [f \in FuncNames |-> FlattenSeq(Items(Flat, f))]
  BY <1>2, FlatExists
<1> DEFINE Body(f) == FlattenSeq(Items(Flat, f))
<1>4. Flat = [f \in FuncNames |-> Body(f)]
  BY <1>3
<1> HIDE DEF Body
<1>5. DOMAIN Flat = FuncNames /\ \A f \in FuncNames : Flat[f] = Body(f)
  BY <1>4
<1> QED
  BY <1>5 DEF Body

(* The ops of a tag region carry its names after their own.                *)
Under(op, path) == [op EXCEPT !.tags = @ \o path]
Tagged(ops, path) == [j \in DOMAIN ops |-> Under(ops[j], path)]

(* Names that are put around an op one after the other.                    *)
LEMMA UnderIs ==
  ASSUME NEW op \in FlatOps, NEW p \in Seq(STRING), NEW q \in Seq(STRING)
  PROVE  /\ Under(op, p) \in FlatOps /\ Under(op, p).op = op.op /\ Under(op, <<>>) = op
         /\ Under(Under(op, p), q) = Under(op, p \o q)
<1>1. op.tags \in Seq(STRING)
  BY DEF FlatOps
<1>2. PICK t \in Seq(STRING) : t = op.tags
  BY <1>1
<1>3. /\ t \o <<>> = t /\ t \o p \in Seq(STRING) /\ (t \o p) \o q = t \o (p \o q)
      /\ <<>> \in Seq(STRING)
  OBVIOUS
<1>4. Under(op, p) = [op EXCEPT !.tags = t \o p] /\ Under(op, <<>>) = [op EXCEPT !.tags = t \o <<>>]
      /\ Under(op, p \o q) = [op EXCEPT !.tags = t \o (p \o q)]
  BY <1>2 DEF Under
<1>5. ASSUME NEW a \in Seq(STRING)
      PROVE  /\ [op EXCEPT !.tags = a] \in FlatOps /\ [op EXCEPT !.tags = a].tags = a
             /\ [op EXCEPT !.tags = a].op = op.op
             /\ \A b : [[op EXCEPT !.tags = a] EXCEPT !.tags = b] = [op EXCEPT !.tags = b]
  BY DEF FlatOps
<1>6. [op EXCEPT !.tags = t] = op
  BY <1>2 DEF FlatOps
<1>7. PICK z : z = Under(op, p)
  OBVIOUS
<1>8. z.tags = t \o p /\ Under(z, q) = [z EXCEPT !.tags = z.tags \o q]
  BY <1>3, <1>4, <1>5, <1>7 DEF Under
<1>9. Under(z, q) = [op EXCEPT !.tags = (t \o p) \o q]
  BY <1>3, <1>4, <1>5, <1>7, <1>8
<1>10. Under(op, p) \in FlatOps /\ Under(op, p).op = op.op
  <2>1. PICK a \in Seq(STRING) : a = t \o p
    BY <1>3
  <2>2. Under(op, p) = [op EXCEPT !.tags = a]
    BY <1>4, <2>1
  <2>3. [op EXCEPT !.tags = a] \in FlatOps /\ [op EXCEPT !.tags = a].op = op.op
    BY <1>5
  <2> QED
    BY ONLY <2>2, <2>3
<1>11. Under(op, <<>>) = op
  BY <1>3, <1>4, <1>6
<1>12. Under(Under(op, p), q) = Under(op, p \o q)
  BY <1>3, <1>4, <1>7, <1>9
<1> QED
  BY <1>10, <1>11, <1>12

(* A region around a sequence of ops.                                      *)
LEMMA TaggedIs ==
  ASSUME NEW s \in Seq(FlatOps), NEW p \in Seq(STRING)
  PROVE  /\ Tagged(s, p) \in Seq(FlatOps) /\ Len(Tagged(s, p)) = Len(s)
         /\ \A i \in 1 .. Len(s) : Tagged(s, p)[i] = Under(s[i], p)
<1>1. DOMAIN s = 1 .. Len(s) /\ Len(s) \in Nat /\ \A i \in 1 .. Len(s) : s[i] \in FlatOps
  OBVIOUS
<1>2. \A i \in 1 .. Len(s) : Under(s[i], p) \in FlatOps
  BY <1>1, UnderIs
<1>3. PICK z : z = [i \in 1 .. Len(s) |-> Under(s[i], p)]
  OBVIOUS
<1>4. z \in [1 .. Len(s) -> FlatOps] /\ \A i \in 1 .. Len(s) : z[i] = Under(s[i], p)
  BY <1>2, <1>3
<1>5. z \in Seq(FlatOps) /\ Len(z) = Len(s)
  BY <1>1, <1>4
<1>6. z = Tagged(s, p)
  BY <1>1, <1>3 DEF Tagged
<1> QED
  BY <1>4, <1>5, <1>6

(* Two sequences of ops are equal when their ops are.                      *)
LEMMA SameOps ==
  ASSUME NEW a \in Seq(FlatOps), NEW b \in Seq(FlatOps), Len(a) = Len(b),
         \A i \in 1 .. Len(a) : a[i] = b[i]
  PROVE  a = b
OBVIOUS

(* Without a region the ops stay as they are.                              *)
LEMMA TaggedNone ==
  ASSUME NEW s \in Seq(FlatOps)
  PROVE  Tagged(s, <<>>) = s
<1>1. <<>> \in Seq(STRING)
  OBVIOUS
<1>2. PICK z : z = Tagged(s, <<>>)
  OBVIOUS
<1>3. z \in Seq(FlatOps) /\ Len(z) = Len(s) /\ \A i \in 1 .. Len(s) : z[i] = Under(s[i], <<>>)
  BY <1>1, <1>2, TaggedIs
<1>4. ASSUME NEW i \in 1 .. Len(s) PROVE Under(s[i], <<>>) = s[i]
  <2>1. s[i] \in FlatOps
    OBVIOUS
  <2> QED
    BY <1>1, <2>1, UnderIs
<1>5. z = s
  BY <1>3, <1>4, SameOps
<1> QED
  BY <1>2, <1>5

(* A region in a region: the inner names come first.                       *)
LEMMA TaggedTwice ==
  ASSUME NEW s \in Seq(FlatOps), NEW p \in Seq(STRING), NEW q \in Seq(STRING)
  PROVE  Tagged(Tagged(s, p), q) = Tagged(s, p \o q)
<1>1. p \o q \in Seq(STRING)
  BY Joined
<1>2. PICK a, b, c : a = Tagged(s, p) /\ b = Tagged(a, q) /\ c = Tagged(s, p \o q)
  OBVIOUS
<1>3. a \in Seq(FlatOps) /\ Len(a) = Len(s) /\ \A i \in 1 .. Len(s) : a[i] = Under(s[i], p)
  BY <1>2, TaggedIs
<1>4. b \in Seq(FlatOps) /\ Len(b) = Len(a) /\ \A i \in 1 .. Len(a) : b[i] = Under(a[i], q)
  BY <1>2, <1>3, TaggedIs
<1>5. c \in Seq(FlatOps) /\ Len(c) = Len(s) /\ \A i \in 1 .. Len(s) : c[i] = Under(s[i], p \o q)
  BY <1>1, <1>2, TaggedIs
<1>6. ASSUME NEW i \in 1 .. Len(s) PROVE b[i] = c[i]
  <2>1. s[i] \in FlatOps
    OBVIOUS
  <2>2. Under(Under(s[i], p), q) = Under(s[i], p \o q)
    BY <2>1, UnderIs
  <2> QED
    BY <1>3, <1>4, <1>5, <2>2
<1>7. b = c
  BY <1>3, <1>4, <1>5, <1>6, SameOps
<1> QED
  BY <1>2, <1>7

(* The ops of a region, one part after the other.                          *)
LEMMA TaggedJoined ==
  ASSUME NEW s \in Seq(FlatOps), NEW t \in Seq(FlatOps), NEW p \in Seq(STRING)
  PROVE  Tagged(s \o t, p) = Tagged(s, p) \o Tagged(t, p)
<1>1. PICK st, a, b, c, ab : /\ st = s \o t /\ a = Tagged(s, p) /\ b = Tagged(t, p) /\ c = Tagged(st, p)
                             /\ ab = a \o b
  OBVIOUS
<1>2. a \in Seq(FlatOps) /\ Len(a) = Len(s) /\ \A i \in 1 .. Len(s) : a[i] = Under(s[i], p)
  BY <1>1, TaggedIs
<1>3. b \in Seq(FlatOps) /\ Len(b) = Len(t) /\ \A i \in 1 .. Len(t) : b[i] = Under(t[i], p)
  BY <1>1, TaggedIs
<1>4. st \in Seq(FlatOps) /\ Len(st) = Len(s) + Len(t) /\ Len(s) \in Nat /\ Len(t) \in Nat
      /\ \A i \in 1 .. Len(st) : st[i] = IF i <= Len(s) THEN s[i] ELSE t[i - Len(s)]
  BY <1>1
<1>5. c \in Seq(FlatOps) /\ Len(c) = Len(st) /\ \A i \in 1 .. Len(st) : c[i] = Under(st[i], p)
  BY <1>1, <1>4, TaggedIs
<1>6. ab \in Seq(FlatOps) /\ Len(ab) = Len(a) + Len(b)
      /\ \A i \in 1 .. Len(ab) : ab[i] = IF i <= Len(a) THEN a[i] ELSE b[i - Len(a)]
  <2>1. ab = a \o b /\ a \in Seq(FlatOps) /\ b \in Seq(FlatOps)
    BY <1>1, <1>2, <1>3
  <2> QED
    BY ONLY <2>1
<1>7. ASSUME NEW i \in 1 .. Len(st) PROVE c[i] = ab[i]
  <2>1. CASE i <= Len(s)
    <3>1. i \in 1 .. Len(s) /\ i \in 1 .. Len(ab)
      BY <1>2, <1>3, <1>4, <1>6, <2>1
    <3> QED
      BY <1>2, <1>4, <1>5, <1>6, <2>1, <3>1
  <2>2. CASE ~(i <= Len(s))
    <3>1. i - Len(s) \in 1 .. Len(t) /\ i \in 1 .. Len(ab)
      BY <1>2, <1>3, <1>4, <1>6, <2>2
    <3> QED
      BY <1>2, <1>3, <1>4, <1>5, <1>6, <2>2, <3>1
  <2> QED
    BY <2>1, <2>2
<1>8. c = ab
  BY <1>2, <1>3, <1>4, <1>5, <1>6, <1>7, SameOps
<1> QED
  BY <1>1, <1>8

(* What an item of a function gives.                                       *)
LEMMA FlatItemIs ==
  ASSUME NEW flat, NEW item \in FuncItems, item[1] = "tag" => flat[item[3]] \in Seq(FlatOps)
  PROVE  /\ FlatItem(flat, item) \in Seq(FlatOps)
         /\ item[1] = "op" => FlatItem(flat, item) = <<Op(item[2], <<>>, 0)>>
         /\ item[1] = "tag" => FlatItem(flat, item) = Tagged(flat[item[3]], <<item[2]>>)
         /\ item[1] = "jit" => FlatItem(flat, item) = <<Op("jasc.call_kernel", <<>>, -1)>>
<1>1. /\ item[1] \in {"op", "tag", "jit"}
      /\ item[1] = "op" => item[2] \in STRING
      /\ item[1] = "tag" => item[2] \in STRING /\ item[3] \in FuncNames
  BY ItemParts
<1>2. ASSUME NEW name \in OpNames, NEW k \in Int
      PROVE  Op(name, <<>>, k) \in FlatOps /\ <<Op(name, <<>>, k)>> \in Seq(FlatOps)
  <2>1. Op(name, <<>>, k) \in FlatOps
    BY DEF Op, FlatOps
  <2> QED
    BY <2>1
<1>3. CASE item[1] = "op"
  <2>1. FlatItem(flat, item) = <<Op(item[2], <<>>, 0)>>
    BY <1>3 DEF FlatItem
  <2>2. item[2] \in OpNames /\ 0 \in Int
    BY <1>1, <1>3 DEF OpNames
  <2> QED
    BY <1>2, <1>3, <2>1, <2>2
<1>4. CASE item[1] = "jit"
  <2>1. FlatItem(flat, item) = <<Op("jasc.call_kernel", <<>>, -1)>>
    BY <1>4 DEF FlatItem
  <2>2. "jasc.call_kernel" \in OpNames /\ -1 \in Int
    BY DEF OpNames
  <2> QED
    BY <1>2, <1>4, <2>1, <2>2
<1>5. CASE item[1] = "tag"
  <2>1. FlatItem(flat, item) = [j \in DOMAIN flat[item[3]] |-> [flat[item[3]][j] EXCEPT !.tags = Append(@, item[2])]]
    BY <1>5 DEF FlatItem
  <2>2. PICK s \in Seq(FlatOps) : s = flat[item[3]]
    BY <1>5
  <2>3. PICK name \in STRING : name = item[2]
    BY <1>1, <1>5
  <2>4. ASSUME NEW j \in DOMAIN s
        PROVE  [s[j] EXCEPT !.tags = Append(@, name)] = Under(s[j], <<name>>)
    <3>1. s[j] \in FlatOps
      OBVIOUS
    <3>2. s[j].tags \in Seq(STRING)
      BY <3>1 DEF FlatOps
    <3>3. Append(s[j].tags, name) = s[j].tags \o <<name>>
      BY <3>2, Appended
    <3> QED
      BY <3>3 DEF Under
  <2>5. FlatItem(flat, item) = Tagged(s, <<name>>)
    BY <2>1, <2>2, <2>3, <2>4 DEF Tagged
  <2>6. <<name>> \in Seq(STRING)
    OBVIOUS
  <2>7. Tagged(s, <<name>>) \in Seq(FlatOps)
    BY <2>6, TaggedIs
  <2> QED
    BY <1>5, <2>2, <2>3, <2>5, <2>7
<1> QED
  BY <1>1, <1>3, <1>4, <1>5

(* An item of a function.                                                  *)
LEMMA FuncItem ==
  ASSUME NEW f \in FuncNames, NEW i \in 1 .. Len(Funcs[f])
  PROVE  /\ Funcs[f] \in Seq(FuncItems) /\ i \in DOMAIN Funcs[f] /\ Funcs[f][i] \in FuncItems
         /\ Funcs[f][i][1] \in {"op", "tag", "jit"}
         /\ Funcs[f][i][1] = "op" => Funcs[f][i][2] \in STRING
         /\ Funcs[f][i][1] = "jit" => Funcs[f][i][3] = 0
         /\ Funcs[f][i][1] = "tag" =>
              Funcs[f][i][2] \in STRING /\ Funcs[f][i][3] \in FuncNames /\ Funcs[f][i][3] \in Tags(f)
<1>1. Funcs[f] \in Seq(FuncItems)
  BY FuncsAssumption
<1>2. i \in DOMAIN Funcs[f] /\ Funcs[f][i] \in FuncItems
  BY <1>1
<1>3. Funcs[f][i] \in FuncItems \cup Jitted
  BY <1>2
<1>4. Funcs[f][i][1] = "tag" => Funcs[f][i][3] \in Tags(f)
  BY <1>2 DEF Tags
<1> QED
  BY <1>1, <1>2, <1>3, <1>4, ItemParts

(* The flattened items of a function are sequences of ops.                 *)
LEMMA ItemsTyped ==
  ASSUME NEW flat, NEW f \in FuncNames, \A g \in Tags(f) : flat[g] \in Seq(FlatOps)
  PROVE  /\ Items(flat, f) \in Seq(Seq(FlatOps)) /\ Len(Items(flat, f)) = Len(Funcs[f])
         /\ \A i \in 1 .. Len(Funcs[f]) : Items(flat, f)[i] = FlatItem(flat, Funcs[f][i])
<1>1. Funcs[f] \in Seq(FuncItems)
  BY FuncsAssumption
<1>2. PICK n \in Nat : n = Len(Funcs[f]) /\ DOMAIN Funcs[f] = 1 .. n
  BY <1>1
<1>3. ASSUME NEW i \in 1 .. n PROVE FlatItem(flat, Funcs[f][i]) \in Seq(FlatOps)
  <2>1. /\ Funcs[f][i] \in FuncItems
        /\ Funcs[f][i][1] = "tag" => Funcs[f][i][3] \in Tags(f)
    BY <1>2, FuncItem
  <2>2. Funcs[f][i][1] = "tag" => flat[Funcs[f][i][3]] \in Seq(FlatOps)
    BY <2>1
  <2> QED
    BY <2>1, <2>2, FlatItemIs
<1>4. PICK z : z = Items(flat, f)
  OBVIOUS
<1> DEFINE F(i) == FlatItem(flat, Funcs[f][i])
<1>5. z = [i \in 1 .. n |-> F(i)]
  BY <1>2, <1>4 DEF Items
<1>6. PICK R : R = Seq(FlatOps)
  OBVIOUS
<1>7. \A i \in 1 .. n : F(i) \in R
  BY <1>3, <1>6
<1> HIDE DEF F
<1>8. z \in [1 .. n -> R] /\ \A i \in 1 .. n : z[i] = F(i)
  BY <1>5, <1>7
<1>9. z \in Seq(R) /\ Len(z) = n
  BY ONLY <1>8, n \in Nat
<1> QED
  BY <1>2, <1>4, <1>6, <1>8, <1>9 DEF F

(* The ops of every function are ops.                                      *)
LEMMA FlatTyped == \A f \in FuncNames : Flat[f] \in Seq(FlatOps)
<1>1. PICK n \in Nat, depth \in [FuncNames -> Nat] :
        \A f \in FuncNames : depth[f] < n /\ \A g \in Tags(f) : g \in FuncNames /\ depth[g] < depth[f]
  BY Depths
<1> SUFFICES ASSUME NEW f0 \in FuncNames, Flat[f0] \notin Seq(FlatOps) PROVE FALSE
  OBVIOUS
<1> DEFINE T == {depth[f] : f \in {g \in FuncNames : Flat[g] \notin Seq(FlatOps)}}
<1>2. T \in SUBSET Nat /\ T # {}
  BY <1>1
<1>3. PICK k \in T : \A j \in T : k <= j
  <2> HIDE DEF T
  <2> QED
    BY <1>2, LeastNumber
<1>4. PICK f \in FuncNames : Flat[f] \notin Seq(FlatOps) /\ k = depth[f]
  BY <1>3
<1>5. ASSUME NEW g \in Tags(f) PROVE Flat[g] \in Seq(FlatOps)
  <2>1. g \in FuncNames /\ depth[g] < depth[f] /\ depth[g] \in Nat /\ depth[f] \in Nat
    BY <1>1
  <2>2. depth[g] \notin T
    <3>1. ~(k <= depth[g])
      BY <1>4, <2>1
    <3> QED
      BY <1>3, <3>1
  <2> QED
    BY <2>1, <2>2
<1>6. PICK seqs \in Seq(Seq(FlatOps)) : seqs = Items(Flat, f)
  BY <1>5, ItemsTyped
<1>7. PICK u : Flattened(u, FlattenSeq(seqs), seqs, FlatOps)
  BY FlattenIs
<1>8. Len(seqs) \in Nat /\ Len(seqs) \in 0 .. Len(seqs)
  OBVIOUS
<1>9. FlattenSeq(seqs) \in Seq(FlatOps)
  BY <1>7, <1>8 DEF Flattened
<1> QED
  BY <1>4, <1>6, <1>9, FlatIs

(* The ops of the first items of a function.                               *)
Upto(f) == CHOOSE u : Flattened(u, Flat[f], Items(Flat, f), FlatOps)
UptoFacts(f) ==
  /\ Upto(f) \in [0 .. Len(Funcs[f]) -> Seq(FlatOps)]
  /\ Upto(f)[0] = <<>> /\ Upto(f)[Len(Funcs[f])] = Flat[f]
  /\ \A i \in 1 .. Len(Funcs[f]) : /\ FlatItem(Flat, Funcs[f][i]) \in Seq(FlatOps)
                                   /\ Upto(f)[i] = Upto(f)[i - 1] \o FlatItem(Flat, Funcs[f][i])

(* The ops of all items are the ops of the function.                       *)
LEMMA UptoIs ==
  ASSUME NEW f \in FuncNames
  PROVE  UptoFacts(f)
<1>1. PICK n, depth : \A g \in FuncNames : \A h \in Tags(g) : h \in FuncNames
  BY Depths
<1>2. \A g \in Tags(f) : Flat[g] \in Seq(FlatOps)
  BY <1>1, FlatTyped
<1>3. PICK seqs \in Seq(Seq(FlatOps)) : seqs = Items(Flat, f)
  BY <1>2, ItemsTyped
<1>4. Len(seqs) = Len(Funcs[f]) /\ \A i \in 1 .. Len(seqs) : seqs[i] = FlatItem(Flat, Funcs[f][i])
  BY <1>2, <1>3, ItemsTyped
<1>5. Flat[f] = FlattenSeq(seqs)
  BY <1>3, FlatIs
<1>6. \E u : Flattened(u, Flat[f], Items(Flat, f), FlatOps)
  BY <1>3, <1>5, FlattenIs
<1>7. Flattened(Upto(f), Flat[f], Items(Flat, f), FlatOps)
  BY <1>6 DEF Upto
<1>8. Flattened(Upto(f), Flat[f], seqs, FlatOps)
  BY <1>3, <1>7
<1>9. \A i \in 1 .. Len(seqs) : seqs[i] \in Seq(FlatOps)
  OBVIOUS
<1> QED
  BY <1>4, <1>8, <1>9 DEF Flattened, UptoFacts

-----------------------------------------------------------------------------
(* A function that calls no kernel, neither itself nor in a tag region.    *)
Plain(f) == ~CallsKernel(Flat[f])

(* A kernel that one of two sequences calls, both together call.           *)
LEMMA CallsJoined ==
  ASSUME NEW a \in Seq(FlatOps), NEW b \in Seq(FlatOps), CallsKernel(a) \/ CallsKernel(b)
  PROVE  CallsKernel(a \o b)
<1>1. PICK c : c = a \o b
  OBVIOUS
<1>2. /\ DOMAIN c = 1 .. Len(a) + Len(b) /\ DOMAIN a = 1 .. Len(a) /\ DOMAIN b = 1 .. Len(b)
      /\ Len(a) \in Nat /\ Len(b) \in Nat
      /\ \A i \in 1 .. Len(a) : c[i] = a[i]
      /\ \A i \in 1 .. Len(b) : c[Len(a) + i] = b[i]
  BY <1>1
<1>3. CASE CallsKernel(a)
  <2>1. PICK i \in 1 .. Len(a) : a[i].op = "jasc.call_kernel"
    BY <1>2, <1>3 DEF CallsKernel
  <2>2. i \in DOMAIN c /\ c[i].op = "jasc.call_kernel"
    BY <1>2, <2>1
  <2> QED
    BY <1>1, <2>2 DEF CallsKernel
<1>4. CASE CallsKernel(b)
  <2>1. PICK i \in 1 .. Len(b) : b[i].op = "jasc.call_kernel"
    BY <1>2, <1>4 DEF CallsKernel
  <2>2. Len(a) + i \in DOMAIN c /\ c[Len(a) + i].op = "jasc.call_kernel"
    BY <1>2, <2>1
  <2> QED
    BY <1>1, <2>2 DEF CallsKernel
<1> QED
  BY <1>3, <1>4

(* No item of such a function calls a kernel.                              *)
LEMMA PlainItem ==
  ASSUME NEW f \in FuncNames, Plain(f), NEW i \in 1 .. Len(Funcs[f])
  PROVE  ~CallsKernel(FlatItem(Flat, Funcs[f][i]))
<1> SUFFICES ASSUME CallsKernel(FlatItem(Flat, Funcs[f][i])) PROVE FALSE
  OBVIOUS
<1>1. PICK n \in Nat : n = Len(Funcs[f])
  BY FuncsAssumption
<1>2. PICK u : u = Upto(f)
  OBVIOUS
<1>3. /\ u \in [0 .. n -> Seq(FlatOps)] /\ u[n] = Flat[f]
      /\ \A j \in 1 .. n : /\ FlatItem(Flat, Funcs[f][j]) \in Seq(FlatOps)
                           /\ u[j] = u[j - 1] \o FlatItem(Flat, Funcs[f][j])
  BY <1>1, <1>2, UptoIs DEF UptoFacts
<1>4. \A j \in 1 .. n : j - 1 \in 0 .. n
  OBVIOUS
<1>5. CallsKernel(u[i])
  BY <1>1, <1>3, <1>4, CallsJoined
<1> DEFINE T == {j \in i .. n : ~CallsKernel(u[j])}
<1>6. T \in SUBSET Nat /\ n \in T
  <2>1. n \in i .. n /\ i .. n \in SUBSET Nat
    BY <1>1
  <2> QED
    BY <1>3, <2>1 DEF Plain
<1>7. PICK k \in T : \A j \in T : k <= j
  <2>1. T # {}
    BY <1>6
  <2> HIDE DEF T
  <2> QED
    BY <1>6, <2>1, LeastNumber
<1>8. k \in i .. n /\ ~CallsKernel(u[k])
  BY <1>7
<1>9. k # i
  BY <1>5, <1>8
<1>10. k - 1 \in i .. n /\ ~(k <= k - 1) /\ k \in 1 .. n /\ k - 1 \in 0 .. n
  BY <1>1, <1>8, <1>9
<1>11. CallsKernel(u[k - 1])
  BY <1>7, <1>10
<1>12. CallsKernel(u[k])
  BY <1>3, <1>10, <1>11, CallsJoined
<1> QED
  BY <1>8, <1>12

(* A function that calls no kernel calls no jit, and its tag regions call  *)
(* none.                                                                   *)
LEMMA PlainParts ==
  ASSUME NEW f \in FuncNames, Plain(f), NEW i \in 1 .. Len(Funcs[f])
  PROVE  /\ Funcs[f][i][1] # "jit"
         /\ Funcs[f][i][1] = "tag" => Plain(Funcs[f][i][3])
<1>1. ~CallsKernel(FlatItem(Flat, Funcs[f][i]))
  BY PlainItem
<1>2. PICK item \in FuncItems : item = Funcs[f][i]
  BY FuncItem
<1>3. item[1] = "tag" => item[2] \in STRING /\ item[3] \in FuncNames
  BY <1>2, FuncItem
<1>4. item[1] = "tag" => Flat[item[3]] \in Seq(FlatOps)
  BY <1>3, FlatTyped
<1>5. item[1] # "jit"
  <2> SUFFICES ASSUME item[1] = "jit" PROVE FALSE
    OBVIOUS
  <2>1. FlatItem(Flat, item) = <<Op("jasc.call_kernel", <<>>, -1)>>
    BY <1>4, FlatItemIs
  <2>2. 1 \in DOMAIN FlatItem(Flat, item) /\ FlatItem(Flat, item)[1].op = "jasc.call_kernel"
    BY <2>1 DEF Op
  <2> QED
    BY <1>1, <1>2, <2>2 DEF CallsKernel
<1>6. ASSUME item[1] = "tag" PROVE Plain(item[3])
  <2> SUFFICES ASSUME CallsKernel(Flat[item[3]]) PROVE FALSE
    BY DEF Plain
  <2>1. PICK s \in Seq(FlatOps) : s = Flat[item[3]]
    BY <1>4, <1>6
  <2>2. PICK p \in Seq(STRING) : p = <<item[2]>>
    <3>1. item[2] \in STRING
      BY <1>3, <1>6
    <3>2. <<item[2]>> \in Seq(STRING)
      BY <3>1
    <3> QED
      BY <3>2
  <2>3. PICK z : z = Tagged(s, p)
    OBVIOUS
  <2>4. FlatItem(Flat, item) = z
    BY <1>4, <1>6, <2>1, <2>2, <2>3, FlatItemIs
  <2>5. z \in Seq(FlatOps) /\ Len(z) = Len(s) /\ \A j \in 1 .. Len(s) : z[j] = Under(s[j], p)
    BY <2>3, TaggedIs
  <2>6. PICK j \in 1 .. Len(s) : s[j].op = "jasc.call_kernel"
    BY <2>1 DEF CallsKernel
  <2>7. s[j] \in FlatOps
    BY <2>6
  <2>8. z[j].op = "jasc.call_kernel"
    BY <2>5, <2>6, <2>7, UnderIs
  <2>9. j \in DOMAIN z
    BY <2>5, <2>6
  <2> QED
    BY <1>1, <1>2, <2>4, <2>8, <2>9 DEF CallsKernel
<1> QED
  BY <1>2, <1>5, <1>6

(* A frame has lowered the first items of a function that calls no kernel, *)
(* each op under the path of the frame, and has the others to lower.       *)
After(f, k) == SubSeq(Funcs[f], k + 1, Len(Funcs[f]))
Halfway(x) ==
  /\ x.of \in FuncNames /\ Plain(x.of)
  /\ \E k \in 0 .. Len(Funcs[x.of]) : /\ x.items = After(x.of, k)
                                      /\ x.ops = Tagged(Upto(x.of)[k], x.path)

(* A frame for Jasc, and a frame y for a tag that the frame x has reached. *)
Marked(x) == x.ctx \in {"jit", "stablehlo"} /\ Plain(x.of)
TagOf(x, y) ==
  /\ y.ctx = "tag" /\ x.items # <<>> /\ x.items[1][1] = "tag" /\ y.of = x.items[1][3]
  /\ y.path = <<x.items[1][2]>> \o x.path

(* Above a frame for Jasc there are only its tag regions.                  *)
Regions(s, i) ==
  /\ s[i].path = <<>>
  /\ \A j \in i .. Len(s) : Halfway(s[j])
  /\ \A j \in i + 1 .. Len(s) : TagOf(s[j - 1], s[j])
TagStack(s, on) == \A i \in 1 .. Len(s) : Marked(s[i]) => ~on /\ Regions(s, i)

(* What is left of the items after the first k.                            *)
LEMMA AfterIs ==
  ASSUME NEW f \in FuncNames, NEW k \in 0 .. Len(Funcs[f])
  PROVE  /\ After(f, 0) = Funcs[f]
         /\ After(f, k) = <<>> => k = Len(Funcs[f])
         /\ After(f, k) # <<>> => /\ k + 1 \in 1 .. Len(Funcs[f]) /\ After(f, k)[1] = Funcs[f][k + 1]
                                  /\ Next1(After(f, k)) = After(f, k + 1)
<1>1. PICK s \in Seq(FuncItems) : s = Funcs[f]
  BY FuncsAssumption
<1>2. PICK n \in Nat : n = Len(s)
  OBVIOUS
<1>3. k \in 0 .. n
  BY <1>1, <1>2
<1>4. SubSeq(s, 1, n) = s
  BY <1>2
<1>5. PICK z : z = SubSeq(s, k + 1, n)
  OBVIOUS
<1>6. z \in Seq(FuncItems) /\ Len(z) = n - k /\ \A i \in 1 .. n - k : z[i] = s[k + i]
  BY <1>2, <1>3, <1>5
<1>7. z = <<>> => k = n
  BY <1>3, <1>6
<1>8. ASSUME z # <<>>
      PROVE  k + 1 \in 1 .. n /\ z[1] = s[k + 1] /\ Next1(z) = SubSeq(s, (k + 1) + 1, n)
  <2>1. Len(z) > 0
    BY <1>6, <1>8, NonEmpty
  <2>2. k + 1 \in 1 .. n /\ z[1] = s[k + 1]
    BY <1>3, <1>6, <2>1
  <2>3. PICK a, b : a = SubSeq(z, 2, Len(z)) /\ b = SubSeq(s, k + 2, n)
    OBVIOUS
  <2>4. a \in Seq(FuncItems) /\ Len(a) = n - k - 1 /\ \A i \in 1 .. n - k - 1 : a[i] = z[i + 1]
    BY <1>6, <2>1, <2>3
  <2>5. b \in Seq(FuncItems) /\ Len(b) = n - k - 1 /\ \A i \in 1 .. n - k - 1 : b[i] = s[k + 1 + i]
    BY <1>2, <2>2, <2>3
  <2>6. \A i \in 1 .. n - k - 1 : a[i] = b[i]
    BY <1>3, <1>6, <2>4, <2>5
  <2>7. a = b
    BY <2>4, <2>5, <2>6
  <2>8. (k + 1) + 1 = k + 2
    BY <1>3
  <2> QED
    BY <2>2, <2>3, <2>7, <2>8 DEF Next1
<1> QED
  BY <1>1, <1>2, <1>4, <1>5, <1>7, <1>8 DEF After

(* A frame that starts has lowered nothing.                                *)
LEMMA HalfwayStart ==
  ASSUME NEW x \in Frames, x.of \in FuncNames, Plain(x.of), x.items = Funcs[x.of], x.ops = <<>>
  PROVE  Halfway(x)
<1>1. PICK f \in FuncNames : f = x.of
  OBVIOUS
<1>2. x.path \in Seq(STRING) /\ <<>> \in Seq(FlatOps) /\ Funcs[f] \in Seq(FuncItems)
  BY FrameParts, FuncsAssumption
<1>3. 0 \in 0 .. Len(Funcs[f])
  BY <1>2
<1>4. After(f, 0) = Funcs[f] /\ Upto(f)[0] = <<>>
  BY <1>3, AfterIs, UptoIs DEF UptoFacts
<1>5. Tagged(<<>>, x.path) = <<>>
  <2>1. Tagged(<<>>, x.path) \in Seq(FlatOps) /\ Len(Tagged(<<>>, x.path)) = Len(<<>>)
    BY <1>2, TaggedIs
  <2>2. PICK z \in Seq(FlatOps) : z = Tagged(<<>>, x.path)
    BY <2>1
  <2>3. Len(z) = 0
    BY <2>1, <2>2
  <2>4. z = <<>>
    BY <2>3
  <2> QED
    BY <2>2, <2>4
<1> QED
  BY <1>1, <1>3, <1>4, <1>5 DEF Halfway

(* A frame that has ended has all ops of the function.                     *)
LEMMA HalfwayEnd ==
  ASSUME NEW x, Halfway(x), x.items = <<>>
  PROVE  x.ops = Tagged(Flat[x.of], x.path) /\ Flat[x.of] \in Seq(FlatOps)
<1>1. PICK f \in FuncNames : f = x.of
  BY DEF Halfway
<1>2. PICK k \in 0 .. Len(Funcs[f]) : x.items = After(f, k) /\ x.ops = Tagged(Upto(f)[k], x.path)
  BY <1>1 DEF Halfway
<1>3. k = Len(Funcs[f])
  BY <1>2, AfterIs
<1>4. Upto(f)[k] = Flat[f]
  BY <1>3, UptoIs DEF UptoFacts
<1> QED
  BY <1>1, <1>2, <1>4, FlatTyped

(* A frame that has not ended is at an item of the function.               *)
At(x, k) ==
  /\ k \in 1 .. Len(Funcs[x.of]) /\ x.items[1] = Funcs[x.of][k]
  /\ Next1(x.items) = After(x.of, k) /\ x.ops = Tagged(Upto(x.of)[k - 1], x.path)
(* There is such an item.                                                  *)
LEMMA HalfwayAt ==
  ASSUME NEW x, Halfway(x), x.items # <<>>
  PROVE  \E k : At(x, k)
<1>1. PICK f \in FuncNames : f = x.of
  BY DEF Halfway
<1>2. PICK k \in 0 .. Len(Funcs[f]) : x.items = After(f, k) /\ x.ops = Tagged(Upto(f)[k], x.path)
  BY <1>1 DEF Halfway
<1>3. k + 1 \in 1 .. Len(Funcs[f]) /\ x.items[1] = Funcs[f][k + 1] /\ Next1(x.items) = After(f, k + 1)
  BY <1>2, AfterIs
<1>4. PICK j : j = k + 1 /\ j - 1 = k
  BY <1>2
<1>5. At(x, j)
  BY <1>1, <1>2, <1>3, <1>4 DEF At
<1> QED
  BY <1>5

(* The item is an op or a tag, of a function that calls no kernel.         *)
LEMMA HalfwayItem ==
  ASSUME NEW x, Halfway(x), x.items # <<>>
  PROVE  /\ x.items[1] \in FuncItems /\ x.items[1][1] # "jit"
         /\ x.items[1][1] = "op" =>
              /\ x.items[1][2] \in STRING
              /\ FlatItem(Flat, x.items[1]) = <<Op(x.items[1][2], <<>>, 0)>>
         /\ x.items[1][1] = "tag" =>
              /\ x.items[1][2] \in STRING /\ x.items[1][3] \in FuncNames /\ Plain(x.items[1][3])
              /\ FlatItem(Flat, x.items[1]) = Tagged(Flat[x.items[1][3]], <<x.items[1][2]>>)
<1>1. x.of \in FuncNames /\ Plain(x.of)
  BY DEF Halfway
<1>2. PICK k : At(x, k)
  BY HalfwayAt
<1>3. PICK item : item = x.items[1]
  OBVIOUS
<1>4. k \in 1 .. Len(Funcs[x.of]) /\ item = Funcs[x.of][k]
  BY <1>2, <1>3 DEF At
<1>5. /\ item \in FuncItems
      /\ item[1] = "op" => item[2] \in STRING
      /\ item[1] = "tag" => item[2] \in STRING /\ item[3] \in FuncNames
  BY <1>1, <1>4, FuncItem
<1>6. item[1] # "jit" /\ (item[1] = "tag" => Plain(item[3]))
  BY <1>1, <1>4, PlainParts
<1>7. item[1] = "tag" => Flat[item[3]] \in Seq(FlatOps)
  BY <1>5, FlatTyped
<1>8. /\ item[1] = "op" => FlatItem(Flat, item) = <<Op(item[2], <<>>, 0)>>
      /\ item[1] = "tag" => FlatItem(Flat, item) = Tagged(Flat[item[3]], <<item[2]>>)
  BY <1>5, <1>7, FlatItemIs
<1> QED
  BY <1>3, <1>5, <1>6, <1>8

(* A frame goes on after an item, with the ops of the item.                *)
LEMMA HalfwayNext ==
  ASSUME NEW x \in Frames, Halfway(x), x.items # <<>>, NEW y, NEW ops, NEW kernels,
         Extended(x, y, ops, kernels), ops = Tagged(FlatItem(Flat, x.items[1]), x.path)
  PROVE  Halfway(y)
<1>1. x.of \in FuncNames /\ Plain(x.of) /\ x.path \in Seq(STRING)
  BY FrameParts DEF Halfway
<1>2. PICK k : At(x, k)
  BY HalfwayAt
<1>3. PICK f \in FuncNames : f = x.of
  BY <1>1
<1>4. PICK n \in Nat : n = Len(Funcs[f])
  BY FuncsAssumption
<1>5. k \in 1 .. n /\ k - 1 \in 0 .. n /\ k \in 0 .. n
  BY <1>2, <1>3, <1>4 DEF At
<1>6. PICK u : u = Upto(f)
  OBVIOUS
<1>7. /\ u[k - 1] \in Seq(FlatOps) /\ FlatItem(Flat, Funcs[f][k]) \in Seq(FlatOps)
      /\ u[k] = u[k - 1] \o FlatItem(Flat, Funcs[f][k])
  BY <1>4, <1>5, <1>6, UptoIs DEF UptoFacts
<1>8. Tagged(u[k], x.path) = Tagged(u[k - 1], x.path) \o Tagged(FlatItem(Flat, Funcs[f][k]), x.path)
  BY <1>1, <1>7, TaggedJoined
<1>9. /\ y.of = f /\ y.path = x.path /\ y.items = After(f, k)
      /\ y.ops = Tagged(u[k - 1], x.path) \o Tagged(FlatItem(Flat, Funcs[f][k]), x.path)
  BY <1>2, <1>3, <1>6 DEF At, Extended
<1> QED
  BY <1>1, <1>3, <1>4, <1>5, <1>6, <1>8, <1>9 DEF Halfway

(* A frame goes on with the ops of its item.                               *)
LEMMA ExtendingTags ==
  ASSUME LowerTypes, TagStack(stack, compat), NEW n \in 1 .. Len(stack), NEW ops, NEW kernels, NEW on,
         Extending(n, ops, kernels),
         \A i \in 1 .. n : Marked(stack[i]) =>
           /\ ~on /\ stack[n].items # <<>>
           /\ ops = Tagged(FlatItem(Flat, stack[n].items[1]), stack[n].path)
  PROVE  TagStack(stack', on)
<1>1. PICK x \in Frames : Became(stack, stack', n, x) /\ Extended(stack[n], x, ops, kernels)
  BY DEF Extending
<1>2. Len(stack) \in Nat /\ stack[n] \in Frames
  BY DEF LowerTypes
<1>3. Len(stack') = n /\ stack'[n] = x /\ \A i \in 1 .. n - 1 : stack'[i] = stack[i]
  BY <1>1 DEF Became
<1>4. x.ctx = stack[n].ctx /\ x.path = stack[n].path /\ x.of = stack[n].of
  BY <1>1 DEF Extended
<1>5. ASSUME NEW i \in 1 .. n
      PROVE  /\ stack'[i].ctx = stack[i].ctx /\ stack'[i].path = stack[i].path /\ stack'[i].of = stack[i].of
             /\ i \in 1 .. Len(stack) /\ (i # n => stack'[i] = stack[i])
  <2>1. i \in 1 .. Len(stack) /\ (i = n \/ i \in 1 .. n - 1)
    BY <1>2
  <2> QED
    BY <1>3, <1>4, <2>1
<1> SUFFICES ASSUME NEW i \in 1 .. n, Marked(stack'[i])
             PROVE  ~on /\ Regions(stack', i)
  BY <1>3 DEF TagStack
<1>6. Marked(stack[i])
  BY <1>5 DEF Marked
<1>7. Regions(stack, i)
  BY <1>5, <1>6 DEF TagStack
<1>8. \A j \in i .. n : j \in 1 .. n /\ j \in i .. Len(stack)
  BY <1>2
<1>9. ASSUME NEW j \in i .. n PROVE Halfway(stack'[j])
  <2>1. Halfway(stack[j])
    BY <1>7, <1>8 DEF Regions
  <2>2. CASE j = n
    BY <1>1, <1>2, <1>3, <1>6, <2>1, <2>2, HalfwayNext
  <2>3. CASE j # n
    BY <1>5, <1>8, <2>1, <2>3
  <2> QED
    BY <2>2, <2>3
<1>10. ASSUME NEW j \in i + 1 .. n PROVE TagOf(stack'[j - 1], stack'[j])
  <2>1. j \in i + 1 .. Len(stack) /\ j \in 1 .. n /\ j - 1 \in 1 .. n /\ j - 1 # n
    BY <1>2
  <2>2. TagOf(stack[j - 1], stack[j])
    BY <1>7, <2>1 DEF Regions
  <2>3. stack'[j - 1] = stack[j - 1]
    BY <1>5, <2>1
  <2>4. stack'[j].ctx = stack[j].ctx /\ stack'[j].path = stack[j].path /\ stack'[j].of = stack[j].of
    BY <1>5, <2>1
  <2> QED
    BY <2>2, <2>3, <2>4 DEF TagOf
<1>11. stack'[i].path = <<>>
  BY <1>5, <1>7 DEF Regions
<1> QED
  BY <1>3, <1>6, <1>9, <1>10, <1>11 DEF Regions

(* A new frame is a tag region of the frame below, or one for Jasc.        *)
LEMMA PushTags ==
  ASSUME LowerTypes, TagStack(stack, compat), NEW x \in Frames, NEW on,
         Became(stack, stack', Len(stack) + 1, x),
         \A i \in 1 .. Len(stack) : Marked(stack[i]) =>
           ~on /\ TagOf(stack[Len(stack)], x) /\ Halfway(x),
         Marked(x) => ~on /\ Halfway(x) /\ x.path = <<>>
  PROVE  TagStack(stack', on)
<1>1. PICK n \in Nat : n = Len(stack)
  BY DEF LowerTypes
<1>2. Len(stack') = n + 1 /\ stack'[n + 1] = x /\ \A i \in 1 .. n : stack'[i] = stack[i]
  BY <1>1 DEF Became
<1> SUFFICES ASSUME NEW i \in 1 .. n + 1, Marked(stack'[i])
             PROVE  ~on /\ Regions(stack', i)
  BY <1>2 DEF TagStack
<1>3. CASE i = n + 1
  <2>1. ~on /\ Halfway(x) /\ x.path = <<>>
    BY <1>2, <1>3
  <2>2. \A j \in i .. n + 1 : j = n + 1
    BY <1>3
  <2>3. \A j \in i + 1 .. n + 1 : FALSE
    BY <1>3
  <2> QED
    BY <1>2, <1>3, <2>1, <2>2, <2>3 DEF Regions
<1>4. CASE i # n + 1
  <2>1. i \in 1 .. n
    BY <1>4
  <2>2. Marked(stack[i]) /\ stack'[i] = stack[i]
    BY <1>2, <2>1
  <2>3. Regions(stack, i) /\ ~on /\ TagOf(stack[n], x) /\ Halfway(x)
    BY <1>1, <2>1, <2>2 DEF TagStack
  <2>4. ASSUME NEW j \in i .. n + 1 PROVE Halfway(stack'[j])
    <3>1. j = n + 1 \/ (j \in i .. n /\ j \in 1 .. n)
      BY <2>1
    <3> QED
      BY <1>1, <1>2, <2>3, <3>1 DEF Regions
  <2>5. ASSUME NEW j \in i + 1 .. n + 1 PROVE TagOf(stack'[j - 1], stack'[j])
    <3>1. CASE j = n + 1
      <4>1. j - 1 = n /\ n \in 1 .. n
        BY <2>1, <3>1
      <4> QED
        BY <1>2, <2>3, <3>1, <4>1
    <3>2. CASE j # n + 1
      <4>1. j \in i + 1 .. n /\ j \in 1 .. n /\ j - 1 \in 1 .. n
        BY <2>1, <3>2
      <4> QED
        BY <1>1, <1>2, <2>3, <4>1 DEF Regions
    <3> QED
      BY <3>1, <3>2
  <2>6. stack'[i].path = <<>>
    BY <2>2, <2>3 DEF Regions
  <2> QED
    BY <1>2, <2>3, <2>4, <2>5, <2>6 DEF Regions
<1> QED
  BY <1>3, <1>4

(* What is above a frame for Jasc: the top is a part of it.                *)
LEMMA TopOfMarked ==
  ASSUME LowerTypes, TagStack(stack, compat), NEW i \in 1 .. Len(stack), Marked(stack[i])
  PROVE  /\ Halfway(stack[Len(stack)]) /\ ~compat
         /\ i # Len(stack) => TagOf(stack[Len(stack) - 1], stack[Len(stack)])
<1>1. Regions(stack, i) /\ ~compat
  BY DEF TagStack
<1>2. Len(stack) \in i .. Len(stack) /\ (i # Len(stack) => Len(stack) \in i + 1 .. Len(stack))
  BY DEF LowerTypes
<1> QED
  BY <1>1, <1>2 DEF Regions

(* A module or a kernel has every tag of its function, unless JAX lowered  *)
(* it before or it calls a kernel.                                         *)
Kept(m) == m.cached \/ ~Plain(m.of) \/ m.ops = Flat[m.of]
AllKept(s) == \A i \in 1 .. Len(s) : Kept(s[i])

(* What has the same ops has the same tags.                                *)
LEMMA SameKept ==
  ASSUME NEW a, NEW b, Same(a, b), Kept(b)
  PROVE  Kept(a)
BY DEF Same, Kept

(* One more module or kernel.                                              *)
LEMMA AppendKept ==
  ASSUME NEW S, NEW s \in Seq(S), NEW e \in S, AllKept(s), Kept(e)
  PROVE  AllKept(Append(s, e))
<1>1. PICK z : z = Append(s, e)
  OBVIOUS
<1>2. /\ Len(z) = Len(s) + 1 /\ z[Len(s) + 1] = e /\ Len(s) \in Nat
      /\ \A i \in 1 .. Len(s) : z[i] = s[i]
  BY <1>1
<1>3. \A i \in 1 .. Len(z) : i = Len(s) + 1 \/ i \in 1 .. Len(s)
  BY <1>2
<1>4. AllKept(z)
  BY <1>2, <1>3 DEF AllKept
<1> QED
  BY <1>1, <1>4

(* One module is replaced.                                                 *)
LEMMA ExceptKept ==
  ASSUME NEW S, NEW s \in Seq(S), NEW m \in 1 .. Len(s), NEW e \in S, AllKept(s), Kept(e)
  PROVE  AllKept([s EXCEPT ![m] = e])
<1>1. PICK z : z = [s EXCEPT ![m] = e]
  OBVIOUS
<1>2. Len(z) = Len(s) /\ z[m] = e /\ \A i \in 1 .. Len(s) : i # m => z[i] = s[i]
  BY <1>1
<1>3. AllKept(z)
  BY <1>2 DEF AllKept
<1> QED
  BY <1>1, <1>3

(* A frame for Jasc that has ended leaves all tags.                        *)
LEMMA EndedKept ==
  ASSUME LowerTypes, TagStack(stack, compat), stack # <<>>, Top.ctx \in {"jit", "stablehlo"}, Top.items = <<>>,
         NEW m, m.of = Top.of, m.ops = Top.ops
  PROVE  Kept(m)
<1>1. CASE ~Plain(Top.of)
  BY <1>1 DEF Kept
<1>2. CASE Plain(Top.of)
  <2>1. Len(stack) \in 1 .. Len(stack)
    BY DEF LowerTypes
  <2>2. Regions(stack, Len(stack)) /\ Len(stack) \in Len(stack) .. Len(stack)
    BY <1>2, <2>1 DEF TagStack, Marked, Top
  <2>3. Halfway(Top) /\ Top.path = <<>>
    BY <2>2 DEF Regions, Top
  <2>4. Top.ops = Tagged(Flat[Top.of], <<>>) /\ Flat[Top.of] \in Seq(FlatOps)
    BY <2>3, HalfwayEnd
  <2>5. Top.ops = Flat[Top.of]
    BY <2>4, TaggedNone
  <2> QED
    BY <2>5 DEF Kept
<1> QED
  BY <1>1, <1>2

(* The stack, the modules, the kernels and the module that tune() printed. *)
TagLow == TagStack(stack, compat) /\ AllKept(modules) /\ AllKept(code)
TagInv == TagLow /\ (tuner # Nothing /\ tuner.step # "lower" => Kept(tuner.printed))

(* One op under a path.                                                    *)
LEMMA TaggedOne ==
  ASSUME NEW name \in OpNames, NEW p \in Seq(STRING)
  PROVE  Tagged(<<Op(name, <<>>, 0)>>, p) = <<Op(name, p, 0)>>
<1>1. PICK a, b : a = Op(name, <<>>, 0) /\ b = Op(name, p, 0)
  OBVIOUS
<1>2. a \in FlatOps /\ b \in FlatOps
  BY <1>1 DEF Op, FlatOps
<1>3. Under(a, p) = b
  <2>1. <<>> \o p = p
    OBVIOUS
  <2>2. a.tags = <<>>
    BY <1>1 DEF Op
  <2>3. Under(a, p) = [a EXCEPT !.tags = p]
    BY <2>1, <2>2 DEF Under
  <2> QED
    BY <1>1, <2>3 DEF Op
<1>4. PICK s \in Seq(FlatOps) : s = <<a>> /\ Len(s) = 1 /\ s[1] = a
  <2>1. <<a>> \in Seq(FlatOps) /\ Len(<<a>>) = 1 /\ <<a>>[1] = a
    BY <1>2
  <2> QED
    BY <2>1
<1>5. PICK z : z = Tagged(s, p)
  OBVIOUS
<1>6. z \in Seq(FlatOps) /\ Len(z) = 1 /\ z[1] = b
  BY <1>3, <1>4, <1>5, TaggedIs
<1>7. z = <<b>>
  BY <1>6
<1> QED
  BY <1>1, <1>4, <1>5, <1>7

(* An empty stack.                                                         *)
LEMMA EmptyTags ==
  ASSUME NEW on
  PROVE  TagStack(<<>>, on)
<1>1. \A i \in 1 .. Len(<<>>) : FALSE
  OBVIOUS
<1> QED
  BY <1>1 DEF TagStack

(* A stack whose one frame is not for Jasc, or has just started.           *)
LEMMA SingleTags ==
  ASSUME NEW x \in Frames, NEW on, Marked(x) => ~on /\ Halfway(x) /\ x.path = <<>>
  PROVE  TagStack(<<x>>, on)
<1>1. PICK s : s = <<x>>
  OBVIOUS
<1>2. Len(s) = 1 /\ s[1] = x
  BY <1>1
<1>3. /\ \A i \in 1 .. 1 : i = 1
      /\ \A j \in 1 .. 1 : j = 1
      /\ \A j \in 1 + 1 .. 1 : FALSE
  OBVIOUS
<1>4. Marked(x) => Regions(s, 1)
  BY <1>2, <1>3 DEF Regions
<1>5. TagStack(s, on)
  BY <1>2, <1>3, <1>4 DEF TagStack
<1> QED
  BY <1>1, <1>5

(* An op of a function for Jasc is lowered under the tags around it.       *)
LEMMA LowerOpTags ==
  ASSUME LowerTypes, StackShape, TagStack(stack, compat), LowerOp
  PROVE  TagStack(stack', compat')
<1>1. PICK op \in Ops : Extending(Len(stack), <<op>>, {}) /\ op = Op(Top.items[1][2], Top.path, 0)
  BY LowerOpEffect
<1>2. /\ Len(stack) \in 1 .. Len(stack) /\ Top = stack[Len(stack)] /\ Top \in Frames /\ Top.items # <<>>
      /\ Top.items[1][1] = "op" /\ compat' = compat
  BY TopParts DEF LowerOp
<1>3. ASSUME NEW i \in 1 .. Len(stack), Marked(stack[i])
      PROVE  ~compat /\ <<op>> = Tagged(FlatItem(Flat, Top.items[1]), Top.path)
  <2>1. Halfway(Top) /\ ~compat
    BY <1>2, <1>3, TopOfMarked
  <2>2. PICK name \in OpNames : name = Top.items[1][2]
    BY <1>2, <2>1, HalfwayItem DEF OpNames
  <2>3. FlatItem(Flat, Top.items[1]) = <<Op(name, <<>>, 0)>>
    BY <1>2, <2>1, <2>2, HalfwayItem
  <2>4. Top.path \in Seq(STRING)
    BY <1>2, FrameParts
  <2>5. Tagged(<<Op(name, <<>>, 0)>>, Top.path) = <<Op(name, Top.path, 0)>>
    BY <2>4, TaggedOne
  <2> QED
    BY <1>1, <2>1, <2>2, <2>3, <2>5
<1>4. \A i \in 1 .. Len(stack) : Marked(stack[i]) =>
        /\ ~compat /\ stack[Len(stack)].items # <<>>
        /\ <<op>> = Tagged(FlatItem(Flat, stack[Len(stack)].items[1]), stack[Len(stack)].path)
  BY <1>2, <1>3
<1> QED
  BY <1>1, <1>2, <1>4, ExtendingTags

(* tag starts a region, because the switch is off.                         *)
LEMMA TagLoweringTags ==
  ASSUME LowerTypes, StackShape, TagStack(stack, compat), TagLowering
  PROVE  TagStack(stack', compat')
<1>1. PICK x \in Frames, name \in STRING :
        /\ Became(stack, stack', Len(stack) + 1, x)
        /\ x.ctx = "tag" /\ x.path = TagPath(Top.path, name) /\ x.ops = <<>>
        /\ x.of = Top.items[1][3] /\ x.items = Funcs[x.of] /\ name = Top.items[1][2]
  BY TagLoweringEffect
<1>2. /\ Len(stack) \in 1 .. Len(stack) /\ Top = stack[Len(stack)] /\ Top.items # <<>>
      /\ Top.items[1][1] = "tag" /\ compat' = compat
  BY TopParts DEF TagLowering
<1>3. ASSUME NEW i \in 1 .. Len(stack), Marked(stack[i])
      PROVE  ~compat /\ TagOf(Top, x) /\ Halfway(x)
  <2>1. Halfway(Top) /\ ~compat
    BY <1>2, <1>3, TopOfMarked
  <2>2. x.of \in FuncNames /\ Plain(x.of)
    BY <1>1, <1>2, <2>1, HalfwayItem
  <2>3. Halfway(x)
    BY <1>1, <2>2, HalfwayStart
  <2>4. x.path = <<Top.items[1][2]>> \o Top.path
    BY <1>1, <2>1 DEF TagPath
  <2> QED
    BY <1>1, <1>2, <2>1, <2>3, <2>4 DEF TagOf
<1>4. ~Marked(x)
  BY <1>1 DEF Marked
<1> QED
  BY <1>1, <1>2, <1>3, <1>4, PushTags

(* A region that ends gives its caller the ops of the tagged function.     *)
LEMMA EndTagTags ==
  ASSUME LowerTypes, StackShape, TagStack(stack, compat), EndTag
  PROVE  TagStack(stack', compat')
<1>1. PICK n : n = Len(stack) - 1
  OBVIOUS
<1>2. n \in 1 .. Len(stack) /\ Extending(n, Top.ops, Top.keepalive)
  BY <1>1, EndTagEffect
<1>3. Top = stack[Len(stack)] /\ Top.items = <<>> /\ Top.ctx = "tag" /\ compat' = compat
  BY TopParts DEF EndTag
<1>4. stack[n] \in Frames /\ stack[n].path \in Seq(STRING)
  BY <1>2, StackParts, FrameParts
<1>5. \A i \in 1 .. n : i \in 1 .. Len(stack) /\ i # Len(stack)
  BY <1>1, <1>2 DEF LowerTypes
<1>6. ASSUME NEW i \in 1 .. n, Marked(stack[i])
      PROVE  /\ ~compat /\ stack[n].items # <<>>
             /\ Top.ops = Tagged(FlatItem(Flat, stack[n].items[1]), stack[n].path)
  <2>1. Halfway(Top) /\ ~compat /\ TagOf(stack[n], Top)
    BY <1>1, <1>3, <1>5, <1>6, TopOfMarked
  <2>2. Halfway(stack[n])
    <3>1. n \in i .. Len(stack) /\ Regions(stack, i)
      BY <1>2, <1>5, <1>6 DEF TagStack
    <3> QED
      BY <3>1 DEF Regions
  <2>3. PICK item : item = stack[n].items[1]
    OBVIOUS
  <2>4. /\ stack[n].items # <<>> /\ item[1] = "tag" /\ Top.of = item[3]
        /\ Top.path = <<item[2]>> \o stack[n].path
    BY <2>1, <2>3 DEF TagOf
  <2>5. item[2] \in STRING /\ FlatItem(Flat, item) = Tagged(Flat[item[3]], <<item[2]>>)
    BY <2>2, <2>3, <2>4, HalfwayItem
  <2>6. Top.ops = Tagged(Flat[item[3]], Top.path) /\ Flat[item[3]] \in Seq(FlatOps)
    BY <1>3, <2>1, <2>4, HalfwayEnd
  <2>7. <<item[2]>> \in Seq(STRING)
    BY <2>5
  <2>8. Tagged(Tagged(Flat[item[3]], <<item[2]>>), stack[n].path) = Tagged(Flat[item[3]], <<item[2]>> \o stack[n].path)
    BY <1>4, <2>6, <2>7, TaggedTwice
  <2> QED
    BY <2>1, <2>3, <2>4, <2>5, <2>6, <2>8
<1> QED
  BY <1>2, <1>3, <1>6, ExtendingTags

(* jit is never reached under a frame whose function calls no kernel.      *)
LEMMA NoJit ==
  ASSUME LowerTypes, StackShape, TagStack(stack, compat), stack # <<>>, Top.items # <<>>,
         Top.items[1][1] = "jit"
  PROVE  \A i \in 1 .. Len(stack) : ~Marked(stack[i])
<1> SUFFICES ASSUME NEW i \in 1 .. Len(stack), Marked(stack[i]) PROVE FALSE
  OBVIOUS
<1>1. Halfway(Top)
  BY TopOfMarked DEF Top
<1> QED
  BY <1>1, HalfwayItem

(* jit starts a frame for Jasc, with the switch off.                       *)
LEMMA JitLoweringTags ==
  ASSUME LowerTypes, StackShape, TagStack(stack, compat), JitLowering
  PROVE  TagStack(stack', compat')
<1>1. PICK x \in Frames : /\ Became(stack, stack', Len(stack) + 1, x)
                          /\ x.ctx = "jit" /\ x.ops = <<>> /\ x.path = <<>>
                          /\ x.of \in FuncNames /\ x.items = Funcs[x.of]
  BY JitLoweringEffect
<1>2. \A i \in 1 .. Len(stack) : ~Marked(stack[i])
  BY NoJit DEF JitLowering
<1>3. ~compat'
  BY DEF JitLowering
<1>4. Marked(x) => Halfway(x)
  BY <1>1, HalfwayStart DEF Marked
<1> QED
  BY <1>1, <1>2, <1>3, <1>4, PushTags

(* Every step of a lowering keeps the tags.                                *)
LEMMA LoweringStepTags ==
  ASSUME LowerTypes, StackShape, TagLow, LoweringStep
  PROVE  TagLow'
<1>0. TagStack(stack, compat) /\ AllKept(modules) /\ AllKept(code) /\ modules \in Seq(Modules) /\ code \in Seq(Kernels)
  BY DEF TagLow, LowerTypes
<1>1. CASE LowerOp
  BY <1>0, <1>1, LowerOpTags DEF LowerOp, TagLow
<1>2. CASE TagLowering
  BY <1>0, <1>2, TagLoweringTags DEF TagLowering, TagLow
<1>3. CASE EndTag
  BY <1>0, <1>3, EndTagTags DEF EndTag, TagLow
<1>4. CASE JitLowering
  BY <1>0, <1>4, JitLoweringTags DEF JitLowering, TagLow
<1>5. CASE Unwind
  BY <1>0, <1>5, EmptyTags DEF Unwind, TagLow
<1>6. CASE EndJit /\ ~Unwind
  <2>1. PICK n : n = Len(stack) - 1
    OBVIOUS
  <2>2. PICK op \in Ops : Extending(n, <<op>>, {NewKernel})
    BY <1>6, <2>1, EndJitEffect
  <2>3. n \in 1 .. Len(stack) /\ UNCHANGED modules
    BY <1>6, <2>1, EndJitEffect
  <2>4. PICK k \in Kernels : code' = Append(code, k) /\ k.of = Top.of /\ k.ops = Top.ops
    BY <1>6, EndJitEffect
  <2>5. stack # <<>> /\ Top.items = <<>> /\ Top.ctx = "jit" /\ Top = stack[Len(stack)]
    BY <1>6 DEF EndJit, Top
  <2>6. ASSUME NEW i \in 1 .. n, Marked(stack[i]) PROVE FALSE
    <3>1. i \in 1 .. Len(stack) /\ i # Len(stack)
      BY <2>1, <2>3 DEF LowerTypes
    <3>2. TagOf(stack[Len(stack) - 1], Top)
      BY <1>0, <2>5, <2>6, <3>1, TopOfMarked
    <3> QED
      BY <2>5, <3>2 DEF TagOf
  <2>7. TagStack(stack', compat')
    BY <1>0, <2>2, <2>3, <2>6, ExtendingTags
  <2>8. Kept(k)
    BY <1>0, <2>4, <2>5, EndedKept
  <2>9. AllKept(code')
    BY <1>0, <2>4, <2>8, AppendKept
  <2> QED
    BY <1>0, <2>3, <2>7, <2>9 DEF TagLow
<1>7. CASE JitModule /\ ~Unwind
  <2>1. PICK m : m = Top.items[1][3]
    OBVIOUS
  <2>2. m \in 1 .. Len(modules)
    BY <1>7, <2>1, JitModuleEffect
  <2>3. CASE stack' = <<>> /\ UNCHANGED <<modules, code>>
    BY <1>0, <2>3, EmptyTags DEF TagLow
  <2>4. CASE /\ \E op \in Ops : Extending(Len(stack), <<op>>, {NewKernel})
             /\ \E k \in Kernels : code' = Append(code, k) /\ Same(k, modules[m])
             /\ \E mod \in Modules : modules' = [modules EXCEPT ![m] = mod] /\ Same(mod, modules[m])
    <3>1. PICK op \in Ops : Extending(Len(stack), <<op>>, {NewKernel})
      BY <2>4
    <3>2. PICK k \in Kernels : code' = Append(code, k) /\ Same(k, modules[m])
      BY <2>4
    <3>3. PICK mod \in Modules : modules' = [modules EXCEPT ![m] = mod] /\ Same(mod, modules[m])
      BY <2>4
    <3>4. Kept(modules[m])
      BY <1>0, <2>2 DEF AllKept
    <3>5. Kept(k) /\ Kept(mod)
      BY <3>2, <3>3, <3>4, SameKept
    <3>6. AllKept(code')
      BY <1>0, <3>2, <3>5, AppendKept
    <3>7. AllKept(modules')
      BY <1>0, <2>2, <3>3, <3>5, ExceptKept
    <3>8. stack # <<>> /\ Top.items # <<>> /\ Top.items[1][1] = "jit"
      BY <1>7 DEF JitModule
    <3>9. \A i \in 1 .. Len(stack) : ~Marked(stack[i])
      BY <1>0, <3>8, NoJit
    <3>10. Len(stack) \in 1 .. Len(stack)
      BY <3>8, TopParts
    <3>11. TagStack(stack', compat')
      BY <1>0, <3>1, <3>9, <3>10, ExtendingTags
    <3> QED
      BY <3>6, <3>7, <3>11 DEF TagLow
  <2> QED
    BY <1>7, <2>1, <2>3, <2>4, JitModuleEffect
<1>8. CASE EndRun
  BY <1>0, <1>8, EmptyTags DEF EndRun, TagLow
<1>9. CASE EndLowering
  <2>1. PICK mod \in Modules : modules' = Append(modules, mod) /\ mod.of = Top.of /\ mod.ops = Top.ops
    BY <1>9, EndLoweringEffect
  <2>2. Top.items = <<>> /\ Top.ctx = "stablehlo" /\ stack' = <<>> /\ UNCHANGED code
    BY <1>9 DEF EndLowering
  <2>3. stack # <<>>
    BY StepNonEmpty
  <2>4. Kept(mod)
    BY <1>0, <2>1, <2>2, <2>3, EndedKept
  <2>5. AllKept(modules')
    BY <1>0, <2>1, <2>4, AppendKept
  <2> QED
    BY <1>0, <2>2, <2>5, EmptyTags DEF TagLow
<1> QED
  BY <1>1, <1>2, <1>3, <1>4, <1>5, <1>6, <1>7, <1>8, <1>9 DEF LoweringStep

(* A run starts a lowering for JAX; lower_to_stablehlo one for Jasc, or it *)
(* takes a module from the cache.                                          *)
LEMMA RunTags ==
  ASSUME LowerTypes, StackShape, TagLow, Idle, NEW w \in Works, Run(w),
         w[1] = "jit" => w[3] \in 0 .. Len(modules)
  PROVE  TagLow'
<1>1. CASE RunsAgain(w) \/ UsesLowering(w)
  BY <1>1 DEF RunsAgain, UsesLowering, TagLow
<1>2. CASE \E x \in Frames : StartsLowering(x) /\ x.ctx = "jax"
  <2>1. PICK x \in Frames : StartsLowering(x) /\ x.ctx = "jax"
    BY <1>2
  <2>2. ~Marked(x)
    BY <2>1 DEF Marked
  <2>3. TagStack(<<x>>, compat')
    BY <2>2, SingleTags
  <2> QED
    BY <2>1, <2>3 DEF StartsLowering, TagLow
<1> QED
  BY <1>1, <1>2, RunEffect

(* lower_to_stablehlo starts a frame for Jasc, or says that it was cached. *)
LEMMA LowerToStablehloTags ==
  ASSUME LowerTypes, StackShape, TagLow, Idle, NEW f \in FuncNames, lower_to_stablehlo(f)
  PROVE  TagLow'
<1>1. CASE /\ \E mod \in Modules : modules' = Append(modules, mod) /\ mod.cached = TRUE
           /\ UNCHANGED <<compat, stack, code>>
  <2>1. PICK mod \in Modules : modules' = Append(modules, mod) /\ mod.cached = TRUE
    BY <1>1
  <2>2. Kept(mod)
    BY <2>1 DEF Kept
  <2>3. AllKept(modules')
    BY <2>1, <2>2, AppendKept DEF TagLow, LowerTypes
  <2> QED
    BY <1>1, <2>3 DEF TagLow
<1>2. CASE \E x \in Frames : /\ StartsLowering(x) /\ x.ctx = "stablehlo" /\ compat' = FALSE
                             /\ x.of = f /\ x.items = Funcs[f]
  <2>1. PICK x \in Frames : /\ StartsLowering(x) /\ x.ctx = "stablehlo" /\ compat' = FALSE
                            /\ x.of = f /\ x.items = Funcs[f]
    BY <1>2
  <2>2. x.ops = <<>> /\ x.path = <<>> /\ stack' = <<x>> /\ UNCHANGED <<modules, code>>
    BY <2>1 DEF StartsLowering
  <2>3. Marked(x) => Halfway(x)
    BY <2>1, <2>2, HalfwayStart DEF Marked
  <2>4. TagStack(<<x>>, compat')
    BY <2>1, <2>2, <2>3, SingleTags
  <2> QED
    BY <2>2, <2>4 DEF TagLow
<1> QED
  BY <1>1, <1>2, LowerToStablehloEffect

(* Every step keeps the tags.                                              *)
LEMMA TagInvNext ==
  ASSUME JascInv, TagInv, [Next]_vars
  PROVE  TagInv'
<1> USE DEF JascInv
<1>0. TagLow /\ (tuner # Nothing /\ tuner.step # "lower" => Kept(tuner.printed))
  BY DEF TagInv
<1>1. CASE UNCHANGED vars
  BY <1>1 DEF TagInv, TagLow, vars, lvars
<1>2. CASE LoweringStep /\ UNCHANGED <<tuner, tuned>>
  <2>1. TagLow'
    BY <1>0, <1>2, LoweringStepTags
  <2> QED
    BY <1>0, <1>2, <2>1 DEF TagInv, TagLow
<1>3. CASE Program
  <2>1. Idle /\ UNCHANGED tuner
    BY <1>3 DEF Program
  <2>2. ASSUME NEW f \in Entries, Run(Jax(f)) \/ Run(jit(f, 0)) \/ lower_to_stablehlo(f)
        PROVE  TagLow'
    <3>1. f \in FuncNames /\ Len(modules) \in Nat
      BY TunerAssumption DEF FuncNames, LowerTypes
    <3>2. Jax(f) \in Works /\ Jax(f)[1] = "jax"
      BY <3>1 DEF Jax, Works
    <3>3. jit(f, 0) \in Works /\ jit(f, 0)[3] \in 0 .. Len(modules)
      BY <3>1 DEF jit, Works, Jitted
    <3>4. CASE Run(Jax(f))
      BY <1>0, <2>1, <3>2, <3>4, RunTags
    <3>5. CASE Run(jit(f, 0))
      BY <1>0, <2>1, <3>3, <3>5, RunTags
    <3>6. CASE lower_to_stablehlo(f)
      BY <1>0, <2>1, <3>1, <3>6, LowerToStablehloTags
    <3> QED
      BY <2>2, <3>4, <3>5, <3>6
  <2>3. ASSUME tuned # Nothing, tuned.best_fun # None, Run(tuned.best_fun)
        PROVE  TagLow'
    <3>1. tuned.best_fun \in Works
      BY <2>3, SomeTuner DEF Tuners, Works
    <3>2. tuned.best_fun[3] \in 1 .. Len(modules)
      BY <2>3 DEF TunerInv, BestRuns
    <3>3. tuned.best_fun[3] \in 0 .. Len(modules)
      BY <3>2 DEF LowerTypes
    <3> QED
      BY <1>0, <2>1, <2>3, <3>1, <3>3, RunTags
  <2>4. TagLow'
    BY <1>3, <2>2, <2>3 DEF Program
  <2> QED
    BY <1>0, <2>1, <2>4 DEF TagInv, TagLow
<1>4. CASE \E f \in Entries : StartTuning(f)
  <2>1. PICK f \in Entries : Idle /\ lower_to_stablehlo(f) /\ tuner' = Tuning(f)
    BY <1>4 DEF StartTuning
  <2>2. f \in FuncNames
    BY TunerAssumption DEF FuncNames
  <2>3. TagLow'
    BY <1>0, <2>1, <2>2, LowerToStablehloTags
  <2>4. tuner'.step = "lower"
    BY <2>1 DEF Tuning
  <2> QED
    BY <2>3, <2>4 DEF TagInv, TagLow
<1>5. CASE Aborted
  BY <1>0, <1>5 DEF Aborted, lvars, TagInv, TagLow
<1>6. CASE PrepareModule /\ ~Aborted
  <2> DEFINE n == Len(modules)
             mod == Prepared(modules[n])
  <2>1. /\ outcome # "raised" /\ outcome # "crashed" /\ stack = <<>> /\ tuner \in Tuners /\ tuner # Nothing
        /\ tuner.step = "lower"
    BY <1>6, SomeTuner DEF PrepareModule, Idle
  <2>2. /\ modules' = [modules EXCEPT ![n] = mod]
        /\ tuner' = [tuner EXCEPT !.step = "loop", !.printed = mod]
        /\ UNCHANGED <<compat, stack, code>>
    BY <1>6 DEF PrepareModule
  <2>3. Fresh(modules)
    BY <2>1 DEF TunerInv, Phase
  <2>4. n \in 1 .. Len(modules) /\ modules[n] \in Modules /\ modules[n].schedules = <<>>
    BY <2>3 DEF Fresh, LowerTypes
  <2>5. mod \in Modules /\ Same(mod, modules[n])
    BY <2>4, PreparedIs DEF Printed
  <2> HIDE DEF mod, n
  <2>6. Kept(mod)
    BY <1>0, <2>4, <2>5, SameKept DEF TagLow, AllKept
  <2>7. AllKept(modules')
    BY <1>0, <2>2, <2>4, <2>5, <2>6, ExceptKept DEF TagLow, LowerTypes
  <2>8. tuner'.printed = mod
    BY <2>1, <2>2 DEF Tuners
  <2> QED
    BY <1>0, <2>2, <2>6, <2>7, <2>8 DEF TagInv, TagLow
<1>7. CASE Round /\ ~Aborted
  <2>1. /\ stack = <<>> /\ tuner \in Tuners /\ tuner # Nothing /\ tuner.step = "loop"
        /\ Printed(tuner.printed) /\ Kept(tuner.printed)
    BY <1>0, <1>7, SomeTuner DEF Round, Idle, TunerInv, Phase
  <2>2. PICK config \in OtherConfigs \cup {get_tuning_config(get_tuning_vars(tuner.printed), tuner.previous)} :
          /\ modules' = Append(modules, apply_schedule(insert_schedule(tuner.printed, Meta(config))))
          /\ \E w : stack' = <<Frame("jax", <<w>>, <<>>, w)>>
          /\ tuner' = [tuner EXCEPT !.step = "timing", !.config = config]
          /\ UNCHANGED code
    BY <1>7 DEF Round, Parsed
  <2>3. config \in Seq(Int)
    BY <2>1, <2>2, ConfigTyped, TunerAssumption
  <2> DEFINE mod == apply_schedule(insert_schedule(tuner.printed, Meta(config)))
  <2>4. mod \in Modules /\ Same(mod, tuner.printed)
    BY <2>1, <2>3, AppliedIs
  <2>5. modules' = Append(modules, mod)
    BY <2>2
  <2> HIDE DEF mod
  <2>6. Kept(mod)
    BY <2>1, <2>4, SameKept
  <2>7. AllKept(modules')
    BY <1>0, <2>4, <2>5, <2>6, AppendKept DEF TagLow, LowerTypes
  <2>8. PICK w : stack' = <<Frame("jax", <<w>>, <<>>, w)>>
    BY <2>2
  <2>9. ~Marked(Frame("jax", <<w>>, <<>>, w))
    BY DEF Marked, Frame
  <2>10. TagStack(stack', compat')
    <3>1. PICK x : x = Frame("jax", <<w>>, <<>>, w)
      OBVIOUS
    <3>2. Len(stack') = 1 /\ stack'[1] = x
      BY <2>8, <3>1
    <3>3. \A i \in 1 .. 1 : i = 1
      OBVIOUS
    <3> QED
      BY <2>9, <3>1, <3>2, <3>3 DEF TagStack
  <2>11. tuner'.printed = tuner.printed
    BY <2>1, <2>2 DEF Tuners
  <2> QED
    BY <1>0, <2>1, <2>2, <2>7, <2>10, <2>11 DEF TagInv, TagLow
<1>8. CASE Timed
  <2>1. UNCHANGED <<compat, stack, modules, code>>
    BY <1>8 DEF Timed, Record, lvars
  <2>2. tuner \in Tuners /\ tuner # Nothing /\ tuner.step = "timing"
    BY <1>8, SomeTuner DEF Timed
  <2>3. tuner'.printed = tuner.printed
    BY <1>8, <2>2 DEF Timed, Record, Tuners
  <2> QED
    BY <1>0, <2>1, <2>2, <2>3 DEF TagInv, TagLow
<1>9. CASE ReturnTuned \/ Over
  BY <1>0, <1>9 DEF ReturnTuned, Over, vars, lvars, TagInv, TagLow
<1> QED
  BY <1>1, <1>2, <1>3, <1>4, <1>5, <1>6, <1>7, <1>8, <1>9 DEF Next

(* For all functions, however tag and jit nest, and all schedules and      *)
(* rounds of the tuner: a kernel and a module that were lowered for Jasc   *)
(* have every tag of the function, innermost first.                        *)
THEOREM TagsAlways == Spec => []TagsKept
<1>1. Init => TagInv
  <2> SUFFICES ASSUME Init PROVE TagInv
    OBVIOUS
  <2>1. stack = <<>> /\ modules = <<>> /\ code = <<>> /\ tuner = Nothing
    BY DEF Init, LoweringInit
  <2>2. \A i \in 1 .. Len(<<>>) : FALSE
    OBVIOUS
  <2> QED
    BY <2>1, <2>2, EmptyTags DEF TagInv, TagLow, AllKept
<1>2. JascInv /\ TagInv /\ [Next]_vars => TagInv'
  BY TagInvNext
<1>3. JascInv /\ TagInv => TagsKept
  <2> SUFFICES ASSUME JascInv, TagInv PROVE TagsKept
    OBVIOUS
  <2>1. DOMAIN code = 1 .. Len(code) /\ DOMAIN modules = 1 .. Len(modules)
    BY DEF JascInv, LowerTypes
  <2> QED
    BY <2>1 DEF TagInv, TagLow, AllKept, Kept, Plain, TagsKept
<1> QED
  BY <1>1, <1>2, <1>3, JascInvAlways, PTL DEF Spec
=============================================================================
