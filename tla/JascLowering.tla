---------------------------- MODULE JascLowering ----------------------------
(***************************************************************************)
(* jasc/primitives.py and the functions of jasc/jasc.py that lower and      *)
(* compile: jit, tag, lower_to_stablehlo, insert_schedule, apply_schedule.  *)
(*                                                                         *)
(* A function is a sequence of items: <<"op", name>>, <<"tag", name, f>> for *)
(* a call of tag(f, name), <<"jit", f, m>> for a call of jit(f), or of       *)
(* jit(f, module=m) when m is not 0.  A lowered op carries the names of the  *)
(* tag regions around it, innermost first, as LowerTagRegionsPass writes     *)
(* them, and the identifier of the kernel it calls, 0 for none.  JAX traces  *)
(* and lowers depth first on one thread: stack holds what is being lowered.  *)
(***************************************************************************)
EXTENDS Integers, Sequences, FiniteSets, SequencesExt

CONSTANTS Funcs,     \* name -> items
          MaxCalls   \* bound on the calls of the program

(* A function is traced before there is a module it could be given.        *)
FuncNames == DOMAIN Funcs
FuncItems ==
  ({"op"} \X STRING) \cup ({"tag"} \X STRING \X FuncNames) \cup ({"jit"} \X FuncNames \X {0})
ASSUME FuncsAssumption == \A f \in FuncNames : Funcs[f] \in Seq(FuncItems)
(* No function is tagged inside of itself: tracing it would not end.       *)
ASSUME NestingAssumption ==
  /\ IsFiniteSet(FuncNames)
  /\ \E depth \in [FuncNames -> 0 .. Cardinality(FuncNames)] :
       \A f \in FuncNames : \A i \in DOMAIN Funcs[f] :
         Funcs[f][i][1] = "tag" => depth[Funcs[f][i][3]] < depth[f]

VARIABLES compat,      \* _JAX_COMPATIBLE_LOWERING
          stack,       \* the lowerings in progress: [ctx, items, path, ops, keepalive, of]
          modules,     \* the modules: [of, cached, ops, schedules, level]
          lowered,     \* JAX: function -> [ops, keepalive] of its last lowering
          executables, \* JAX: jitted function -> [ops, keepalive] it compiled to
          code,        \* identifier -> [of, cached, ops, params] of every kernel made
          outcome,     \* of the last call: "none", "ok", "raised", "crashed"
          calls
lvars == <<compat, stack, modules, lowered, executables, code, outcome, calls>>

tag(f, name) == <<"tag", name, f>>
jit(f, module) == <<"jit", f, module>>       \* also what jit(f) returns, a jitted function

Top == stack[Len(stack)]
Below == SubSeq(stack, 1, Len(stack) - 1)
Op(name, path, kernel) == [op |-> name, tags |-> path, kernel |-> kernel]
Frame(ctx, items, path, of) ==
  [ctx |-> ctx, items |-> items, path |-> path, ops |-> <<>>, keepalive |-> {}, of |-> of]

With(f, x, v) == [y \in DOMAIN f \cup {x} |-> IF y = x THEN v ELSE f[y]]

(* A kernel is in the registry of call_kernel.cc for as long as something   *)
(* keeps it alive.                                                          *)
Registered ==
  UNION ({stack[i].keepalive : i \in DOMAIN stack} \cup {lowered[f].keepalive : f \in DOMAIN lowered}
           \cup {executables[w].keepalive : w \in DOMAIN executables})

(* jax.clear_caches: no lowering and no executable is left.                 *)
clear_caches == lowered' = <<>> /\ executables' = <<>>
(* Mutant: the lowering stays cached. *)
LoweringStaysCached == lowered' = With(lowered, Top.of, [ops |-> Top.ops, keepalive |-> Top.keepalive])
                       /\ UNCHANGED executables
ForgetLowering == clear_caches

-----------------------------------------------------------------------------
(* Schedules in a module: insert_schedule puts one before, GenerateSchedule   *)
(* one after the others; the interpreter runs the first and the pass behind  *)
(* it erases the first.  A schedule is the values of its tuning parameters,  *)
(* Meta(config) one that gives the others these values.                      *)
Schedule(params) == [meta |-> FALSE, params |-> params]
Meta(config) == [meta |-> TRUE, params |-> config]
Identity == Schedule(<<>>)

insert_schedule(mod, schedule) == [mod EXCEPT !.schedules = <<schedule>> \o @]
GenerateSchedule(mod, schedule) == [mod EXCEPT !.schedules = Append(@, schedule)]

(* ApplyTuningConfigOp on one schedule: it fails when the numbers differ.    *)
Fits(s, config) == s.meta \/ Len(s.params) \in {0, Len(config)}
ApplyTuningConfig(s, config) == IF s.meta \/ s.params = <<>> THEN s ELSE Schedule(config)
ScheduleFails(mod) ==
  mod.schedules[1].meta /\ \E i \in DOMAIN mod.schedules : ~Fits(mod.schedules[i], mod.schedules[1].params)
ApplyTransformScript(mod) ==
  LET first == mod.schedules[1] IN
  [mod EXCEPT !.schedules = [i \in 1 .. Len(@) - 1 |->
     IF first.meta THEN ApplyTuningConfig(@[i + 1], first.params) ELSE @[i + 1]]]
(* apply_schedule and lower_to_linalg of call_kernel.                        *)
apply_schedule(mod) == ApplyTransformScript(mod)
lower_to_linalg(mod) == [ApplyTransformScript(insert_schedule(mod, Identity)) EXCEPT !.level = "linalg"]

-----------------------------------------------------------------------------
(* Lowering, item by item.                                                   *)
Next1(items) == SubSeq(items, 2, Len(items))
Continue(frame, ops, kernels) ==
  Append(Below, [frame EXCEPT !.items = Next1(@), !.ops = @ \o ops, !.keepalive = @ \cup kernels])

LowerOp ==
  /\ stack # <<>> /\ Top.items # <<>> /\ Top.items[1][1] = "op"
  /\ stack' = Continue(Top, <<Op(Top.items[1][2], Top.path, 0)>>, {})
  /\ UNCHANGED <<compat, modules, lowered, executables, code, outcome, calls>>

(* Mutant: the outermost region is named first. *)
OuterFirst(path, name) == IF compat THEN path ELSE Append(path, name)
(* TagLowering: a region, unless the lowering is for JAX.                  *)
TagPath(path, name) == IF compat THEN path ELSE <<name>> \o path
TagLowering ==
  /\ stack # <<>> /\ Top.items # <<>> /\ Top.items[1][1] = "tag"
  /\ LET item == Top.items[1] IN
       stack' = Append(stack, Frame("tag", Funcs[item[3]], TagPath(Top.path, item[2]), item[3]))
  /\ UNCHANGED <<compat, modules, lowered, executables, code, outcome, calls>>

EndTag ==
  /\ stack # <<>> /\ Top.items = <<>> /\ Top.ctx = "tag"
  /\ LET caller == stack[Len(stack) - 1] IN
       stack' = Append(SubSeq(stack, 1, Len(stack) - 2),
                       [caller EXCEPT !.items = Next1(@), !.ops = @ \o Top.ops,
                                      !.keepalive = @ \cup Top.keepalive])
  /\ UNCHANGED <<compat, modules, lowered, executables, code, outcome, calls>>

(* An exception ends every lowering: each with enable_jasc_lowering() switches *)
(* the global back, and the caches are not cleared.                          *)
InJasc == \E i \in DOMAIN stack : stack[i].ctx \in {"jit", "stablehlo"}
Unwind ==
  /\ stack' = <<>> /\ outcome' = "raised"
  /\ compat' = (compat \/ InJasc)
  /\ UNCHANGED <<modules, lowered, executables, code, calls>>

(* JitLowering of a function: it is lowered on its own, for Jasc.          *)
JitLowering ==
  /\ stack # <<>> /\ Top.items # <<>> /\ Top.items[1][1] = "jit" /\ Top.items[1][3] = 0
  /\ compat' = FALSE
  /\ stack' = Append(stack, Frame("jit", Funcs[Top.items[1][2]], <<>>, Top.items[1][2]))
  /\ UNCHANGED <<modules, lowered, executables, code, outcome, calls>>

(* create_cpu_kernel: the module is lowered in place, its first schedule     *)
(* applied; the caller keeps the kernel alive and calls it.                  *)
NewKernel == Cardinality(DOMAIN code) + 1
AddKeepalive(kernel) == {kernel}
(* Mutant: the kernel is collected when the lowering returns. *)
NoKeepalive(kernel) == {}
add_keepalive(kernel) == AddKeepalive(kernel)
KernelOf(mod) ==
  [of |-> mod.of, cached |-> mod.cached, ops |-> mod.ops, params |-> mod.schedules[1].params]

(* _func_to_mlir_module has returned: it refuses a module that keeps a       *)
(* kernel alive.  A schedule, or a platform that is not supported, raises.   *)
EndJit ==
  /\ stack # <<>> /\ Top.items = <<>> /\ Top.ctx = "jit"
  /\ \/ Unwind
     \/ /\ Top.keepalive = {}
        /\ LET caller == stack[Len(stack) - 1]
               mod == GenerateSchedule([of |-> Top.of, cached |-> FALSE, ops |-> Top.ops,
                                          schedules |-> <<>>, level |-> "stablehlo"], Identity)
           IN /\ code' = Append(code, KernelOf(mod))
              /\ stack' = Append(SubSeq(stack, 1, Len(stack) - 2),
                                 [caller EXCEPT !.items = Next1(@),
                                    !.ops = Append(@, Op("jasc.call_kernel", caller.path, NewKernel)),
                                    !.keepalive = @ \cup add_keepalive(NewKernel)])
        /\ compat' = TRUE
        /\ UNCHANGED <<modules, lowered, executables, outcome, calls>>

(* JitLowering of a module that was given: it is not lowered for Jasc, and *)
(* a module that is LLVM IR already has no func.func left: the cast aborts.  *)
JitModule ==
  /\ stack # <<>> /\ Top.items # <<>> /\ Top.items[1][1] = "jit" /\ Top.items[1][3] # 0
  /\ LET m == Top.items[1][3]
         mod == GenerateSchedule(modules[m], Identity)
     IN IF mod.level = "llvm"
        THEN /\ outcome' = "crashed" /\ stack' = <<>>
             /\ UNCHANGED <<compat, modules, lowered, executables, code, calls>>
        ELSE \/ Unwind
             \/ /\ code' = Append(code, KernelOf(mod))
                /\ modules' = [modules EXCEPT ![m] =
                                 [mod EXCEPT !.level = "llvm", !.schedules = Tail(@)]]
                /\ stack' = Continue(Top, <<Op("jasc.call_kernel", Top.path, NewKernel)>>,
                                     add_keepalive(NewKernel))
                /\ UNCHANGED <<compat, lowered, executables, outcome, calls>>

-----------------------------------------------------------------------------
(* The calls of the program.                                                 *)
Idle == stack = <<>> /\ outcome # "crashed"
Jax(f) == <<"jax", f, 0>>

(* jax.jit(f)(...), and f = jit(...), f(...): compiled when JAX has no       *)
(* executable; a lowering of the same function is used again.                *)
Run(w) ==
  IF w \in DOMAIN executables
  THEN /\ outcome' = IF \A i \in DOMAIN executables[w].ops :
                          executables[w].ops[i].kernel \in Registered \cup {0} THEN "ok" ELSE "crashed"
       /\ UNCHANGED <<compat, stack, modules, lowered, executables, code>>
  ELSE IF w[1] = "jax" /\ w[2] \in DOMAIN lowered
  THEN /\ executables' = With(executables, w, lowered[w[2]])
       /\ outcome' = "ok"
       /\ UNCHANGED <<compat, stack, modules, lowered, code>>
  ELSE /\ stack' = <<Frame("jax", IF w[1] = "jax" THEN Funcs[w[2]] ELSE <<w>>, <<>>, w)>>
       /\ outcome' = "none"
       /\ UNCHANGED <<compat, modules, lowered, executables, code>>

EndRun ==
  /\ Len(stack) = 1 /\ Top.items = <<>> /\ Top.ctx = "jax"
  /\ LET result == [ops |-> Top.ops, keepalive |-> Top.keepalive] IN
       /\ executables' = With(executables, Top.of, result)
       /\ lowered' = IF Top.of[1] = "jax" THEN With(lowered, Top.of[2], result) ELSE lowered
  /\ stack' = <<>> /\ outcome' = "ok"
  /\ UNCHANGED <<compat, modules, code, calls>>

NewModule(f, cached, ops) ==
  [of |-> f, cached |-> cached, ops |-> ops, schedules |-> <<>>, level |-> "stablehlo"]
lower_to_stablehlo(f) ==
  IF f \in DOMAIN lowered
  THEN /\ modules' = Append(modules, NewModule(f, TRUE, lowered[f].ops))
       /\ clear_caches /\ outcome' = "ok"
       /\ UNCHANGED <<compat, stack, code>>
  ELSE /\ compat' = FALSE
       /\ stack' = <<Frame("stablehlo", Funcs[f], <<>>, f)>>
       /\ outcome' = "none"
       /\ UNCHANGED <<modules, lowered, executables, code>>

EndLowering ==
  /\ Len(stack) = 1 /\ Top.items = <<>> /\ Top.ctx = "stablehlo"
  /\ modules' = Append(modules, NewModule(Top.of, FALSE, Top.ops))
  /\ compat' = TRUE
  /\ ForgetLowering
  /\ stack' = <<>> /\ outcome' = "ok"
  /\ UNCHANGED <<code, calls>>

LoweringStep ==
  \/ LowerOp \/ TagLowering \/ EndTag \/ JitLowering \/ EndJit \/ JitModule
  \/ EndRun \/ EndLowering

LoweringInit ==
  /\ compat = TRUE /\ stack = <<>> /\ modules = <<>> /\ lowered = <<>> /\ executables = <<>>
  /\ code = <<>> /\ outcome = "none" /\ calls = 0

-----------------------------------------------------------------------------
(* The ops of an item, and of a function, with the tags around each,        *)
(* innermost first.                                                         *)
FlatItem(flat, item) ==
  CASE item[1] = "op"  -> <<Op(item[2], <<>>, 0)>>
    [] item[1] = "tag" -> [j \in DOMAIN flat[item[3]] |->
                             [flat[item[3]][j] EXCEPT !.tags = Append(@, item[2])]]
    [] OTHER           -> <<Op("jasc.call_kernel", <<>>, -1)>>
Flat ==
  LET flat[f \in DOMAIN Funcs] ==
        FlattenSeq([i \in DOMAIN Funcs[f] |-> FlatItem(flat, Funcs[f][i])])
  IN flat
CallsKernel(ops) == \E i \in DOMAIN ops : ops[i].op = "jasc.call_kernel"

(* What JAX compiles for itself holds no tag region: XLA knows none.  A     *)
(* lowering that was made for Jasc is never used again by jax.jit.          *)
PlainHasNoTags ==
  \A w \in DOMAIN executables : \A i \in DOMAIN executables[w].ops : executables[w].ops[i].tags = <<>>

(* Whatever was traced, compiled, cleared and compiled again, an executable *)
(* that JAX may still run finds each of its kernels in the registry.        *)
KernelsRegistered ==
  \A w \in DOMAIN executables : \A i \in DOMAIN executables[w].ops :
    executables[w].ops[i].kernel \in Registered \cup {0}

(* A kernel and a module that was lowered for a schedule have every tag of  *)
(* the function, innermost first, for match_tag to find.  Two kinds of      *)
(* modules may lack them: one that JAX had lowered for itself before, and   *)
(* one whose function calls jit, which switches the lowering back to JAX's. *)
TagsKept ==
  /\ \A k \in DOMAIN code :
       code[k].cached \/ CallsKernel(Flat[code[k].of]) \/ code[k].ops = Flat[code[k].of]
  /\ \A m \in DOMAIN modules :
       modules[m].cached \/ CallsKernel(Flat[modules[m].of]) \/ modules[m].ops = Flat[modules[m].of]
=============================================================================
