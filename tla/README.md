# TLA+ models of the structured / iterators sandbox

This directory is a verification development of the repository: TLA+ modules
that model its parts, TLC configurations that check them on small instances,
and proofs that TLAPS checks for all instances. `PROJECT.json` maps every
definition to the source lines it models.

    tlc -workers 2 -config MCIterators.cfg MCIterators      # a run
    tlapm IteratorsProofs.tla                               # a proof

## 1. The system and its parts

The repository is a sandbox for code generation on MLIR: C++ dialects and
conversion passes, Python frontends (SQL, indexing, Triton, Jasc), and the older
tools that search for and measure schedules. Most of it transforms programs in
one thread; what runs concurrently are the search tools. Much of the rest is
global or cached state that survives from one call to the next: kernel caches,
hashes, a lowering switch, what a handle believes about the code it stands for.

| Part | State it keeps | Operations | What makes it correct |
|---|---|---|---|
| **Iterators lowering, generated code** (`lib/Conversion/IteratorsToLLVM`, `StatesToLLVM`) | a nested iterator state, passed by value from call to call | an Open, a Next and a Close function per iterator op; the code of `sink` and `stream_to_value` | prints what the streams mean; every iterator is opened, pulled and closed in protocol order, even if its consumer stops early; an undefined element is never returned; it ends |
| **Iterators lowering, the driver** (`IteratorsToLLVM.cpp`, `IteratorAnalysis.cpp`, `NameAssigner.cpp`) | assigned names, an info per op, the mapping of values, the symbol table | analyse in the order of the text; convert each op; erase; lower the print ops | no symbol is redefined; every call has its callee, with the right state type; nothing uses an erased op |
| **Decomposition of states and tuples** (`DecomposeIteratorStates.cpp`, `DecomposeTuples.cpp`) | the leaves that replace each SSA value | a pattern per op; materialisations for ops that are not converted | the leaves are the original ones in order; a rebuilt bundle is the original one |
| **Job scheduler** (`trunk/python/tools/scheduler`) | `num_jobs`, two multiprocessing queues, an event, a semaphore | `start`, `join`, `shutdown`; result thread; workers | no job is lost or counted twice; `join` returns, and then everything is processed |
| **Parallel search** (`nevergrad_parallel_utils.py`) | a pool, queues of CPUs and results, reader-writer locks, an event | main loop; pool initializer; compile and run with two timeouts; Ctrl+C | benchmarks are alone on their CPUs; CPUs and proposals are conserved; crashes are noticed; the search ends |
| **Standalone database iterators** (`examples/database-iterators-standalone`) | a position, a hash table, or groups per operator | `open`, `computeNext`, `close` | the root returns the tuples of the relational plan, also when it is closed early and opened again |
| **SQL lowering** (`trunk/experimental/sql`) | the query, in one of five dialects | the ibis frontend, four lowerings, two optimisations, in the order `rel_opt` is told | the module produces the rows of the query at every level, with or without the optimisations, but for the forms of section 4, and an optimisation drops no column that is needed |
| **Triton JIT** (`python/mlir_structured/triton`) | a kernel cache and a hash per function | launch, warm up, hash, set the source | a kernel found in the cache fits the arguments it is found for; the arguments arrive; a failure leaves nothing behind |
| **Jasc schedules** (`jasc/jasc.py`) | handles: a value of the transform script, a normal form, parent and children; the mode of automatic normalisation | some forty methods that emit transform ops | a handle is right about its normal form; a transform finds what it needs; a handle is usable until somebody else consumes its payload |
| **Jasc lowerings, jit, tags, kernels** (`jasc.py`, `primitives.py`, `call_kernel.cc`) | a global switch, the caches of JAX, modules, a registry of kernels | `jit`, `tag`, `lower_to_*`, `insert_schedule`, `apply_schedule` | the switch is restored; JAX never compiles a tag; tags reach the schedule; a kernel that is called exists |
| **Jasc tuner** (`jasc/tuner.py`) | configurations tried, best so far | tuning loop | what is returned as best is what was timed as best; rounds are independent |
| **Indexing** (`dialects/indexing.py`, `lib/Dialect/Indexing`) | local variables of the function that is traced, IR under construction | `x[idx]`, `x[idx] = z`, arithmetic, `arange` | the gather or scatter touches the elements the expression means; `unique` and static shapes are true; aliases see a write |
| Tabular dialect and lowering | - | `view_as_tabular` to a struct of pointers and a row count | all columns have the length of the first |
| Triton conversions | - | program ids to arguments; loads and stores to LLVM | arguments reach every callee |
| Alp, sandbox experts and harness | IR under construction | builders and rewrites | per-rewrite equivalence |
| Benchmark scripts, bindings, tools | - | I/O, registration | - |

How they interact. A frontend builds a module of iterator ops; the analysis
fixes the state types and names that the conversion then relies on; generated
functions call each other through those names; states and tuples inside them
are decomposed into leaves. `view_as_tabular` feeds `tabular_view_to_stream`.
The search tools compile and run modules in worker processes and communicate
through multiprocessing queues, events and locks. The standalone operators are
a C++ prototype of the iterator protocol and share no code with the passes. The
SQL prototype ends in iterator ops. A Jasc program writes schedules with the
handles, has them inserted into the modules that the lowerings make, and the
tuner does that round after round through `jit`, between other uses of it.

What is hard here: consumers that stop in the middle of a stream and reopen it;
an operator asked again after its end; undefined values that travel with
`hasNext = false`; names picked long before symbols are inserted; the order of
the text against the order of definitions; feeder threads of queues, which make
`put` and `empty` disagree; a timeout racing the work it limits; processes that
die between two calls; a key that must tell apart all that a kernel assumes;
caches and switches that an exception or a nested call leaves in another state;
a belief about code that another handle has changed since; positions that are
counted among all, or among some, of the parameters or axes. The list, with lines, is under `hazards` in
`PROJECT.json`.

## 2. The modules

### Generated iterator code
`IteratorsToLLVM` is a machine that executes the generated functions. A *plan*
is a forest of iterator ops and a list of consuming statements. A step runs
from the entry of a function, or from the return of one it called, to its next
call or its own return; `stack` holds the frames, `ctl` and `ret` the control
and the last result. There is an Open, a Next and a Close action for each op,
translated from the `build{Open,Next,Close}Body` functions, and the code of
`sink` and `stream_to_value` from their `convert` functions. Iterator states
are values: the state of an op is the part of one flat function that lies below
the op, which is what the nested structs hold. `phase`, `got` and `ended` are
history variables that no action reads. The nodes of a plan are numbered in
block order, so an op comes after its operands.

`StreamSemantics` says what stream each op stands for, with recursive functions
on positions and nodes, `StreamProgram` is the abstract specification (statement
after statement, each printing a prefix of its stream, or yielding its first
element), `MCIterators` has the plans. `IteratorsProofs` holds the proofs.

### Conversion driver
`IteratorConversion` models the pass itself, on a program of ops that are
numbered so that uses follow definitions. `cut` says which suffix of the ops is
in blocks that stand first in the text, so a use may precede its definition in
the walk, as MLIR allows. The phases are the analysis walk (`AnalyseOp`,
`AnalyseFails` for its assertion), the conversion worklist (one action per kind
of op, with the functions, globals and declarations it creates), erasing, and
the lowering of the print ops. A name is a record of its parts; `assignName` and
the other two searches for a free name keep their loops' result: the first free
number from the counter on. Proofs: `IteratorConversionProofs`.

### Decomposition
`Decomposition` builds programs op by op and keeps with every SSA value the
leaves that the decomposed program has in its place, computed by the patterns
as written. `pass` chooses between states and tuples; the patterns agree, the
materialisations for unconverted operations do not. A bundle is rebuilt only
where it goes from a converted operation to one that is not (`Given`); between
two that are not, the value is passed on. States that reach a function as
arguments are not modelled.

### Job scheduler
`JobScheduler` has the thread that calls `start()` and `join()`, the result
thread, the workers, the feeder thread of the job queue and a caller of
`shutdown()`. The worker's `empty()` and `is_set()` are two steps;
`_enqueue_job`'s test and its `put` are two steps. Proofs: `JobSchedulerProofs`.

### Parallel search
`ParallelSearch` has the main loop, a slot of the pool per task whose process
may die and be replaced, its compilation or benchmark thread, the reader-writer
locks and the three queues. The pool and the lock are external and modelled
from how the code uses them: the pool replaces dead processes, the lock lets
readers overlap and a writer in alone, and a process that dies keeps its lock.
`AskTell` is the search as its optimizer sees it: at most `Budget` proposals are
asked for, each is told at most once, and the search ends when all are told or
it is aborted. Proofs: `ParallelSearchProofs`.

### Standalone operators
`DatabaseIterators` evaluates a call of the root to the set of its outcomes
(several, where the order of a hash table is open); the client opens, pulls,
closes early and opens again. `Meaning` is the relational meaning of a plan.

### SQL
A module for each dialect (`IbisDialect`, `RelAlg`, `RelSSA`, `RelImpl`) has the
constructors and verifiers of its ops, one for each pass (`IbisFrontend`,
`IbisToAlg`, `ProjectionPushdown`, `AlgToSSA`, `SSAToImpl` with the fusing of
projections into scans, `ImplToIterators`) the rewriters as functions from a
tree to a tree, or to an exception. `RelOpt` applies the passes in the orders
`rel_opt.py` accepts and verifies after each. `QueryMeaning` evaluates a query
at every level on given tables; it is the reference, and independent of the
passes. `RelData` holds what they share. Names of columns are kept, since the
passes decide by them; the text that is printed in the end is not.

### Triton JIT
`TritonJIT` has the functions that are jitted, each with its source, its hash
and its cache. `run` is the generated launcher: key, lookup, compilation for a
signature, constants and a configuration, the store, and the call through
`c_wrapper` with the integer types it converts to. `warmup`, `cache_key`,
setting `src` and a cache hook are actions too. Compilation is external: it
fails or returns a kernel that assumes what it was told. The integer widths are
the constants `Half32` and `Half64`. The walk of the two dependency finders over
the functions a source calls is a recursive function of the number of functions
left, as deep as there are functions, so that it can be proved about. Proofs:
`TritonJITProofs`.

### Jasc
`JascSchedule` has an operator for every method of `OpHandle`, through the
decorator `jasc_transform` where the code has it. The script is a straight
line, so what it does to the payload is computed as it is written: `values`
says which ops a value stands for and whether the interpreter still accepts it,
`normal` which ops are in loop normal form. `excuse`, `lost` and `prepared` are
history variables. Proofs: `JascScheduleProofs`.

`JascLowering` runs the tracing and lowering of JAX depth first on a stack, with
the global switch, the two caches of JAX and the kernels that executables keep
alive; `JascTuner` adds the tuning loop and a program that tunes, runs, lowers
and compiles in between. An exception can leave every lowering. JAX is external,
modelled from how the code uses its caches and its contexts. Proofs:
`JascTunerProofs`.

### Indexing
`Indexing` executes a function body of statements on local variables and builds,
for each, the IR that the frontend builds; a value carries its static shape and
what it is at run time, so that both can be compared. The canonicalisation of an
index tuple, the loop over its elements, the extent of index tensors, slices,
new axes, folding and the update of the caller's variables are translated as
written. `IndexingOps` says what the ops compute. `IndexingProperties` states,
on axes and coordinates, what an index expression means, and names the forms for
which the code means something else (section 4).

### Not modelled
The last rows of the table, with reasons in `PROJECT.json`. In the modelled
parts: nested modules (one symbol table is modelled), streams that are block
arguments, callbacks of the job scheduler that raise, files that the search
writes, threads in Jasc (the switch and the registry are used from one thread),
the fixed pass pipelines behind `lower_to_linalg` and the compilers, the
`lru_cache` of `fold()` in the indexing frontend. Details that are simplified: an
exception of the search after the locks are released (pinning the process back,
putting the result) reaches a handler that releases a lock nobody holds, and is
not modelled; a decimal product is that of the physical integers, in
`QueryMeaning` as in the code, which has a TODO there; a module whose kernel
cannot be compiled keeps its form from before, since nothing uses it again; an
index that is a bare list or tensor, in place of a tuple, raises; and the size
of a dynamic axis is -1 in place of the least 64-bit integer. Printed text is abstracted to
the element printed; functions that `map`, `filter` and `reduce` refer to are
constants. What is left, the benchmark scripts, the harness, the Alp and sandbox
builders and the bindings, is I/O or forwards to upstream MLIR, without state of
its own to check.

## 3. The runs

| Run | Instance | What it shows |
|---|---|---|
| `iterators` | `MCIterators`: every op, chained, zipped, folded and nested, up to two sources of up to `MaxLen = 3` elements over two values, one to three statements | `Protocol`, `CallsNest`, `NoUndefElement`, `PulledOnDemand` (how far each iterator has read; of a zip that has ended only that an input has), `EndIsFinal`, the refinement `ImplementsProgram`, `Termination` |
| `zip_remainder` (violation) | the same | `RemainderNotConsumed`: fails |
| `lowering` | `MCLowering`, one pass at a time. Conversion: all programs of up to three ops, some of four, six sets of symbols that were there before, every order of two groups of blocks. Decomposition: a pair, an empty bundle and a bundle that nests both; programs of up to four ops | `SymbolsUnique`, `CallsResolved`, `ErasedUnused`, `InOrderIsAnalysed`; `SameLeaves` for both decompositions, `SameTuples` for tuples |
| `decompose_states_use` (violation) | the same | `SameStates`: fails |
| `job_scheduler` | two pinned workers, five jobs, `shutdown()` at any time or never | `Accounting`, `JoinMeansProcessed`, `JoinReturnsUnlessStopped` |
| `search` | two tasks in one CPU range, three proposals, timeouts and exceptions anywhere, and one crash or Ctrl+C (`MaxFaults = 1`) | `AloneUnlessTimedOut`, `CpusConserved`, `ProposalsConserved`, the refinement `ImplementsAskTell`, `SearchEndsUnlessLost` |
| `relational` | `MCRelational`, a query or a plan at a time. SQL: 2909 queries over four small tables: selections, projections, sorts, joins and aggregates, nested; the passes in every order, each optimisation up to twice (`MaxOpts = 2`). Standalone operators: plans with every operator, two columns of up to three rows, two sessions | `RelationsMeanQuery`, `IteratorsMeanQuery`; `ReturnsMeaning`, `CallsInTurn` |
| `pushdown_drops` (violation) | the same | `NeededColumnsKept`: fails |
| `jit` | every two of five functions, three calls, arguments at the boundaries of specialisations and integer types | `KernelFitsArguments`, `ArgumentsArrive`, `HashOfOwnSource` |
| `jasc` | `MCJasc`, a schedule or a program. Schedules: handles of a module, its function and two ops, matched before; three calls, two nested contexts, up to six handles. Programs: functions with nested tags and with a jit between tags; three calls, a tuner with a budget of two, timings 1 and 2, exceptions anywhere | `NormalformSound`, `TransformsPrepared`, `LostOnlyToOthers`; `PlainHasNoTags`, `KernelsRegistered`, `TagsKept`, `TunedIsBest` |
| `interchange_handle` (violation) | the same | `InterchangeUpdatesHandle`: fails |
| `indexing` | bodies of two statements, the first from a few and the second from all, on tensors of rank two and three with two elements per axis | `GetMeansIndex`, `SetWritesIndex`, `AliasesAgree`, `UniqueIsTrue`, `BuildAgreesWithRun` |

Three runs check two components that share no state: the initial states put one
of them to work and leave the other where it is, so the states are the sum of
both and not their product.

Bounds. Streams of three elements have a first, a middle and a last one, and
the sources of a zip can be of equal and of different lengths; two tasks that
share a CPU range contend for its lock; three proposals make the budget larger
than the pool, so a slot is reused after a timeout; five jobs exceed the four
that `start()` enqueues for two workers; two sessions suffice because the state
of an operator after the second open has the shape it had after the first. Two
rounds of an optimisation are enough for one pass to see what another one or
itself has left. Three calls make a cache entry, change what it rests on and
use it; `Half32 = 32` and `Half64 = 64` stand for 2^31 and 2^63, far enough
apart to have numbers on both sides of every boundary (what is checked are
comparisons with these and remainders by 16, and both are multiples of 16). A
normal form goes wrong in three calls: normalise, change, use. With two
elements per axis a selection can hit, miss, repeat or reverse, and three axes
allow an index on either side of a collapsed one; the second statement reads
what the first has written.

Fairness. `iterators` runs sequential code: weak fairness of the whole step.
The job scheduler and the search assume that the operating system schedules
every thread and process and that a feeder thread writes what was put; a job of
the scheduler ends. In the search a compilation or a benchmark need *not* end
and a crash need not happen: both `join` calls have a timeout, which is what
the fairness of the waiting process stands for. No strong fairness is assumed.
The other modules state safety only, and the violations are of invariants.

`CHECK_DEADLOCK FALSE` is set for the job scheduler, where the workers may all
leave a job behind after `shutdown()`, and for `jit` and `indexing`, where the
program or the function body simply ends at its bound; the other modules have an
explicit final step.

## 4. What the runs found

Four disagreements between the code and what it says of itself are runs of their
own, each a property stated as documented that TLC refutes:

* **A zip consumes the remainder** (`zip_remainder`). The description of the op
  says that the remainder of the longer inputs "is not consumed", and the
  pseudocode above the function returns at the first input that has ended. The
  generated Next pulls every input before it looks at any `hasNext`, so an
  element of each longer input is lost, and with each further Next another.
* **States rebuilt from one leaf** (`decompose_states_use`).
  `buildCreateStateOp` does not advance its iterator over the inputs, so a state
  that a converted operation makes and an unconverted one uses is rebuilt from
  copies of its first leaf.
* **A needed column is dropped** (`pushdown_drops`). `find_schema` gives for an
  aggregate the names of the columns it reads; under a join of an aggregate the
  inferred projection therefore keeps none of the columns that the aggregate
  gives, also those that are read above, where the comment promises to drop only
  what is not needed.
* **interchange does not update its handle** (`interchange_handle`), as its
  docstring says it does: it returns a new handle and leaves the consumed value
  in this one.

The other places where the code does not do what one would expect are stated
inside the properties, which say exactly how far the code can be relied on; a
form that a property leaves out has a name, and the property fails without it.

* *Iterators.* A module
  with a `printf` that is not an LLVM function gets a second one
  (`SymbolsUnique`). Blocks written out of order end in an assertion or leave
  uses of erased ops (`InOrder`).
* *Standalone operators.* A reduce-by-key of no tuples is undefined behaviour
  where its header promises no tuple (`NoGroups` in `ReturnsMeaning`).
* *Job scheduler.* After `shutdown()`, `join()` may block for ever: all workers
  can leave while a job is in the feeder or put after `empty()`. One job may be
  made after the call (`JoinMeansProcessed`). `start()` may go on without one
  pinned worker, since the semaphore starts at one.
* *Search.* After a timeout the lock is released before the overrunning thread
  is killed, so a benchmark may have company (`AloneUnlessTimedOut`). A crash
  between the two puts of `kill_process`, and an exception in a search process,
  leave a proposal without a result, and nobody notices (`lostUnnoticed` in
  `SearchEndsUnlessLost`).
* *SQL.* Sort keys beside predicates or projections are dropped
  (`SortForgotten`), float literals are truncated (`RoundsLiteral`), decimals
  are taken for hundredths (`Thousandths`). After a pushdown joins with an
  aggregate are left out (`JoinsAggregate`, the case of `pushdown_drops`).
  Fusing a projection into a scan loses a repeated column (`RepeatsColumn`) and,
  in `rel_impl`, the names and values of one that renames or computes
  (`RenamesOrComputes`); an empty projection, on the side of a join without a
  predicate, becomes a scan of all columns (`CrossJoin`). An aggregate of one
  field becomes a sum, whatever its function is (`OtherAggregate`), which is no
  row for no rows (`SumOfNothing`); one of several fields cannot be built.
  Pushing projections down a second time fails on a join.
* *Triton JIT.* Positions in `do_not_specialize` are compared with positions
  among all parameters and among the regular ones, so with a constexpr before
  them a kernel is reused for arguments it does not fit (`NotInKey`). Arguments
  folded into a kernel are passed all the same, and the ones after them arrive
  one place late (`ArgumentsArrive`). Setting `src` leaves the hashes of callers
  as they were (`HashOfOwnSource` is about the own source).
* *Jasc.* A normal form is not told to siblings and not reset by methods without
  the decorator (`excuse` in `NormalformSound`). `vectorize`,
  `create_async_groups` and `bufferize_to_allocation` can leave a consumed value
  in their handle and do not promise otherwise (`NotUpdated` in
  `LostOnlyToOthers`). A nested jit loses the tags after it
  (`TagsKept`). The *schedule* that `tune` returns applies the last
  configuration rather than the best; the function it returns is right
  (`TunedIsBest`).
* *Indexing.* A selecting slice before an index tensor (`SliceBeforeTensor`), a
  new axis beside an index (`NewAxisAndIndexer`) or a second new axis
  (`TwoNewAxes`), an index tensor of several columns after an Ellipsis
  (`WideAfterEllipsis`), an index tensor without coordinates (`SelectsNothing`),
  a slice of an axis of unknown size (`SlicesUnknownSize`) and an index beyond
  its axis (`BeyondAxis`). `x[...] = z` writes nothing; a number beside a tensor
  becomes a tensor of ones, as a test asserts; a reflected subtraction is not
  reversed; aliases are stale after a second write.

## 5. What is proved

TLAPS proves, for every value of the constants that meets the named
assumptions, the theorems below. Each rests on an inductive invariant, since
none of the properties is inductive itself; TLC checked each invariant on the
instance of the run before it was proved.

* `IteratorsProofs`: `TypeCorrect`, `CallsNestAlways`, `ProtocolHolds`,
  `EndIsFinalAlways`. The protocol says nothing about the subtrees that a call
  has not visited yet. `CallsNest` says that the frames form a path of the
  plan, all in the same function, and that the upstreams before the one being
  called are in the phase after it and those behind it in the phase before;
  with the types this is inductive (`Inductive`). That an end is final needs
  `FinalInv` (`FinalAlways`): the frames hold one state value, up to the part
  of the call under way (`Agree`), in which a source that has ended has nothing
  left and an operator that has ended has an upstream that has
  (`EndsHold`). From `PlansAssumption`: plans are forests numbered in block
  order, with the operand counts that the verifiers demand.
* `IteratorsProofs`, second part: what the generated code means. `MeansInv`
  (`MeansAlways`) says, for every iterator, that the number of elements it has
  returned is within its stream and all of it once it has ended, that a
  source's fields point at the next element, that an operator at rest has
  pulled what these elements need, and that the accumulator of a reduce and
  the elements of a zip in the middle of a call are what the streams say up to
  there. It does not count an element that is on its way to a frame
  (`SeenBy`): the callee has returned it, the caller has not used it. From it
  follow `PulledOnDemandAlways` (`UpsOpen` and `MeansClose` carry it through
  Open and Close), which leaves open how far the longer inputs of an ended zip
  were read; `ProgramImplemented`, the refinement of `StreamProgram` step
  by step, with `OutInv` to relate the output to what the input has returned;
  and `NoUndefElementAlways`, from `DefinedAssumption`: sources and user
  functions yield defined elements for defined ones, and undef is no tuple.
  These properties speak of recursive functions. What such a function computes
  is proved by its least counterexample (the lemma `Least`, from the
  well-foundedness of the numbers), which needs no induction schema.
* `ParallelSearchProofs`: `AloneAlways`, `CpusAlways`, `ProposalsAlways` and
  `AskTellImplemented`, for any number of tasks, CPUs and proposals and all
  faults. `LockInv`: a process holds the lock of its range in the mode that its
  place in the code says, unless it has released it, and a writer excludes
  every other holder. `SearchInv`: where a process has a job, that it is pinned
  only where the code says so, and that the rounds count what was told. The
  properties count over queues and processes; a lemma says how one change
  changes such a count. From `SearchAssumption`.
* `IteratorConversionProofs`: `SymbolsUniqueAlways`, `InOrderIsAnalysedAlways`,
  `CallsResolvedAlways` and `ErasedUnusedAlways`, for every program and every
  set of symbols of a valid module. Names assigned to different ops differ
  (`NamesApart`), and until an op is converted no symbol has its names
  (`NamesReserved`), because the names of globals have another shape and
  functions are only added for the op that owns their names; the walk meets
  every op once. `CodeInv` adds that each state type nests those of the
  upstreams, that a call passes the state of the op it calls, and that an
  operand is replaced once the op that makes it is converted. From
  `SymbolsAssumption` and `ProgramsAssumption` (an op uses ops before it; a
  sink has no result).
* `JobSchedulerProofs`: `AccountingAlways` and `JoinAlways`, for any number of
  processes and jobs. Counts alone are not inductive: a job could be in two
  places. The invariant says that each job is in one place, once. From
  `SchedulerAssumption`.
* `TritonJITProofs`: `KernelFitsAlways`, `ArgumentsArriveAlways` and
  `HashOfOwnSourceAlways`, for integers of any size, any number of functions
  and calls between them. `CacheInv`: what a kernel in the cache was compiled
  for is determined by its key, up to `NotInKey`. `HashInv`: a hash that is set
  has the source of its function in it, also one that a walk from a caller has
  set. From `WidthsAssumption` and `FunsAssumption`.
* `JascScheduleProofs`: `LostAlways`, `NormalformAlways` and `PreparedAlways`,
  for any number of calls, handles and contexts; `ScheduleInv` relates the
  handles, the values they hold and the payload, and a handle is overtaken only
  by a call that invalidates the value it holds (`Invalidates`). From `BoundsAssumption`.
* `JascTunerProofs`: `PlainAlways`, `KernelsAlways`, `TunedAlways` and
  `TagsAlways`, for any functions, schedules, budgets and times. `SafeInv`:
  while JAX lowers for itself its switch is on, and each frame, lowering and
  executable keeps its kernels alive. `JascInv` adds the tuner: the module of
  the best function is compiled before its schedule is consumed. `TagInv` is
  about the tags that a schedule finds: above a frame for Jasc whose function
  calls no kernel there are only its tag regions, the switch is off, and each
  frame has lowered the first items of its function under the names around it
  (`Halfway`), so that what is left when the frame ends is `Flat` of the
  function. That `Flat` exists is proved along the depth of the tags
  (`FlatExists`). From `FuncsAssumption` (a function is traced before there is a
  module it could name), `NestingAssumption` (no function is tagged inside of
  itself: tracing it would not end) and `TunerAssumption` (a schedule has
  parameters, each with a default).
* `IndexingProofs`: `AliasesAlways`, `BuildAlways` and `UniqueAlways`, for every
  function body of any length, any number of variables and every index tuple.
  `AliasInv`: an object wraps one value and stands for one array, and an array
  that was never written to is in one object; so the first write reaches every
  alias, each then in an object of its own, which is why a second write may
  miss some. `BuildInv`: every variable holds a value whose static shape says of
  its sizes what is known (`FrameValues`), and the last statement was built as
  it runs. It is carried through each helper of the frontend by a lemma of its
  own: new axes (`ExpandValue`), the canonical tuple (`CanonicalGood`), the loop
  over its elements (`VisitIndexKeeps`), joined indexers (`JoinedIs`), gather
  and scatter. For `UniqueIsTrue` the loop also keeps that, without an index
  tensor in the tuple, each joined column is a single coordinate or a range,
  whose elements are distinct because its step is positive (`LoopIs`,
  `ARangeOpValue`); joined rows then differ in their first column
  (`JoinedDistinct`), and distinct rows are counted by a bijection
  (`RowCount`). The number of elements that `getARangeLen` rounds up to is the
  number the loop of `arange` goes through (`GetLen`, `LoopIs`). The recursive
  functions are unfolded with least counterexamples, as above. From
  `FramesAssumption` (an object wraps one value when the body starts) and
  `ValuesAssumption` (types agree with sizes when the body starts; index tensors
  and lists have a last axis, of known size, which says how many axes they
  index; steps are positive, as `ARangeOp::verify` demands, but for the
  reversal of a whole axis, which the frontend rejects).

Only model-checked:

* liveness: `Termination`, `JoinReturnsUnlessStopped`, `SearchEndsUnlessLost`
  and the fairness in `ImplementsProgram` (that every statement ends);
* `GetMeansIndex` and `SetWritesIndex`, which compare the data of a gather or a
  scatter, element by element and through the coordinates of tensors of any
  rank, with what the index expression means;
* the properties of `DatabaseIterators`, `Decomposition` and the SQL modules,
  which are written with recursive operators on plans, types and trees, out of
  the prover's reach.

## 6. Plan

Done in this order: generated iterator code; job scheduler; parallel search;
standalone operators; decomposition; conversion driver; SQL; Triton JIT; Jasc
schedules, lowerings and tuner; indexing. Left:

1. Proofs: `GetMeansIndex` for tuples of one kind of index; `Decomposition` and
   `DatabaseIterators` with recursive functions in place of recursive operators,
   then `SameLeaves` and `CallsInTurn`.
2. Tabular lowering, composed with `tabular_view_to_stream`; Triton program ids
   to function arguments along call chains; load and store addressing.
3. Composition of sandbox transforms and their variables.
4. Two threads in the Jasc lowerings, for the switch and for kernels that are
   looked up while they are destroyed; callbacks of the job scheduler that raise.
