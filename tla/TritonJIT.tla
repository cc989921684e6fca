------------------------------ MODULE TritonJIT ------------------------------
(***************************************************************************)
(* python/mlir_structured/triton/jit.py and compiler.py: functions that are *)
(* compiled when they are launched, once for each key of the arguments, and *)
(* the hash of a function and of the functions it calls.                   *)
(*                                                                         *)
(* An argument is a record with its kind: "int", "bool" and "float" carry a *)
(* number v, "tensor" a dtype, the dtype of its base and whether its        *)
(* address is a multiple of 16, "dtype" a dtype.  Positions count from 1.   *)
(***************************************************************************)
EXTENDS Integers, Sequences, FiniteSets

CONSTANTS Funs,        \* name -> [params, do_not_specialize, noinline, calls]
          Values(_, _),\* the arguments tried for the ith parameter of a function
          Warps,       \* the num_warps tried
          Half32,      \* stands for 2^31
          Half64,      \* stands for 2^63
          MaxJitted,   \* bound on the functions that are JITFunctions
          MaxSrc,      \* bound on the times a source is set
          MaxCalls     \* bound on the calls made

ASSUME WidthsAssumption == /\ Half32 \in Nat /\ Half64 \in Nat
                           /\ 16 < Half32 /\ 2 * Half32 <= Half64

(* The integers of an argument have any size; a constexpr is a number or    *)
(* None, which the key compares by value.                                   *)
ASSUME FunsAssumption ==
  \A f \in DOMAIN Funs :
    /\ Funs[f].params \in Seq(STRING) /\ Funs[f].calls \in Seq(DOMAIN Funs)
    /\ \A i \in DOMAIN Funs[f].params : \A a \in Values(f, i) :
         /\ a.kind = "int" => a.v \in Int
         /\ a.kind = "bool" => a.v \in {0, 1}

VARIABLES jitted,      \* the functions that are JITFunctions
          src,         \* function -> the version of its source
          hash,        \* function -> its hash, NoHash when it is to be computed
          cache,       \* function -> key -> kernel
          walk,        \* the functions being visited for a hash, outermost first
          hook,        \* what JITFunction.cache_hook does: "None", "false", "true"
          last,        \* what came of the last launch
          calls        \* how many calls were made

vars == <<jitted, src, hash, walk, cache, hook, last, calls>>

NoHash == <<>>
NoneConstant == -4 * Half64         \* None among the constants: in the range of no type
VersionKey == <<"version", 0>>

-----------------------------------------------------------------------------
(* Arguments.                                                              *)
IsInt(a) == a.kind \in {"int", "bool"}          \* a Python bool is an int
HasDataPtr(a) == a.kind = "tensor"

reinterpret(t, dtype) == IF dtype = t.base THEN [t EXCEPT !.dtype = t.base]
                         ELSE [t EXCEPT !.dtype = dtype]
(* MockTensor.wrap_dtype: the address of a mock is 0. *)
wrap_dtype(a) == IF a.kind = "dtype"
                 THEN [kind |-> "tensor", dtype |-> a.dtype, base |-> a.dtype, aligned |-> TRUE]
                 ELSE a

(* Mutant: one more number is an i32. *)
KeyOfWide(a) ==
  CASE a.kind = "tensor" -> a.dtype
    [] a.kind = "int"    -> IF -Half32 <= a.v /\ a.v <= Half32 THEN "i32"
                            ELSE IF Half64 <= a.v /\ a.v <= 2 * Half64 - 1 THEN "u64" ELSE "i64"
    [] a.kind = "bool"   -> "i1"
    [] a.kind = "float"  -> "fp32"
    [] a.kind = "none"   -> "None"
    [] OTHER             -> "TypeError"
key_of(a) ==
  CASE a.kind = "tensor" -> a.dtype
    [] a.kind = "int"    -> IF -Half32 <= a.v /\ a.v <= Half32 - 1 THEN "i32"
                            ELSE IF Half64 <= a.v /\ a.v <= 2 * Half64 - 1 THEN "u64" ELSE "i64"
    [] a.kind = "bool"   -> "i1"
    [] a.kind = "float"  -> "fp32"
    [] a.kind = "none"   -> "None"
    [] OTHER             -> "TypeError"

PointerTo == [int8 |-> "*i8", int32 |-> "*i32", float32 |-> "*fp32"]
type_of(key) == IF key = "None" THEN "*i8"
                ELSE IF key \in DOMAIN PointerTo THEN PointerTo[key] ELSE key

is_divisible_by_16(a) == \/ HasDataPtr(a) /\ a.aligned
                         \/ IsInt(a) /\ a.v % 16 = 0
                         \/ a.kind = "none"

-----------------------------------------------------------------------------
(* What a function's parameters say.                                        *)
Params(f) == Funs[f].params
Positions(f) == DOMAIN Params(f)
Constexprs(f) == {i \in Positions(f) : Params(f)[i] = "constexpr"}

(* The numbers of a set, in order. *)
Ordered(S) == CHOOSE s \in [1 .. Cardinality(S) -> S] :
                /\ \A i \in S : \E j \in DOMAIN s : s[j] = i
                /\ \A j, k \in DOMAIN s : j < k => s[j] < s[k]
RegularArgs == [f \in DOMAIN Funs |-> Ordered(Positions(f) \ Constexprs(f))]

get_config(f, args) ==
  [divisible_by_16 |-> {i \in Positions(f) : /\ is_divisible_by_16(args[i])
                                             /\ i \notin Funs[f].do_not_specialize},
   equal_to_1 |-> {i \in Positions(f) : /\ IsInt(args[i]) /\ args[i].v = 1
                                        /\ i \notin Funs[f].do_not_specialize}]

Text(b) == IF b THEN "T" ELSE "F"
OfTensor(a) == IF HasDataPtr(a) THEN <<Text(a.aligned)>> ELSE <<"AttributeError">>
(* Mutant: 1 is not told from other numbers.                                *)
OfMultiple(a) == IF a.kind \in {"int", "bool", "float"}
                 THEN <<Text(a.v % 16 = 0)>> ELSE <<"TypeError">>
OfNumber(a) == IF a.kind \in {"int", "bool", "float"}
               THEN <<Text(a.v % 16 = 0), Text(a.v = 1)>> ELSE <<"TypeError">>
Unspecialized == <<"(False,)">>
get_arg_specialization_key(ann, a) ==
  CASE ann = ""       -> IF HasDataPtr(a) THEN OfTensor(a)
                         ELSE IF IsInt(a) THEN OfNumber(a) ELSE Unspecialized
    [] ann = "Tensor" -> OfTensor(a)
    [] ann = "int"    -> OfNumber(a)
    [] OTHER          -> Unspecialized

(* For a bool or a float the text i1 or fp32 itself goes into the launcher, *)
(* where no such name is defined.                                           *)
get_arg_sig_key(ann, a) ==
  CASE ann = "Tensor" -> IF HasDataPtr(a) THEN a.dtype ELSE "AttributeError"
    [] ann \in {"bool", "float"} -> "NameError"
    [] OTHER -> key_of(a)

(* The position of an argument among the regular ones decides whether it is *)
(* specialised in the key.                                                  *)
Specialized == [f \in DOMAIN Funs |-> Ordered(DOMAIN RegularArgs[f] \ Funs[f].do_not_specialize)]
SpecKey(f, args) ==
  [k \in DOMAIN Specialized[f] |->
    LET i == RegularArgs[f][Specialized[f][k]]
    IN  get_arg_specialization_key(Params(f)[i], args[i])]
SigKey(f, args) ==
  [j \in DOMAIN RegularArgs[f] |->
    get_arg_sig_key(Params(f)[RegularArgs[f][j]], args[RegularArgs[f][j]])]

(* A constexpr is compared as Python compares values: True is 1, as is 1.0. *)
ConstexprValue(a) == IF a.kind = "none" THEN NoneConstant ELSE a.v
Raised == {"NameError", "AttributeError", "TypeError"}
ConstexprKey(f, args) == [i \in Constexprs(f) |-> ConstexprValue(args[i])]
Key(f, args, warps) ==
  [sig |-> SigKey(f, args), constexpr |-> ConstexprKey(f, args),
   spec |-> SpecKey(f, args), num_warps |-> warps]
KeyRaises(key) == \/ \E j \in DOMAIN key.sig : key.sig[j] \in Raised
                  \/ \E j \in DOMAIN key.spec : key.spec[j][1] \in Raised
                  \/ key.num_warps = 3         \* not a power of two

make_constants(f, args) ==
  [i \in Constexprs(f) \cup {j \in Positions(f) : args[j].kind = "none"}
                       \cup get_config(f, args).equal_to_1
    |-> IF i \in get_config(f, args).equal_to_1 THEN 1
        ELSE ConstexprValue(args[i])]

(* A kernel, and the parameters ast_to_ttir gives it: those that are not    *)
(* constants.                                                              *)
compile(f, args) ==
  LET constants == make_constants(f, args)
      signature == [i \in Positions(f) \ Constexprs(f) |-> type_of(key_of(args[i]))]
  IN  [signature |-> signature, constants |-> constants, configs |-> get_config(f, args),
       parameters |-> Ordered(DOMAIN signature \ DOMAIN constants)]

(* ctypes keeps the low bits of a number. *)
Wrapped(v, half) == ((v + half) % (2 * half)) - half
ctype_value(a, ty) ==
  CASE ty \in {"i1", "i32"} -> Wrapped(a.v, Half32)
    [] ty = "i64"           -> Wrapped(a.v, Half64)
    [] ty = "u64"           -> a.v % (2 * Half64)
    [] OTHER                -> a.v

(* c_wrapper: a pointer is taken of every argument the signature has as a   *)
(* pointer, also of a None.                                                *)
Passed(f, kernel, args) ==
  [j \in DOMAIN RegularArgs[f] |->
    LET i == RegularArgs[f][j]
    IN  IF HasDataPtr(args[i]) THEN 0 ELSE ctype_value(args[i], kernel.signature[i])]
WrapperRaises(f, args) == \E i \in Positions(f) \ Constexprs(f) : args[i].kind = "none"

-----------------------------------------------------------------------------
Init ==
  /\ jitted = {}
  /\ src = [f \in DOMAIN Funs |-> 0]
  /\ hash = [f \in DOMAIN Funs |-> NoHash]
  /\ walk = <<>>
  /\ cache = [f \in DOMAIN Funs |-> <<>>]
  /\ hook = "None"
  /\ last = "nothing"
  /\ calls = 0

(* A call from outside, when none is under way. *)
Call == walk = <<>> /\ calls < MaxCalls /\ calls' = calls + 1

(* The decorator. *)
jit(f) ==
  /\ walk = <<>> /\ f \notin jitted /\ Cardinality(jitted) < MaxJitted
  /\ jitted' = jitted \cup {f}
  /\ UNCHANGED <<src, hash, walk, cache, hook, last, calls>>

(* The generated launcher.  built is whether the compiler succeeds.         *)
Stored(f, key, kernel, ran) ==
  cache' = IF ran
           THEN [cache EXCEPT ![f] = [k \in DOMAIN @ \cup {key} |-> IF k = key THEN kernel ELSE @[k]]]
           ELSE cache

run(f, given, warps, warmup, built) ==
  LET args == IF warmup THEN [i \in DOMAIN given |-> wrap_dtype(given[i])] ELSE given
      key == Key(f, args, warps)
      ran == warmup \/ ~WrapperRaises(f, args)
      Fails(why) == last' = why /\ UNCHANGED cache
  IN  /\ Call /\ f \in jitted
      /\ IF KeyRaises(key) THEN Fails("raised")
         ELSE IF key \in DOMAIN cache[f]
         THEN last' = (IF ran THEN "ran" ELSE "raised") /\ UNCHANGED cache
         ELSE IF hook = "true" THEN Fails("hooked")   \* the hook takes the compilation over
         ELSE IF ~built THEN Fails("raised")
         ELSE /\ last' = IF ran THEN "ran" ELSE "raised"
              /\ Stored(f, key, compile(f, args), ran)
      /\ UNCHANGED <<jitted, src, hash, walk, hook>>

(* Setting the source forgets the hash and leaves the cache.  Mutant: the   *)
(* hash stays too.                                                         *)
HashKept(f) == hash' = hash
HashForgotten(f) == hash' = [hash EXCEPT ![f] = NoHash]
set_src(f) ==
  /\ Call /\ f \in jitted /\ src[f] < MaxSrc
  /\ src' = [src EXCEPT ![f] = @ + 1]
  /\ HashForgotten(f)
  /\ UNCHANGED <<jitted, walk, cache, hook, last>>

(* DependenciesFinder: a hash is the list of what went into it, the source  *)
(* of the function and the hashes of those it calls, in the order of the    *)
(* calls.  A function that is called keeps the hash it has or is visited    *)
(* for one, while its caller waits.                                         *)
Finder(f) == [of |-> f, visited |-> 0, ret |-> <<<<f, src[f]>>>>]
Visiting == walk[Len(walk)]
Callee == Funs[Visiting.of].calls[Visiting.visited + 1]
WithHash(finder, g) ==
  [of |-> finder.of, visited |-> finder.visited + 1,
   ret |-> finder.ret \o hash[g] \o <<Funs[g].noinline>>]
InVisit == walk # <<>> /\ UNCHANGED <<jitted, src, cache, hook, last, calls>>
MoreCalls == Visiting.visited < Len(Funs[Visiting.of].calls)

cache_key(f) ==
  /\ Call /\ f \in jitted /\ hash[f] = NoHash
  /\ walk' = <<Finder(f)>>
  /\ UNCHANGED <<jitted, src, hash, cache, hook, last>>

(* A plain function fails the assertion, one that is being visited is       *)
(* visited again until Python gives up: what was hashed stays so.           *)
Raises == \/ Callee \notin jitted
          \/ hash[Callee] = NoHash /\ \E w \in DOMAIN walk : walk[w].of = Callee
visit_Call ==
  /\ InVisit /\ MoreCalls
  /\ \/ Raises /\ walk' = <<>>
     \/ ~Raises /\ hash[Callee] = NoHash /\ walk' = Append(walk, Finder(Callee))
     \/ /\ ~Raises /\ hash[Callee] # NoHash
        /\ walk' = [walk EXCEPT ![Len(walk)] = WithHash(Visiting, Callee)]
  /\ UNCHANGED hash

(* The finder's hash becomes that of its function, with the version if it   *)
(* is the one that was asked for.                                           *)
finder_ret ==
  /\ InVisit /\ ~MoreCalls
  /\ hash' = [hash EXCEPT ![Visiting.of] =
                IF Len(walk) = 1 THEN Append(Visiting.ret, VersionKey) ELSE Visiting.ret]
  /\ walk' = SubSeq(walk, 1, Len(walk) - 1)

set_cache_hook(h) ==
  /\ Call /\ hook # h
  /\ hook' = h
  /\ UNCHANGED <<jitted, src, hash, walk, cache, last>>

Arguments ==
  [f \in DOMAIN Funs |->
    {args \in [Positions(f) -> UNION {Values(f, i) : i \in Positions(f)}] :
       \A i \in Positions(f) : args[i] \in Values(f, i)}]

Next ==
  \/ \E f \in DOMAIN Funs : jit(f) \/ set_src(f) \/ cache_key(f)
  \/ visit_Call \/ finder_ret
  \/ \E f \in jitted : \E given \in Arguments[f], warps \in Warps, warmup, built \in BOOLEAN :
       run(f, given, warps, warmup, built)
  \/ \E h \in {"None", "false", "true"} : set_cache_hook(h)

Spec == Init /\ [][Next]_vars

-----------------------------------------------------------------------------
(* The parameters a kernel may be specialised on without the key telling:   *)
(* those at whose position among the regular ones do_not_specialize has     *)
(* another parameter, and those with an annotation the key does not know.   *)
NotInKey(f) ==
  {RegularArgs[f][j] : j \in
     {j \in DOMAIN RegularArgs[f] :
        \/ j \in Funs[f].do_not_specialize
        \/ Params(f)[RegularArgs[f][j]] \notin {"", "Tensor", "int"}}}
    \ Funs[f].do_not_specialize

Holds(kernel, f, args, i) ==
  /\ i \in kernel.configs.equal_to_1 => args[i].v = 1
  /\ i \in kernel.configs.divisible_by_16 \ Constexprs(f) => is_divisible_by_16(args[i])
  /\ i \in Constexprs(f) => kernel.constants[i] = ConstexprValue(args[i])

(* P holds of every kernel in the cache and the arguments it is found for.  *)
Found(P(_, _, _)) ==
  \A f \in jitted : cache[f] # <<>> =>
    \A args \in Arguments[f], warps \in Warps :
      LET key == Key(f, args, warps)
      IN  key \in DOMAIN cache[f] => P(f, cache[f][key], args)

(* A cached kernel was compiled for arguments of the types it is found for, *)
(* and what it assumes of them (is 1, is a multiple of 16, has this value)  *)
(* holds, whether it was launched or warmed up before.  Exempt are the      *)
(* assumptions the key does not tell.                                       *)
KernelFitsArguments ==
  Found(LAMBDA f, kernel, args :
    /\ \A i \in DOMAIN kernel.signature : kernel.signature[i] = type_of(key_of(args[i]))
    /\ \A i \in Positions(f) \ NotInKey(f) : Holds(kernel, f, args, i))

(* A number in the range of some 64-bit type reaches the kernel as it is,   *)
(* and at the place of the parameter it is for, unless an argument was      *)
(* folded into the kernel: c_wrapper passes the folded ones as well.        *)
InRange(a) == a.kind = "int" => -Half64 <= a.v /\ a.v < 2 * Half64
ArgumentsArrive ==
  Found(LAMBDA f, kernel, args :
    /\ kernel.parameters = RegularArgs[f]
    /\ ~WrapperRaises(f, args)
    => \A j \in DOMAIN RegularArgs[f] :
         LET a == args[kernel.parameters[j]]
         IN  ~HasDataPtr(a) /\ InRange(a) => Passed(f, kernel, args)[j] = a.v)

(* Whatever was hashed, set and hashed again, also as the callee of another *)
(* function, a hash has the source its function has now.                    *)
HashOfOwnSource == \A f \in DOMAIN Funs : hash[f] # NoHash => hash[f][1] = <<f, src[f]>>

=============================================================================
