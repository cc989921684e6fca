--------------------------- MODULE TritonJITProofs ---------------------------
(***************************************************************************)
(* Proofs, for every set of functions and every argument, that the key of  *)
(* the cache tells apart what a kernel was compiled for, that the numbers  *)
(* reach the kernel, and that a hash has the source of its function.       *)
(***************************************************************************)
EXTENDS TritonJIT, FiniteSetTheorems, SequenceTheorems, NaturalsInduction, WellFoundedInduction, TLAPS

(* A set of numbers has a least one.                                       *)
LEMMA Least ==
  ASSUME NEW T \in SUBSET Nat, T # {}
  PROVE  \E x \in T : \A y \in T : x <= y
<1> DEFINE R == {ss \in Nat \X Nat : ss[1] < ss[2]}
<1>1. IsWellFoundedOn(R, Nat)
  BY NatLessThanWellFounded DEF OpToRel
<1>2. PICK x \in T : \A y \in T : ~ (<<y, x>> \in R)
  <2> HIDE DEF R
  <2> QED BY <1>1, WFMin
<1>3. \A y \in T : ~ (y < x)
  BY <1>2
<1> QED BY <1>3

-----------------------------------------------------------------------------
(* The numbers of a set, in order.                                         *)
IsOrder(s, S) ==
  /\ s \in [1 .. Cardinality(S) -> S]
  /\ \A i \in S : \E j \in DOMAIN s : s[j] = i
  /\ \A j, k \in DOMAIN s : j < k => s[j] < s[k]
HasOrders(n) == \A S \in SUBSET (1 .. n) : Cardinality(S) \in Nat /\ \E s : IsOrder(s, S)

(* The largest number comes last.                                          *)
LEMMA OrderNext ==
  ASSUME NEW n \in Nat, HasOrders(n)
  PROVE  HasOrders(n + 1)
<1> SUFFICES ASSUME NEW S \in SUBSET (1 .. n + 1)
             PROVE  Cardinality(S) \in Nat /\ \E s : IsOrder(s, S)
  BY DEF HasOrders
<1>1. PICK T : T = S \ {n + 1}
  OBVIOUS
<1>2. T \in SUBSET (1 .. n) /\ n + 1 \notin T
  BY <1>1
<1>3. IsFiniteSet(T)
  <2>1. IsFiniteSet(1 .. n)
    <3>1. 1 \in Int /\ n \in Int
      OBVIOUS
    <3> QED
      BY <3>1, FS_Interval, Zenon
  <2> QED
    BY <1>2, <2>1, FS_Subset, Zenon
<1>4. PICK c \in Nat : c = Cardinality(T)
  BY <1>2 DEF HasOrders
<1>5. PICK t : IsOrder(t, T)
  BY <1>2 DEF HasOrders
<1>6. CASE n + 1 \notin S
  <2>1. S = T
    BY <1>1, <1>6
  <2> QED
    BY <1>4, <1>5, <2>1
<1>7. CASE n + 1 \in S
  <2>1. S = T \cup {n + 1}
    BY <1>1, <1>7
  <2>2. Cardinality(S) = c + 1
    BY <1>2, <1>3, <1>4, <2>1, FS_AddElement, Zenon
  <2>3. /\ t \in [1 .. c -> T]
        /\ \A i \in T : \E j \in 1 .. c : t[j] = i
        /\ \A j, k \in 1 .. c : j < k => t[j] < t[k]
    BY <1>4, <1>5 DEF IsOrder
  <2>4. PICK s : s = [j \in 1 .. c + 1 |-> IF j = c + 1 THEN n + 1 ELSE t[j]]
    OBVIOUS
  <2>5. s \in [1 .. c + 1 -> S] /\ DOMAIN s = 1 .. c + 1
    BY <2>1, <2>3, <2>4
  <2>6. \A j \in 1 .. c : s[j] = t[j]
    BY <2>4
  <2>7. s[c + 1] = n + 1
    BY <2>4
  <2>8. \A i \in S : \E j \in 1 .. c + 1 : s[j] = i
    BY <2>1, <2>3, <2>6, <2>7
  <2>9. \A j, k \in 1 .. c + 1 : j < k => s[j] < s[k]
    <3> SUFFICES ASSUME NEW j \in 1 .. c + 1, NEW k \in 1 .. c + 1, j < k
                 PROVE  s[j] < s[k]
      OBVIOUS
    <3>1. j \in 1 .. c
      OBVIOUS
    <3>2. s[j] = t[j] /\ t[j] \in 1 .. n
      BY <1>2, <2>3, <2>6, <3>1
    <3>3. CASE k = c + 1
      BY <2>7, <3>2, <3>3
    <3>4. CASE k \in 1 .. c
      BY <2>3, <2>6, <3>1, <3>4
    <3> QED
      BY <3>3, <3>4
  <2>10. IsOrder(s, S)
    BY <2>2, <2>5, <2>8, <2>9 DEF IsOrder
  <2> QED
    BY <2>2, <2>10
<1> QED
  BY <1>6, <1>7

(* Every set of numbers up to n has its order.                             *)
LEMMA Orders == \A n \in Nat : HasOrders(n)
<1> DEFINE T == {n \in Nat : ~HasOrders(n)}
<1> SUFFICES ASSUME T # {} PROVE FALSE
  OBVIOUS
<1>1. PICK n \in T : \A y \in T : n <= y
  <2>1. T \in SUBSET Nat
    OBVIOUS
  <2> HIDE DEF T
  <2> QED
    BY <2>1, Least
<1>2. HasOrders(0)
  <2>1. Cardinality({}) \in Nat /\ Cardinality({}) = 0
    BY FS_EmptySet
  <2>2. PICK s : s = [j \in 1 .. 0 |-> 0]
    OBVIOUS
  <2>3. IsOrder(s, {})
    BY <2>1, <2>2 DEF IsOrder
  <2>4. \A S \in SUBSET (1 .. 0) : S = {}
    OBVIOUS
  <2> QED
    BY <2>1, <2>3, <2>4, Zenon DEF HasOrders
<1>3. n # 0 /\ n \in Nat /\ ~HasOrders(n)
  BY <1>2
<1>4. n - 1 \in Nat /\ n - 1 + 1 = n /\ ~ (n <= n - 1)
  BY <1>3
<1>5. HasOrders(n - 1)
  BY <1>1, <1>4
<1> QED
  BY <1>3, <1>4, <1>5, OrderNext

(* What Ordered promises.                                                  *)
LEMMA OrderedIs ==
  ASSUME NEW n \in Nat, NEW S \in SUBSET (1 .. n)
  PROVE  Cardinality(S) \in Nat /\ IsOrder(Ordered(S), S)
<1>1. HasOrders(n)
  BY Orders
<1>2. Cardinality(S) \in Nat /\ \E s : IsOrder(s, S)
  BY <1>1 DEF HasOrders
<1> QED
  BY <1>2 DEF IsOrder, Ordered

-----------------------------------------------------------------------------
(* What the key tells.                                                     *)

(* The parameters of a function, and the places of those in the key.       *)
LEMMA RegularIs ==
  ASSUME NEW f \in DOMAIN Funs
  PROVE  /\ \A j \in DOMAIN RegularArgs[f] : RegularArgs[f][j] \in Positions(f) \ Constexprs(f)
         /\ \A i \in Positions(f) \ Constexprs(f) :
              \E j \in DOMAIN RegularArgs[f] : RegularArgs[f][j] = i
         /\ \E n \in Nat : DOMAIN RegularArgs[f] = 1 .. n
<1>1. PICK n \in Nat : Positions(f) = 1 .. n
  BY FunsAssumption DEF Positions, Params
<1>2. PICK S \in SUBSET (1 .. n) : S = Positions(f) \ Constexprs(f)
  BY <1>1
<1>3. RegularArgs[f] = Ordered(S)
  BY <1>2 DEF RegularArgs
<1>4. Cardinality(S) \in Nat /\ IsOrder(Ordered(S), S)
  BY OrderedIs
<1> QED
  BY <1>2, <1>3, <1>4 DEF IsOrder

(* The places in the key of the parameters that it specialises.            *)
LEMMA SpecializedIs ==
  ASSUME NEW f \in DOMAIN Funs
  PROVE  /\ \A k \in DOMAIN Specialized[f] :
              Specialized[f][k] \in DOMAIN RegularArgs[f] \ Funs[f].do_not_specialize
         /\ \A j \in DOMAIN RegularArgs[f] \ Funs[f].do_not_specialize :
              \E k \in DOMAIN Specialized[f] : Specialized[f][k] = j
<1>1. PICK n \in Nat : DOMAIN RegularArgs[f] = 1 .. n
  BY RegularIs
<1>2. PICK S \in SUBSET (1 .. n) : S = DOMAIN RegularArgs[f] \ Funs[f].do_not_specialize
  BY <1>1
<1>3. Specialized[f] = Ordered(S)
  BY <1>2 DEF Specialized
<1>4. IsOrder(Ordered(S), S)
  BY OrderedIs
<1> QED
  BY <1>2, <1>3, <1>4 DEF IsOrder

(* Two arguments for the same parameter that the key does not tell apart.  *)
SameSig(ann, a, b) ==
  /\ get_arg_sig_key(ann, a) = get_arg_sig_key(ann, b)
  /\ get_arg_sig_key(ann, a) \notin Raised
SameSpec(ann, a, b) ==
  /\ get_arg_specialization_key(ann, a) = get_arg_specialization_key(ann, b)
  /\ get_arg_specialization_key(ann, a)[1] \notin Raised

(* Equal keys have equal parts.                                            *)
LEMMA SameKey ==
  ASSUME NEW f \in DOMAIN Funs, NEW a, NEW b, NEW v, NEW w,
         Key(f, a, v) = Key(f, b, w), ~KeyRaises(Key(f, a, v))
  PROVE  /\ \A i \in Positions(f) \ Constexprs(f) : SameSig(Params(f)[i], a[i], b[i])
         /\ \A j \in DOMAIN RegularArgs[f] \ Funs[f].do_not_specialize :
              LET i == RegularArgs[f][j] IN SameSpec(Params(f)[i], a[i], b[i])
         /\ \A i \in Constexprs(f) : ConstexprValue(a[i]) = ConstexprValue(b[i])
<1>1. /\ SigKey(f, a) = SigKey(f, b) /\ SpecKey(f, a) = SpecKey(f, b)
      /\ ConstexprKey(f, a) = ConstexprKey(f, b)
  BY DEF Key
<1>2. /\ \A j \in DOMAIN SigKey(f, a) : SigKey(f, a)[j] \notin Raised
      /\ \A j \in DOMAIN SpecKey(f, a) : SpecKey(f, a)[j][1] \notin Raised
  BY DEF Key, KeyRaises
<1>3. ASSUME NEW i \in Positions(f) \ Constexprs(f)
      PROVE  SameSig(Params(f)[i], a[i], b[i])
  <2>1. PICK j \in DOMAIN RegularArgs[f] : RegularArgs[f][j] = i
    BY RegularIs
  <2>2. j \in DOMAIN SigKey(f, a)
    BY DEF SigKey
  <2>3. /\ SigKey(f, a)[j] = get_arg_sig_key(Params(f)[i], a[i])
        /\ SigKey(f, b)[j] = get_arg_sig_key(Params(f)[i], b[i])
    BY <2>1 DEF SigKey
  <2> QED
    BY <1>1, <1>2, <2>2, <2>3 DEF SameSig
<1>4. ASSUME NEW j \in DOMAIN RegularArgs[f] \ Funs[f].do_not_specialize
      PROVE  LET i == RegularArgs[f][j] IN SameSpec(Params(f)[i], a[i], b[i])
  <2>1. PICK i : i = RegularArgs[f][j]
    OBVIOUS
  <2>2. PICK k \in DOMAIN Specialized[f] : Specialized[f][k] = j
    BY SpecializedIs
  <2>3. k \in DOMAIN SpecKey(f, a)
    BY DEF SpecKey
  <2>4. /\ SpecKey(f, a)[k] = get_arg_specialization_key(Params(f)[i], a[i])
        /\ SpecKey(f, b)[k] = get_arg_specialization_key(Params(f)[i], b[i])
    BY <2>1, <2>2 DEF SpecKey
  <2> QED
    BY <1>1, <1>2, <2>1, <2>3, <2>4 DEF SameSpec
<1>5. \A i \in Constexprs(f) : ConstexprValue(a[i]) = ConstexprValue(b[i])
  <2> SUFFICES ASSUME NEW i \in Constexprs(f)
               PROVE  ConstexprValue(a[i]) = ConstexprValue(b[i])
    OBVIOUS
  <2>1. ConstexprKey(f, a)[i] = ConstexprValue(a[i]) /\ ConstexprKey(f, b)[i] = ConstexprValue(b[i])
    BY DEF ConstexprKey
  <2> QED
    BY <1>1, <2>1
<1> QED
  BY <1>3, <1>4, <1>5

(* The signature's part of the key tells the types apart.                  *)
LEMMA SigTellsType ==
  ASSUME NEW ann, NEW a, NEW b, SameSig(ann, a, b)
  PROVE  key_of(a) = key_of(b)
BY DEF SameSig, get_arg_sig_key, Raised, HasDataPtr, key_of

(* Text tells truth from falsehood.                                        *)
LEMMA TextTells == \A p, q : Text(p) = Text(q) => (p <=> q)
BY DEF Text

(* The specialisation's part of the key tells the values apart that a      *)
(* kernel is specialised for, of a parameter whose annotation it knows.    *)
LEMMA SpecTellsValue ==
  ASSUME NEW ann \in {"", "Tensor", "int"}, NEW a, NEW b,
         SameSig(ann, a, b), SameSpec(ann, a, b)
  PROVE  /\ IsInt(a) /\ a.v = 1 => b.v = 1
         /\ is_divisible_by_16(a) => is_divisible_by_16(b)
<1>1. key_of(a) = key_of(b)
  BY SigTellsType
<1>2. CASE ann = "Tensor"
  <2>1. HasDataPtr(a) /\ HasDataPtr(b)
    BY <1>2 DEF SameSig, get_arg_sig_key, Raised
  <2>2. OfTensor(a) = OfTensor(b)
    BY <1>2 DEF SameSpec, get_arg_specialization_key
  <2>3. <<Text(a.aligned)>> = <<Text(b.aligned)>>
    BY <2>1, <2>2 DEF OfTensor
  <2>4. a.aligned <=> b.aligned
    <3>1. Text(a.aligned) = Text(b.aligned)
      BY <2>3
    <3> QED
      BY <3>1 DEF Text
  <2> QED
    BY <2>1, <2>4, Zenon DEF is_divisible_by_16, IsInt, HasDataPtr
<1>3. CASE IsInt(a) /\ IsInt(b) /\ ann # "Tensor"
  <2>1. OfNumber(a) = OfNumber(b)
    BY <1>3 DEF SameSpec, get_arg_specialization_key, HasDataPtr, IsInt
  <2>2. <<Text(a.v % 16 = 0), Text(a.v = 1)>> = <<Text(b.v % 16 = 0), Text(b.v = 1)>>
    BY <1>3, <2>1 DEF OfNumber, IsInt
  <2>3. Text(a.v % 16 = 0) = Text(b.v % 16 = 0) /\ Text(a.v = 1) = Text(b.v = 1)
    BY <2>2
  <2>4. (a.v % 16 = 0 <=> b.v % 16 = 0) /\ (a.v = 1 <=> b.v = 1)
    BY <2>3, TextTells, Zenon
  <2> QED
    BY <1>3, <2>4, Zenon DEF is_divisible_by_16, IsInt, HasDataPtr
<1>4. CASE ann = ""
  <2>1. CASE HasDataPtr(a)
    <3>1. HasDataPtr(b) /\ OfTensor(a) = OfTensor(b)
      BY <1>4, <2>1 DEF SameSpec, get_arg_specialization_key, HasDataPtr, IsInt, OfTensor, OfNumber, Unspecialized, Text
    <3>2. Text(a.aligned) = Text(b.aligned)
      BY <2>1, <3>1 DEF OfTensor
    <3>3. a.aligned <=> b.aligned
      BY <3>2 DEF Text
    <3> QED
      BY <2>1, <3>1, <3>3, Zenon DEF is_divisible_by_16, IsInt, HasDataPtr
  <2>2. CASE IsInt(a)
    <3>1. IsInt(b)
      BY <1>4, <2>2 DEF SameSpec, get_arg_specialization_key, HasDataPtr, IsInt, OfTensor, OfNumber, Unspecialized, Text
    <3> QED
      BY <1>3, <1>4, <2>2, <3>1
  <2>3. CASE ~HasDataPtr(a) /\ ~IsInt(a)
    <3>1. get_arg_specialization_key("", a) = Unspecialized
      BY <2>3 DEF get_arg_specialization_key
    <3>2. ~HasDataPtr(b) /\ ~IsInt(b)
      BY <1>4, <3>1 DEF SameSpec, get_arg_specialization_key, HasDataPtr, IsInt, OfTensor, OfNumber, Unspecialized, Text
    <3>3. a.kind = "none" => b.kind = "none"
      BY <1>1, <2>3, <3>2 DEF key_of, HasDataPtr, IsInt
    <3> QED
      BY <2>3, <3>2, <3>3 DEF is_divisible_by_16
  <2> QED
    BY <2>1, <2>2, <2>3
<1>5. CASE ann = "int"
  <2>1. /\ a.kind \in {"int", "bool", "float"} /\ b.kind \in {"int", "bool", "float"}
        /\ OfNumber(a) = OfNumber(b)
    BY <1>5 DEF SameSpec, get_arg_specialization_key, OfNumber, Raised, Text
  <2>2. IsInt(a) <=> IsInt(b)
    BY <1>1, <2>1 DEF key_of, IsInt
  <2>3. CASE IsInt(a)
    BY <1>3, <1>5, <2>2, <2>3
  <2>4. CASE ~IsInt(a)
    BY <2>1, <2>4 DEF is_divisible_by_16, HasDataPtr, IsInt
  <2> QED
    BY <2>3, <2>4
<1> QED
  BY <1>2, <1>4, <1>5

\* A kernel fits arguments: in the types, and in the values the key tells.
FitsTypes(kernel, args) ==
  \A i \in DOMAIN kernel.signature : kernel.signature[i] = type_of(key_of(args[i]))
FitsValues(f, kernel, args) ==
  \A i \in Positions(f) \ NotInKey(f) : Holds(kernel, f, args, i)

(* A kernel fits all arguments that have the key it was compiled for.      *)
LEMMA KeyFits ==
  ASSUME NEW f \in DOMAIN Funs, NEW a, NEW b, NEW v, NEW w,
         Key(f, a, v) = Key(f, b, w), ~KeyRaises(Key(f, a, v))
  PROVE  FitsTypes(compile(f, a), b) /\ FitsValues(f, compile(f, a), b)
<1>1. PICK kernel : kernel = compile(f, a)
  OBVIOUS
<1>2. /\ kernel.signature = [i \in Positions(f) \ Constexprs(f) |-> type_of(key_of(a[i]))]
      /\ kernel.constants = make_constants(f, a)
      /\ kernel.configs = get_config(f, a)
  BY <1>1 DEF compile
<1>3. FitsTypes(kernel, b)
  <2> SUFFICES ASSUME NEW i \in Positions(f) \ Constexprs(f)
               PROVE  kernel.signature[i] = type_of(key_of(b[i]))
    BY <1>2 DEF FitsTypes
  <2>1. key_of(a[i]) = key_of(b[i])
    BY SameKey, SigTellsType
  <2> QED
    BY <1>2, <2>1
<1>4. ASSUME NEW i \in Constexprs(f)
      PROVE  Holds(kernel, f, b, i)
  <2>1. ConstexprValue(a[i]) = ConstexprValue(b[i])
    BY SameKey
  <2>2. i \in kernel.configs.equal_to_1 => IsInt(a[i]) /\ a[i].v = 1 /\ ConstexprValue(a[i]) = 1
    BY <1>2 DEF get_config, ConstexprValue, IsInt
  <2>3. kernel.constants[i] = ConstexprValue(b[i])
    BY <1>2, <2>1, <2>2 DEF make_constants
  <2>4. i \in kernel.configs.equal_to_1 => b[i].v = 1
    BY <2>1, <2>2, WidthsAssumption DEF ConstexprValue, NoneConstant
  <2> QED
    BY <1>4, <2>3, <2>4 DEF Holds
<1>5. ASSUME NEW i \in Positions(f) \ Constexprs(f), i \notin NotInKey(f)
      PROVE  Holds(kernel, f, b, i)
  <2>1. PICK j \in DOMAIN RegularArgs[f] : RegularArgs[f][j] = i
    BY RegularIs
  <2>2. CASE i \in Funs[f].do_not_specialize
    BY <1>2, <1>5, <2>2 DEF Holds, get_config
  <2>3. CASE i \notin Funs[f].do_not_specialize
    <3>1. j \notin Funs[f].do_not_specialize /\ Params(f)[i] \in {"", "Tensor", "int"}
      BY <1>5, <2>1, <2>3 DEF NotInKey
    <3>2. SameSig(Params(f)[i], a[i], b[i]) /\ SameSpec(Params(f)[i], a[i], b[i])
      BY <2>1, <3>1, SameKey
    <3>3. /\ IsInt(a[i]) /\ a[i].v = 1 => b[i].v = 1
          /\ is_divisible_by_16(a[i]) => is_divisible_by_16(b[i])
      BY <3>1, <3>2, SpecTellsValue
    <3> QED
      BY <1>2, <1>5, <3>3 DEF Holds, get_config
  <2> QED
    BY <2>2, <2>3
<1>6. Constexprs(f) \subseteq Positions(f)
  BY DEF Constexprs
<1>7. FitsValues(f, kernel, b)
  BY <1>4, <1>5, <1>6 DEF FitsValues
<1> QED
  BY <1>1, <1>3, <1>7

-----------------------------------------------------------------------------
(* The cache.                                                              *)

\* The arguments that a launch or a warm-up of f compiles a kernel for.
Wrap(args) == [i \in DOMAIN args |-> wrap_dtype(args[i])]
Launched(f) == Arguments[f] \cup {Wrap(args) : args \in Arguments[f]}

(* Each kernel was compiled for arguments whose key it is found by.        *)
Compiled(f, key) ==
  \E args \in Launched(f), warps \in Warps :
    key = Key(f, args, warps) /\ cache[f][key] = compile(f, args)
CacheInv ==
  /\ jitted \subseteq DOMAIN Funs
  /\ cache = [f \in DOMAIN Funs |-> cache[f]]
  /\ \A f \in DOMAIN Funs : \A key \in DOMAIN cache[f] : ~KeyRaises(key) /\ Compiled(f, key)

(* Before the first launch the cache is empty.                             *)
LEMMA InitCache == Init => CacheInv
BY DEF Init, CacheInv

(* A launch stores the kernel of its own arguments or nothing.             *)
LEMMA RunCache ==
  ASSUME CacheInv, NEW f \in jitted, NEW given \in Arguments[f], NEW warps \in Warps,
         NEW warmup \in BOOLEAN, NEW built \in BOOLEAN, run(f, given, warps, warmup, built)
  PROVE  CacheInv'
<1>1. PICK args : args = IF warmup THEN Wrap(given) ELSE given
  OBVIOUS
<1>2. PICK key : key = Key(f, args, warps)
  OBVIOUS
<1>3. args \in Launched(f) /\ f \in DOMAIN Funs
  BY <1>1 DEF Launched, CacheInv
<1>4. /\ jitted' = jitted
      /\ \/ cache' = cache
         \/ /\ ~KeyRaises(key)
            /\ cache' = [cache EXCEPT ![f] = [k \in DOMAIN @ \cup {key} |->
                                                IF k = key THEN compile(f, args) ELSE @[k]]]
  BY <1>1, <1>2 DEF run, Stored, Wrap
<1>5. CASE cache' = cache
  BY <1>4, <1>5 DEF CacheInv, Compiled
<1>6. CASE /\ ~KeyRaises(key)
           /\ cache' = [cache EXCEPT ![f] = [k \in DOMAIN @ \cup {key} |->
                                               IF k = key THEN compile(f, args) ELSE @[k]]]
  <2>1. /\ cache' = [g \in DOMAIN Funs |-> cache'[g]]
        /\ \A g \in DOMAIN Funs : g # f => cache'[g] = cache[g]
        /\ cache'[f] = [k \in DOMAIN cache[f] \cup {key} |->
                          IF k = key THEN compile(f, args) ELSE cache[f][k]]
    BY <1>3, <1>6 DEF CacheInv
  <2>2. ASSUME NEW g \in DOMAIN Funs, NEW k \in DOMAIN cache'[g]
        PROVE  ~KeyRaises(k) /\ Compiled(g, k)'
    <3>1. CASE g # f
      BY <2>1, <3>1 DEF CacheInv, Compiled
    <3>2. CASE g = f /\ k = key
      <4>1. cache'[f][k] = compile(f, args)
        BY <2>1, <2>2, <3>2
      <4> QED
        BY <1>2, <1>3, <1>6, <3>2, <4>1 DEF Compiled
    <3>3. CASE g = f /\ k # key
      <4>1. k \in DOMAIN cache[f] /\ cache'[f][k] = cache[f][k]
        BY <2>1, <2>2, <3>3
      <4> QED
        BY <1>3, <3>3, <4>1 DEF CacheInv, Compiled
    <3> QED
      BY <3>1, <3>2, <3>3
  <2> QED
    BY <1>4, <2>1, <2>2 DEF CacheInv
<1> QED
  BY <1>4, <1>5, <1>6

(* The other calls leave the cache alone.                                  *)
LEMMA NextCache ==
  ASSUME CacheInv, [Next]_vars
  PROVE  CacheInv'
<1>1. CASE \E f \in DOMAIN Funs : jit(f) \/ set_src(f) \/ cache_key(f)
  <2>1. cache' = cache /\ jitted' \subseteq DOMAIN Funs
    BY <1>1 DEF jit, set_src, cache_key, CacheInv
  <2> QED
    BY <2>1 DEF CacheInv, Compiled
<1>2. CASE visit_Call \/ finder_ret \/ (\E h \in {"None", "false", "true"} : set_cache_hook(h)) \/ UNCHANGED vars
  <2>1. cache' = cache /\ jitted' = jitted
    BY <1>2 DEF visit_Call, finder_ret, InVisit, set_cache_hook, vars
  <2> QED
    BY <2>1 DEF CacheInv, Compiled
<1>3. CASE \E f \in jitted : \E given \in Arguments[f], warps \in Warps, warmup, built \in BOOLEAN :
             run(f, given, warps, warmup, built)
  BY <1>3, RunCache
<1> QED
  BY <1>1, <1>2, <1>3 DEF Next

(* So it is in every state.                                                *)
LEMMA CacheAlways == Spec => []CacheInv
BY InitCache, NextCache, PTL DEF Spec

(* What the cache holds for a key fits all arguments with that key.        *)
LEMMA FoundFits ==
  ASSUME CacheInv, NEW f \in jitted, NEW args \in Arguments[f], NEW warps \in Warps,
         Key(f, args, warps) \in DOMAIN cache[f]
  PROVE  LET kernel == cache[f][Key(f, args, warps)]
         IN  FitsTypes(kernel, args) /\ FitsValues(f, kernel, args)
<1>1. PICK key : key = Key(f, args, warps)
  OBVIOUS
<1>2. f \in DOMAIN Funs /\ ~KeyRaises(key) /\ Compiled(f, key)
  BY <1>1 DEF CacheInv
<1>3. PICK a, v : key = Key(f, a, v) /\ cache[f][key] = compile(f, a)
  BY <1>2 DEF Compiled
<1> QED
  BY <1>1, <1>2, <1>3, KeyFits

(* Whatever was launched and warmed up before and however large the        *)
(* arguments are, the launcher only finds a kernel for arguments of the    *)
(* types and the values that it was compiled for.                          *)
THEOREM KernelFitsAlways == Spec => []KernelFitsArguments
<1>1. CacheInv => KernelFitsArguments
  <2> SUFFICES ASSUME CacheInv, NEW f \in jitted, NEW args \in Arguments[f], NEW warps \in Warps,
                      Key(f, args, warps) \in DOMAIN cache[f]
               PROVE  LET kernel == cache[f][Key(f, args, warps)]
                      IN  FitsTypes(kernel, args) /\ FitsValues(f, kernel, args)
    BY DEF KernelFitsArguments, Found, FitsTypes, FitsValues
  <2> QED
    BY FoundFits
<1> QED
  BY <1>1, CacheAlways, PTL

-----------------------------------------------------------------------------
(* What reaches the kernel.                                                *)

(* A number below the modulus is its own remainder.                        *)
LEMMA SmallMod ==
  ASSUME NEW x \in Int, NEW m \in Nat, 0 <= x, x < m
  PROVE  x % m = x
OBVIOUS

(* A number in the range of a type keeps its value in it.                  *)
LEMMA WrappedKeeps ==
  ASSUME NEW x \in Int, NEW half \in Nat, -half <= x, x < half
  PROVE  Wrapped(x, half) = x
<1>1. PICK m \in Nat : m = 2 * half
  OBVIOUS
<1>2. x + half \in Int /\ 0 <= x + half /\ x + half < m
  BY <1>1
<1>3. (x + half) % m = x + half
  BY <1>2, SmallMod, Zenon
<1> QED
  BY <1>1, <1>3 DEF Wrapped

(* The type that key_of gives a number has the number in its range.        *)
LEMMA NumberArrives ==
  ASSUME NEW a, a.kind \in {"int", "bool", "float"}, InRange(a),
         a.kind = "int" => a.v \in Int, a.kind = "bool" => a.v \in {0, 1}
  PROVE  ctype_value(a, type_of(key_of(a))) = a.v
<1>1. CASE a.kind = "float"
  <2>1. key_of(a) = "fp32"
    BY <1>1 DEF key_of
  <2> QED
    BY <2>1 DEF type_of, PointerTo, ctype_value
<1>2. CASE a.kind = "bool"
  <2>1. key_of(a) = "i1"
    BY <1>2 DEF key_of
  <2>2. type_of("i1") = "i1"
    BY DEF type_of, PointerTo
  <2>3. Wrapped(a.v, Half32) = a.v
    <3>1. PICK x \in {0, 1} : x = a.v
      BY <1>2
    <3>2. x \in Int /\ Half32 \in Nat /\ -Half32 <= x /\ x < Half32
      BY WidthsAssumption
    <3> QED
      BY <3>1, <3>2, WrappedKeeps
  <2> QED
    BY <2>1, <2>2, <2>3 DEF ctype_value
<1>3. CASE a.kind = "int"
  <2>0. PICK x \in Int : x = a.v
    BY <1>3
  <2>1. -Half64 <= x /\ x < 2 * Half64
    BY <1>3, <2>0 DEF InRange
  <2>2. CASE -Half32 <= x /\ x <= Half32 - 1
    <3>1. key_of(a) = "i32"
      BY <1>3, <2>0, <2>2 DEF key_of
    <3>2. type_of("i32") = "i32"
      BY DEF type_of, PointerTo
    <3>3. Wrapped(x, Half32) = x
      <4>1. Half32 \in Nat /\ x < Half32
        BY <2>2, WidthsAssumption
      <4> QED
        BY <2>2, <4>1, WrappedKeeps
    <3> QED
      BY <2>0, <3>1, <3>2, <3>3 DEF ctype_value
  <2>3. CASE ~ (-Half32 <= x /\ x <= Half32 - 1) /\ Half64 <= x
    <3>1. Half64 <= x /\ x <= 2 * Half64 - 1
      BY <2>1, <2>3, WidthsAssumption
    <3>2. key_of(a) = "u64"
      BY <1>3, <2>0, <2>3, <3>1 DEF key_of
    <3>3. type_of("u64") = "u64"
      BY DEF type_of, PointerTo
    <3>4. PICK m \in Nat : m = 2 * Half64
      BY WidthsAssumption
    <3>5. 0 <= x /\ x < m
      BY <2>1, <3>1, <3>4, WidthsAssumption
    <3>6. x % m = x
      BY <3>5, SmallMod
    <3> QED
      BY <2>0, <3>2, <3>3, <3>4, <3>6 DEF ctype_value
  <2>4. CASE ~ (-Half32 <= x /\ x <= Half32 - 1) /\ ~ (Half64 <= x)
    <3>1. key_of(a) = "i64"
      BY <1>3, <2>0, <2>4 DEF key_of
    <3>2. type_of("i64") = "i64"
      BY DEF type_of, PointerTo
    <3>3. Wrapped(x, Half64) = x
      <4>1. Half64 \in Nat /\ x < Half64
        BY <2>4, WidthsAssumption
      <4> QED
        BY <2>1, <4>1, WrappedKeeps
    <3> QED
      BY <2>0, <3>1, <3>2, <3>3 DEF ctype_value
  <2> QED
    BY <2>2, <2>3, <2>4
<1> QED
  BY <1>1, <1>2, <1>3

(* A number in the range of some type reaches the kernel as it is, at the  *)
(* place of its parameter, from every launch that finds the kernel.        *)
THEOREM ArgumentsArriveAlways == Spec => []ArgumentsArrive
<1>1. CacheInv => ArgumentsArrive
  <2> SUFFICES ASSUME CacheInv, NEW f \in jitted, NEW args \in Arguments[f], NEW warps \in Warps,
                      NEW kernel, Key(f, args, warps) \in DOMAIN cache[f],
                      kernel = cache[f][Key(f, args, warps)],
                      kernel.parameters = RegularArgs[f], ~WrapperRaises(f, args),
                      NEW j \in DOMAIN RegularArgs[f],
                      ~HasDataPtr(args[kernel.parameters[j]]), InRange(args[kernel.parameters[j]])
               PROVE  Passed(f, kernel, args)[j] = args[kernel.parameters[j]].v
    BY DEF ArgumentsArrive, Found
  <2>1. PICK i : i = RegularArgs[f][j]
    OBVIOUS
  <2>2. PICK a : a = args[i]
    OBVIOUS
  <2>3. f \in DOMAIN Funs
    BY DEF CacheInv
  <2>4. i \in Positions(f) \ Constexprs(f)
    BY <2>1, <2>3, RegularIs
  <2>5. kernel.signature[i] = type_of(key_of(a)) /\ key_of(a) \notin Raised
    <3>1. PICK key : key = Key(f, args, warps)
      OBVIOUS
    <3>2. ~KeyRaises(key) /\ Compiled(f, key)
      BY <2>3, <3>1 DEF CacheInv
    <3>3. PICK b, v : key = Key(f, b, v) /\ kernel = compile(f, b)
      BY <3>1, <3>2 DEF Compiled
    <3>4. FitsTypes(kernel, args)
      BY <2>3, <3>1, <3>2, <3>3, KeyFits
    <3>5. i \in DOMAIN kernel.signature
      BY <2>4, <3>3 DEF compile
    <3>6. SameSig(Params(f)[i], args[i], args[i])
      BY <2>3, <2>4, <3>1, <3>2, SameKey
    <3> QED
      BY <2>1, <2>2, <3>4, <3>5, <3>6 DEF FitsTypes, SameSig, get_arg_sig_key, key_of, HasDataPtr, Raised
  <2>6. a.kind \in {"int", "bool", "float"}
    <3>1. a.kind # "none" /\ a.kind # "tensor"
      BY <2>1, <2>2, <2>4 DEF WrapperRaises, HasDataPtr
    <3> QED
      BY <2>5, <3>1 DEF key_of, Raised
  <2>7. (a.kind = "int" => a.v \in Int) /\ (a.kind = "bool" => a.v \in {0, 1})
    <3>1. a \in Values(f, i)
      BY <2>2, <2>3, <2>4 DEF Arguments
    <3> QED
      BY <2>3, <2>4, <3>1, FunsAssumption DEF Positions, Params
  <2>8. ctype_value(a, type_of(key_of(a))) = a.v
    BY <2>1, <2>2, <2>6, <2>7, NumberArrives
  <2>9. Passed(f, kernel, args)[j] = ctype_value(a, kernel.signature[i])
    BY <2>1, <2>2 DEF Passed
  <2> QED
    BY <2>1, <2>2, <2>5, <2>8, <2>9
<1> QED
  BY <1>1, CacheAlways, PTL

-----------------------------------------------------------------------------
(* Hashes.                                                                 *)

\* What goes into a hash.
Items == ((DOMAIN Funs) \X Nat) \cup {Funs[f].noinline : f \in DOMAIN Funs} \cup {VersionKey}
Finders == [of : DOMAIN Funs, visited : Nat, ret : Seq(Items)]

\* A hash, also one that is still being put together, begins with the source.
OfSource(f, ret) == ret # <<>> /\ ret[1] = <<f, src[f]>>
HashTypes ==
  /\ src \in [DOMAIN Funs -> Nat]
  /\ hash \in [DOMAIN Funs -> Seq(Items)]
  /\ walk \in Seq(Finders)
  /\ \A w \in 1 .. Len(walk) : walk[w].visited <= Len(Funs[walk[w].of].calls)
HashInv ==
  /\ HashTypes
  /\ \A f \in DOMAIN Funs : hash[f] # NoHash => OfSource(f, hash[f])
  /\ \A w \in 1 .. Len(walk) : OfSource(walk[w].of, walk[w].ret)

(* Before the first call nothing is hashed.                                *)
LEMMA InitHash == Init => HashInv
BY DEF Init, HashInv, HashTypes, NoHash

(* A finder starts with the source of its function.                        *)
LEMMA FinderStarts ==
  ASSUME HashTypes, NEW f \in DOMAIN Funs
  PROVE  /\ Finder(f) \in Finders /\ Finder(f).visited = 0 /\ Finder(f).of = f
         /\ OfSource(f, Finder(f).ret)
<1>1. <<f, src[f]>> \in Items
  BY DEF HashTypes, Items
<1> QED
  BY <1>1 DEF Finder, Finders, OfSource

(* What is appended to a hash does not change where it begins.             *)
LEMMA AppendKeeps ==
  ASSUME NEW f, NEW r \in Seq(Items), NEW s \in Seq(Items), OfSource(f, r)
  PROVE  r \o s \in Seq(Items) /\ OfSource(f, r \o s)
BY ConcatProperties DEF OfSource

(* The finder at work, and the function it comes to next.                  *)
LEMMA VisitingIs ==
  ASSUME HashInv, walk # <<>>
  PROVE  /\ Len(walk) \in Nat /\ Len(walk) > 0 /\ Len(walk) \in 1 .. Len(walk)
         /\ Visiting \in Finders /\ OfSource(Visiting.of, Visiting.ret)
         /\ MoreCalls => /\ Callee \in DOMAIN Funs
                         /\ Visiting.visited + 1 <= Len(Funs[Visiting.of].calls)
<1>1. Len(walk) \in Nat /\ Len(walk) > 0 /\ Len(walk) \in 1 .. Len(walk)
  BY DEF HashInv, HashTypes
<1>2. Visiting \in Finders /\ OfSource(Visiting.of, Visiting.ret)
  BY <1>1 DEF HashInv, HashTypes, Visiting
<1>3. PICK v \in Finders : v = Visiting
  BY <1>2
<1>4. v.visited \in Nat /\ v.of \in DOMAIN Funs
  BY <1>3 DEF Finders
<1>5. Funs[v.of].calls \in Seq(DOMAIN Funs)
  BY <1>4, FunsAssumption
<1>6. MoreCalls => v.visited < Len(Funs[v.of].calls)
  BY <1>3 DEF MoreCalls
<1> QED
  BY <1>1, <1>2, <1>3, <1>4, <1>5, <1>6 DEF Callee

(* The steps that leave the walk and the hashes as they are.               *)
LEMMA SameHashes ==
  ASSUME HashInv, UNCHANGED <<src, hash, walk>>
  PROVE  HashInv'
BY DEF HashInv, HashTypes, OfSource

(* A new source takes the hash away.                                       *)
LEMMA SrcHash ==
  ASSUME HashInv, NEW f \in DOMAIN Funs, set_src(f)
  PROVE  HashInv'
<1>1. /\ walk = <<>> /\ walk' = walk
      /\ src' = [src EXCEPT ![f] = @ + 1] /\ hash' = [hash EXCEPT ![f] = NoHash]
  BY DEF set_src, Call, HashForgotten
<1>2. HashTypes'
  BY <1>1 DEF HashInv, HashTypes, NoHash
<1>3. ASSUME NEW g \in DOMAIN Funs, hash'[g] # NoHash
      PROVE  hash'[g] # <<>> /\ hash'[g][1] = <<g, src'[g]>>
  <2>1. g # f
    BY <1>1, <1>3 DEF HashInv, HashTypes
  <2>2. hash'[g] = hash[g] /\ src'[g] = src[g]
    BY <1>1, <2>1 DEF HashInv, HashTypes
  <2> QED
    BY <1>3, <2>2 DEF HashInv, OfSource
<1>4. \A g \in DOMAIN Funs : (hash[g] # NoHash => OfSource(g, hash[g]))'
  BY <1>3 DEF OfSource
<1>5. \A w \in 1 .. Len(walk') : OfSource(walk[w].of, walk[w].ret)'
  BY <1>1
<1> QED
  BY <1>2, <1>4, <1>5 DEF HashInv

(* A walk begins with the function that is asked for.                      *)
LEMMA KeyHash ==
  ASSUME HashInv, NEW f \in DOMAIN Funs, cache_key(f)
  PROVE  HashInv'
<1>1. walk' = <<Finder(f)>> /\ src' = src /\ hash' = hash
  BY DEF cache_key
<1>2. PICK v : v = Finder(f)
  OBVIOUS
<1>3. v \in Finders /\ v.visited = 0 /\ v.of = f /\ OfSource(f, v.ret)
  BY <1>2, FinderStarts DEF HashInv
<1>4. walk' \in Seq(Finders) /\ Len(walk') = 1 /\ walk'[1] = v
  BY <1>1, <1>2, <1>3
<1>5. Len(Funs[f].calls) \in Nat
  BY FunsAssumption
<1> QED
  BY <1>1, <1>3, <1>4, <1>5 DEF HashInv, HashTypes, OfSource

(* A call that is met adds a hash, adds a finder or ends the walk.         *)
LEMMA VisitHash ==
  ASSUME HashInv, visit_Call
  PROVE  HashInv'
<1>1. walk # <<>> /\ MoreCalls /\ src' = src /\ hash' = hash
  BY DEF visit_Call, InVisit
<1>2. PICK n \in Nat : n = Len(walk) /\ n > 0
  BY <1>1, VisitingIs
<1>3. PICK v \in Finders : v = Visiting
  BY <1>1, VisitingIs
<1>4. PICK g \in DOMAIN Funs : g = Callee
  BY <1>1, VisitingIs
<1>5. /\ v = walk[n] /\ OfSource(v.of, v.ret) /\ v.visited + 1 <= Len(Funs[v.of].calls)
  BY <1>1, <1>2, <1>3, VisitingIs DEF Visiting
<1>6. HashTypes /\ walk \in Seq(Finders)
  BY DEF HashInv, HashTypes
<1>7. CASE walk' = <<>>
  BY <1>1, <1>6, <1>7 DEF HashInv, HashTypes, OfSource
<1>8. CASE walk' = Append(walk, Finder(g))
  <2>1. PICK u : u = Finder(g)
    OBVIOUS
  <2>2. u \in Finders /\ u.visited = 0 /\ u.of = g /\ OfSource(g, u.ret)
    BY <1>6, <2>1, FinderStarts
  <2>3. /\ walk' \in Seq(Finders) /\ Len(walk') = n + 1 /\ walk'[n + 1] = u
        /\ \A w \in 1 .. n : walk'[w] = walk[w]
    BY <1>2, <1>6, <1>8, <2>1, <2>2
  <2>4. Len(Funs[g].calls) \in Nat
    BY FunsAssumption
  <2>5. ASSUME NEW w \in 1 .. Len(walk')
        PROVE  /\ walk'[w].visited <= Len(Funs[walk'[w].of].calls)
               /\ OfSource(walk'[w].of, walk'[w].ret)
    <3>1. CASE w = n + 1
      BY <2>2, <2>3, <2>4, <3>1
    <3>2. CASE w \in 1 .. n
      BY <1>2, <2>3, <3>2 DEF HashInv, HashTypes
    <3> QED
      BY <1>2, <2>3, <3>1, <3>2
  <2> QED
    BY <1>1, <2>3, <2>5 DEF HashInv, HashTypes, OfSource
<1>9. CASE /\ hash[g] # NoHash
           /\ walk' = [walk EXCEPT ![n] = WithHash(v, g)]
  <2>1. PICK s : s = <<Funs[g].noinline>>
    OBVIOUS
  <2>2. s \in Seq(Items) /\ hash[g] \in Seq(Items) /\ v.ret \in Seq(Items) /\ v.visited \in Nat
    <3>1. Funs[g].noinline \in Items
      BY DEF Items
    <3>2. s \in Seq(Items)
      BY <2>1, <3>1
    <3>3. hash[g] \in Seq(Items)
      BY <1>6 DEF HashTypes
    <3>4. v.ret \in Seq(Items) /\ v.visited \in Nat
      BY DEF Finders
    <3> QED
      BY <3>2, <3>3, <3>4
  <2>3. v.ret \o hash[g] \in Seq(Items) /\ OfSource(v.of, v.ret \o hash[g])
    BY <1>5, <2>2, AppendKeeps
  <2>4. PICK r \in Seq(Items) : r = v.ret \o hash[g] \o s /\ OfSource(v.of, r)
    BY <2>2, <2>3, AppendKeeps
  <2>5. PICK u : u = [of |-> v.of, visited |-> v.visited + 1, ret |-> r]
    OBVIOUS
  <2>6. u \in Finders /\ u.of = v.of /\ u.visited = v.visited + 1 /\ u.ret = r
    <3>1. v.of \in DOMAIN Funs /\ v.visited + 1 \in Nat /\ r \in Seq(Items)
      BY <2>2, <2>4 DEF Finders
    <3> QED
      BY <2>5, <3>1 DEF Finders
  <2>7. walk' = [walk EXCEPT ![n] = u]
    <3>1. WithHash(v, g) = u
      BY <2>1, <2>4, <2>5 DEF WithHash
    <3> QED
      BY <1>9, <3>1, Zenon
  <2>8. /\ walk' \in Seq(Finders) /\ Len(walk') = n /\ walk'[n] = u
        /\ \A w \in 1 .. n : w # n => walk'[w] = walk[w]
    BY <1>2, <1>6, <2>6, <2>7
  <2>9. ASSUME NEW w \in 1 .. Len(walk')
        PROVE  /\ walk'[w].visited <= Len(Funs[walk'[w].of].calls)
               /\ OfSource(walk'[w].of, walk'[w].ret)
    <3>1. CASE w = n
      BY <1>5, <2>4, <2>6, <2>8, <3>1
    <3>2. CASE w # n
      BY <1>2, <2>8, <3>2 DEF HashInv, HashTypes
    <3> QED
      BY <3>1, <3>2
  <2> QED
    BY <1>1, <2>8, <2>9 DEF HashInv, HashTypes, OfSource
<1> QED
  BY <1>2, <1>3, <1>4, <1>7, <1>8, <1>9 DEF visit_Call

(* A finder that is done leaves its hash.                                  *)
LEMMA RetHash ==
  ASSUME HashInv, finder_ret
  PROVE  HashInv'
<1>1. walk # <<>> /\ src' = src
  BY DEF finder_ret, InVisit
<1>2. PICK n \in Nat : n = Len(walk) /\ n > 0
  BY <1>1, VisitingIs
<1>3. PICK v \in Finders : v = Visiting
  BY <1>1, VisitingIs
<1>4. OfSource(v.of, v.ret) /\ v.of \in DOMAIN Funs /\ v.ret \in Seq(Items)
  BY <1>1, <1>3, VisitingIs DEF Finders
<1>5. PICK r : r = IF n = 1 THEN Append(v.ret, VersionKey) ELSE v.ret
  OBVIOUS
<1>6. r \in Seq(Items) /\ OfSource(v.of, r)
  <2>1. VersionKey \in Items
    BY DEF Items
  <2> QED
    BY <1>4, <1>5, <2>1 DEF OfSource
<1>7. hash' = [hash EXCEPT ![v.of] = r] /\ walk' = SubSeq(walk, 1, n - 1)
  BY <1>2, <1>3, <1>5 DEF finder_ret
<1>8. HashTypes /\ walk \in Seq(Finders)
  BY DEF HashInv, HashTypes
<1>9. /\ walk' \in Seq(Finders) /\ Len(walk') = n - 1
      /\ \A w \in 1 .. n - 1 : walk'[w] = walk[w]
  BY <1>2, <1>7, <1>8, SubSeqProperties
<1>10. hash' \in [DOMAIN Funs -> Seq(Items)] /\ hash'[v.of] = r /\ \A f \in DOMAIN Funs : f # v.of => hash'[f] = hash[f]
  BY <1>4, <1>6, <1>7, <1>8 DEF HashTypes
<1>11. \A w \in 1 .. Len(walk') : /\ walk'[w].visited <= Len(Funs[walk'[w].of].calls)
                                  /\ OfSource(walk'[w].of, walk'[w].ret)
  <2> SUFFICES ASSUME NEW w \in 1 .. n - 1
               PROVE  /\ walk[w].visited <= Len(Funs[walk[w].of].calls)
                      /\ OfSource(walk[w].of, walk[w].ret)
    BY <1>2, <1>9
  <2>1. w \in 1 .. Len(walk)
    BY <1>2
  <2> QED
    BY <2>1 DEF HashInv, HashTypes
<1>12. \A f \in DOMAIN Funs : hash'[f] # NoHash => OfSource(f, hash'[f])
  BY <1>4, <1>6, <1>10 DEF HashInv
<1> QED
  BY <1>1, <1>8, <1>9, <1>10, <1>11, <1>12 DEF HashInv, HashTypes, OfSource

(* Every step keeps the hashes.                                            *)
LEMMA NextHash ==
  ASSUME HashInv, [Next]_vars
  PROVE  HashInv'
<1>1. CASE \E f \in DOMAIN Funs : jit(f)
  BY <1>1, SameHashes DEF jit
<1>2. CASE \E h \in {"None", "false", "true"} : set_cache_hook(h)
  BY <1>2, SameHashes DEF set_cache_hook
<1>3. CASE \E f \in jitted : \E given \in Arguments[f], warps \in Warps, warmup, built \in BOOLEAN :
             run(f, given, warps, warmup, built)
  BY <1>3, SameHashes DEF run
<1>4. CASE UNCHANGED vars
  BY <1>4, SameHashes DEF vars
<1> QED
  BY <1>1, <1>2, <1>3, <1>4, SrcHash, KeyHash, VisitHash, RetHash DEF Next

(* Whatever is hashed, changed and hashed again, as the function asked for *)
(* or as one that another calls, also when a visit raises half way, a hash *)
(* that a function keeps is of the source it has now.                      *)
THEOREM HashOfOwnSourceAlways == Spec => []HashOfOwnSource
<1>1. HashInv => HashOfOwnSource
  BY DEF HashInv, HashOfOwnSource, OfSource
<1> QED
  BY <1>1, InitHash, NextHash, PTL DEF Spec

=============================================================================
