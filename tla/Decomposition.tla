--------------------------- MODULE Decomposition ---------------------------
(***************************************************************************)
(* The passes -decompose-iterator-states and -decompose-tuples: nested     *)
(* bundles of values (iterator states, tuples) are replaced by the values  *)
(* they are made of.  The module runs a program and its decomposed form    *)
(* side by side: one operation of the program is one step of both.         *)
(*                                                                         *)
(* A value is [leaf, fields]: a bundle has fields, any other value a       *)
(* number in leaf.  In the decomposed program a bundle is a sequence of    *)
(* leaves.  A materialization stands where a value goes from an operation  *)
(* that is converted to one that is not, or the other way round: the first *)
(* builds the bundle from its leaves, the second takes it apart.  Between  *)
(* two operations that are not converted nothing is built.                 *)
(***************************************************************************)
EXTENDS Naturals, Sequences
LOCAL INSTANCE SequencesExt

CONSTANTS
  Fields,     \* the field types of each bundle type; other types are leaves
  LeafType,   \* the type of the leaves
  MaxOps      \* bound on the operations of the program

VARIABLES
  pass,     \* which of the passes is run: "states" or "tuples"
  env,      \* the SSA values: their type, their value, whether a converted
            \* operation made them, and the leaves that converted operations
            \* have in their place
  uses      \* what unconverted operations use: a value, and what they are
            \* given for it in the decomposed program

decompositionVars == <<pass, env, uses>>

Types == {LeafType} \cup DOMAIN Fields
IsBundle(t) == t \in DOMAIN Fields
Leaf(n) == [leaf |-> n, fields |-> << >>]
Bundle(vs) == [leaf |-> 0, fields |-> vs]

\* The type converter: a bundle type becomes the types of its leaves, here
\* only counted.
RECURSIVE ConvertType(_)
ConvertType(t) ==
  IF IsBundle(t) THEN FoldLeft(+, 0, [i \in DOMAIN Fields[t] |-> ConvertType(Fields[t][i])])
                 ELSE 1

\* OneToNTypeMapping::getConvertedValues: the leaves of field i.
ConvertedValues(t, flat, i) ==
  LET sizes == [k \in DOMAIN Fields[t] |-> ConvertType(Fields[t][k])]
      first == FoldLeft(+, 1, SubSeq(sizes, 1, i - 1))
  IN SubSeq(flat, first, first + sizes[i] - 1)

(***************************************************************************)
(* The patterns, as the leaves they put in place of an operation's result. *)
(***************************************************************************)
\* Decompose{CreateState,FromElements}Op forward the converted operands.
FlatOperands(operands) == FlattenSeq([k \in DOMAIN operands |-> env[operands[k]].flat])

\* Defect: the fields after the inserted one are dropped.
DecomposeInsertValueOpCut(t, flat, i, value) ==
  FlattenSeq([k \in 1 .. i |-> IF k = i THEN value ELSE ConvertedValues(t, flat, k)])

DecomposeInsertValueOp(t, flat, i, value) ==
  FlattenSeq([k \in DOMAIN Fields[t] |->
                IF k = i THEN value ELSE ConvertedValues(t, flat, k)])

\* DecomposeExtractValueOp, and one result of DecomposeToElementsOp.
DecomposeExtract(t, flat, i) == ConvertedValues(t, flat, i)

(***************************************************************************)
(* The materializations.                                                   *)
(***************************************************************************)
\* inputsIt stays at the first input.
RECURSIVE buildCreateStateOp(_, _)
buildCreateStateOp(t, inputs) ==
  Bundle([i \in DOMAIN Fields[t] |->
            LET f == Fields[t][i]
            IN IF IsBundle(f) THEN buildCreateStateOp(f, SubSeq(inputs, 1, ConvertType(f)))
                              ELSE inputs[1]])

\* Defect: every element starts with the first input.
RECURSIVE buildFromElementsOpFirst(_, _)
buildFromElementsOpFirst(t, inputs) ==
  Bundle([i \in DOMAIN Fields[t] |->
            LET f == Fields[t][i]
            IN IF IsBundle(f) THEN buildFromElementsOpFirst(f, SubSeq(inputs, 1, ConvertType(f)))
                              ELSE inputs[1]])

RECURSIVE buildFromElementsOp(_, _)
buildFromElementsOp(t, inputs) ==
  Bundle([i \in DOMAIN Fields[t] |->
            LET f == Fields[t][i]
                element == ConvertedValues(t, inputs, i)
            IN IF IsBundle(f) THEN buildFromElementsOp(f, element) ELSE Head(element)])

\* Source materialization: a bundle from its leaves.
Recreate(t, flat) ==
  CASE pass = "states" -> buildCreateStateOp(t, flat)
    [] pass = "tuples" -> buildFromElementsOp(t, flat)

\* Target materialization, buildExtractValueOps and buildToElementsOp.
RECURSIVE buildExtractOps(_, _)
buildExtractOps(t, input) ==
  FlattenSeq([i \in DOMAIN Fields[t] |->
                LET f == Fields[t][i]
                IN IF IsBundle(f) THEN buildExtractOps(f, input.fields[i])
                                  ELSE <<input.fields[i]>>])

(***************************************************************************)
(* The operations of the program.                                          *)
(***************************************************************************)
Define(t, v, flat, converted) ==
  /\ Len(env) < MaxOps
  /\ env' = Append(env, [type |-> t, value |-> v, flat |-> flat, converted |-> converted])

\* An operation of another dialect that makes a new leaf.
NewLeaf ==
  LET v == Leaf(Len(env) + 1) IN
  Define(LeafType, v, <<v>>, FALSE) /\ UNCHANGED <<pass, uses>>

\* iterators.createstate, tuple.from_elements.
Create ==
  /\ \E t \in DOMAIN Fields :
       \E operands \in [DOMAIN Fields[t] -> DOMAIN env] :
         /\ \A k \in DOMAIN operands : env[operands[k]].type = Fields[t][k]
         /\ Define(t, Bundle([k \in DOMAIN operands |-> env[operands[k]].value]),
                   FlatOperands(operands), TRUE)
  /\ UNCHANGED <<pass, uses>>

InsertValue ==
  /\ pass = "states"
  /\ \E s, v \in DOMAIN env :
       /\ IsBundle(env[s].type)
       /\ \E i \in DOMAIN Fields[env[s].type] :
            /\ Fields[env[s].type][i] = env[v].type
            /\ Define(env[s].type,
                      [env[s].value EXCEPT !.fields[i] = env[v].value],
                      DecomposeInsertValueOp(env[s].type, env[s].flat, i, env[v].flat), TRUE)
  /\ UNCHANGED <<pass, uses>>

ExtractField(s, i) ==
  Define(Fields[env[s].type][i], env[s].value.fields[i],
         DecomposeExtract(env[s].type, env[s].flat, i), TRUE)

ExtractValue ==
  /\ pass = "states"
  /\ \E s \in DOMAIN env :
       IsBundle(env[s].type) /\ \E i \in DOMAIN Fields[env[s].type] : ExtractField(s, i)
  /\ UNCHANGED <<pass, uses>>

\* One of its results at a time.
ToElements ==
  /\ pass = "tuples"
  /\ \E s \in DOMAIN env :
       IsBundle(env[s].type) /\ \E i \in DOMAIN Fields[env[s].type] : ExtractField(s, i)
  /\ UNCHANGED <<pass, uses>>

\* A bundle is used by an operation that is not converted: rebuilt, or the
\* result of another such operation as it is ...
Given(e) == IF e.converted THEN Recreate(e.type, e.flat) ELSE e.value

UnconvertedUse ==
  /\ \E s \in DOMAIN env :
       /\ IsBundle(env[s].type)
       /\ uses' = uses \cup {[expected |-> env[s].value, given |-> Given(env[s])]}
       /\ uses' # uses
  /\ UNCHANGED <<pass, env>>

\* ... or is its result: some bundle whose leaves are not known otherwise.
\* Where a converted operation uses it, they are extracted from it.
RECURSIVE Fresh(_, _)
Fresh(t, n) ==
  IF IsBundle(t) THEN Bundle([i \in DOMAIN Fields[t] |-> Fresh(Fields[t][i], 10 * n + i)])
                 ELSE Leaf(n)

UnconvertedDef ==
  /\ \E t \in DOMAIN Fields :
       LET v == Fresh(t, Len(env) + 1) IN Define(t, v, buildExtractOps(t, v), FALSE)
  /\ UNCHANGED <<pass, uses>>

DecompositionInit == pass \in {"states", "tuples"} /\ env = << >> /\ uses = {}

Finished == Len(env) = MaxOps /\ UNCHANGED decompositionVars

DecompositionNext ==
  \/ NewLeaf \/ Create \/ InsertValue \/ ExtractValue \/ ToElements
  \/ UnconvertedUse \/ UnconvertedDef \/ Finished

DecompositionSpec == DecompositionInit /\ [][DecompositionNext]_decompositionVars

(***************************************************************************)
(* Properties.                                                             *)
(***************************************************************************)
RECURSIVE Leaves(_)
Leaves(e) ==
  IF IsBundle(e.type)
    THEN FlattenSeq([i \in DOMAIN Fields[e.type] |->
           Leaves([type |-> Fields[e.type][i], value |-> e.value.fields[i]])])
    ELSE <<e.value>>

(***************************************************************************)
(* In the place of every value of the program, however it was put together *)
(* and taken apart, the decomposed program has the value's leaves, in      *)
(* order.                                                                  *)
(***************************************************************************)
SameLeaves == \A k \in DOMAIN env : env[k].flat = Leaves(env[k])

\* An operation that is not converted is given the bundle that it was given
\* in the program.
SameBundles == \A u \in uses : u.given = u.expected

(***************************************************************************)
(* A tuple that an operation of another dialect uses after it was put      *)
(* together or taken out of another by one that is converted is rebuilt    *)
(* from its leaves as it was, nested tuples and empty ones included.       *)
(***************************************************************************)
SameTuples == pass = "tuples" => SameBundles

(***************************************************************************)
(* "assemble an iterator state of the given [...] state type from the      *)
(* given range of value": the same for an iterator state.                  *)
(***************************************************************************)
SameStates == pass = "states" => SameBundles

=============================================================================
