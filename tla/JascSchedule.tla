---------------------------- MODULE JascSchedule ----------------------------
(***************************************************************************)
(* jasc/jasc.py: the handles a schedule works with.  A handle wraps a value *)
(* of the transform script the schedule writes, remembers in which normal   *)
(* form it takes the payload it stands for to be, and normalises the        *)
(* function around that payload before a transform that needs it.           *)
(*                                                                         *)
(* The script is a straight line, so its effect is modelled as it is        *)
(* written: values holds the payload ops of every value and whether the     *)
(* interpreter still accepts it, payload the ops that enclose every op (the *)
(* op itself is one of them), normal the ops with nothing left to normalise *)
(* inside them.  An op that is replaced in place keeps its number.          *)
(***************************************************************************)
EXTENDS Integers, Sequences, FiniteSets

CONSTANTS MaxMethodCalls,  \* bound on the calls of methods
          MaxHandles,      \* bound on the handles made
          MaxContexts      \* bound on the nesting of autonormalize

ASSUME BoundsAssumption == MaxMethodCalls \in Nat /\ MaxHandles \in Nat /\ MaxContexts \in Nat

VARIABLES handles,  \* the Value objects: [value, normalform, parent, excuse, lost]
          values,   \* the values of the script: [ops, live]
          payload,  \* op -> the ops around it and itself
          kind,     \* op -> what a matcher sees of it
          normal,   \* the ops that are in loop normal form
          auto,     \* _JASC_AUTO_NORMALIZATION
          saved,    \* autonorm_enabled of the contexts that are open
          prepared, \* every transform so far met its normal form, or had an excuse
          phase,    \* "building", "returned", "raised", or "failed" in the interpreter
          methodCalls
scheduleVars == <<handles, values, payload, kind, normal, auto, saved, prepared, phase, methodCalls>>

AnyForm == [name |-> "AnyForm", propagate_up |-> TRUE, propagate_down |-> TRUE]
LoopNormalform == [name |-> "LoopNormalform", propagate_up |-> FALSE, propagate_down |-> TRUE]

Handles == 1 .. Len(handles)
Ops(h) == values[handles[h].value].ops
Live(h) == values[handles[h].value].live
Around(S) == UNION {payload[o] : o \in S}                      \* S and what encloses it
Inside(S) == {o \in DOMAIN payload : payload[o] \cap S # {}}   \* S and what it encloses

-----------------------------------------------------------------------------
(* The methods: the op a method emits, whether it makes the handle stand for *)
(* the result (_mlir_value = op...), what the handles it makes stand for, and *)
(* the normal form that jasc_transform makes it require.                    *)
Method(op, updates, makes) == [op |-> op, updates |-> updates, makes |-> makes, transform |-> FALSE]
Transform(op, updates, makes) == [op |-> op, updates |-> updates, makes |-> makes, transform |-> TRUE]

(* Mutant: the handle is not updated to the tiled op. *)
TileForgets == Transform("tile", FALSE, <<"loop">>)

alloca_to_global      == Method("alloca_to_global", TRUE, <<"beside">>)
apply_cse             == Method("apply_cse", FALSE, <<>>)
apply_dce             == Method("apply_dce", FALSE, <<>>)
apply_licm            == Method("apply_licm", FALSE, <<>>)
apply_patterns        == Method("apply_patterns", FALSE, <<>>)
apply_tuning_config   == Method("apply_tuning_config", FALSE, <<>>)
buffer_loop_hoisting  == Method("buffer_loop_hoisting", FALSE, <<>>)
bufferize_to_allocation == Method("bufferize_to_allocation", FALSE, <<"beside", "same">>)
bufferize_destination == Method("bufferize_destination_only", FALSE, <<"beside", "same">>)
cast                  == Method("cast", FALSE, <<"same">>)
create_async_groups   == Method("create_async_groups", FALSE, <<"same">>)
eliminate_empty_tensors == Method("eliminate_empty_tensors", FALSE, <<>>)
foreach               == Method("foreach", FALSE, <<"same">>)
fuse_into             == Transform("fuse_into", TRUE, <<>>)
get_parent_op         == Method("get_parent_op", FALSE, <<"parent">>)
get_producer_of_operand == Method("get_producer_of_operand", FALSE, <<"producer">>)
hoist_pad             == Method("hoist_pad", TRUE, <<>>)
hoist_redundant_vector_transfers == Method("hoist_redundant_vector_transfers", TRUE, <<>>)
insert_slice_to_copy  == Method("insert_slice_to_copy", TRUE, <<>>)
interchange           == Method("interchange", FALSE, <<"same">>)
map_forall_to_blocks  == Method("map_forall_to_blocks", TRUE, <<>>)
map_copy_to_threads   == Method("map_copy_to_threads", TRUE, <<"loop">>)
map_nested_forall_to_threads == Method("map_nested_forall_to_threads", TRUE, <<>>)
vectorize             == Transform("vectorize", FALSE, <<>>)
one_shot_bufferize    == Method("one_shot_bufferize", TRUE, <<>>)
pad                   == Method("pad", TRUE, <<"beside", "beside">>)
print                 == Method("print", FALSE, <<>>)
rewrite_in_destination_passing_style == Method("rewrite_in_destination_passing_style", TRUE, <<>>)
select                == Method("select", FALSE, <<"same">>)
synchronize           == Method("synchronize", FALSE, <<"beside">>)
take_assumed_branch   == Transform("take_assumed_branch", FALSE, <<>>)
tile_using_for        == Transform("tile", TRUE, <<"loop">>)
tile_using_forall     == Transform("tile", TRUE, <<"loop">>)
replace_with_alloc_tensor == Method("replace_with_alloc_tensor", TRUE, <<>>)
vectorize_children_and_apply_patterns ==
  Method("vectorize_children_and_apply_patterns", TRUE, <<>>)

Methods ==
  {alloca_to_global, apply_cse, apply_dce, apply_licm, apply_patterns, apply_tuning_config,
   buffer_loop_hoisting, bufferize_to_allocation, bufferize_destination, cast,
   create_async_groups, eliminate_empty_tensors, foreach, get_parent_op,
   get_producer_of_operand, hoist_pad, hoist_redundant_vector_transfers,
   insert_slice_to_copy, interchange, map_forall_to_blocks, map_copy_to_threads,
   map_nested_forall_to_threads, vectorize, one_shot_bufferize, pad, print,
   rewrite_in_destination_passing_style, select, synchronize, take_assumed_branch,
   replace_with_alloc_tensor, vectorize_children_and_apply_patterns}

(* The ops that consume their target: MLIR's getEffects of each.            *)
Consuming ==
  {"alloca_to_global", "bufferize_to_allocation", "create_async_groups", "fuse_into",
   "hoist_pad", "hoist_redundant_vector_transfers", "insert_slice_to_copy", "interchange",
   "map_forall_to_blocks", "map_copy_to_threads", "map_nested_forall_to_threads",
   "vectorize", "one_shot_bufferize", "pad", "rewrite_in_destination_passing_style", "tile",
   "replace_with_alloc_tensor", "vectorize_children_and_apply_patterns"}
(* The ops after which nothing new is left to normalise.                    *)
Harmless ==
  {"apply_cse", "apply_dce", "apply_licm", "apply_tuning_config", "cast", "foreach",
   "get_parent_op", "get_producer_of_operand", "print", "select"}

-----------------------------------------------------------------------------
(* Normal forms.  A parent is made before its children.                     *)
NewHandle(value, parent) ==
  [value |-> value, normalform |-> AnyForm, parent |-> parent, excuse |-> {}, lost |-> {}]

Ancestors(hs) ==
  LET up[h \in 0 .. Len(hs)] == IF h = 0 \/ hs[h].parent = 0 THEN {}
                                ELSE {hs[h].parent} \cup up[hs[h].parent]
  IN up
propagate_up_normalform(hs, h) == Ancestors(hs)[h]
propagate_down_normalform(hs, h) == {c \in 1 .. Len(hs) : h \in Ancestors(hs)[c]}
Related(hs, g, h) == g = h \/ g \in Ancestors(hs)[h] \/ h \in Ancestors(hs)[g]

(* Mutant: the parent is told and not its own parents. *)
SetNormalformOfParent(hs, h, form, excuse) ==
  LET reached == {h} \cup (IF form.propagate_up THEN {hs[h].parent} ELSE {})
                   \cup (IF form.propagate_down THEN propagate_down_normalform(hs, h) ELSE {})
  IN [g \in 1 .. Len(hs) |-> IF g \in reached
                              THEN [hs[g] EXCEPT !.normalform = form, !.excuse = excuse] ELSE hs[g]]
(* The setter of Value.normalform.  excuse is what the handles it reaches    *)
(* have from then on.                                                       *)
set_normalform(hs, h, form, excuse) ==
  LET reached == {h} \cup (IF form.propagate_up THEN propagate_up_normalform(hs, h) ELSE {})
                   \cup (IF form.propagate_down THEN propagate_down_normalform(hs, h) ELSE {})
  IN [g \in 1 .. Len(hs) |-> IF g \in reached
                              THEN [hs[g] EXCEPT !.normalform = form, !.excuse = excuse] ELSE hs[g]]

(* The functions around the payload of h, h's own ops excepted.             *)
ParentFuncs(h) == {o \in Around(Ops(h)) \ Ops(h) : kind[o] = "func"}
HasParentFunc(h) == \A o \in Ops(h) : (payload[o] \ {o}) \cap ParentFuncs(h) # {}

(* Mutant: normalises only what is in normal form. *)
NormalizesWhenNormal(h, m) == m.transform /\ handles[h].normalform = LoopNormalform /\ auto
(* auto_normalize_parent_func, as jasc_transform calls it.  The handle of the *)
(* function is a new one: its normal form reaches no other handle.          *)
auto_normalize_parent_func(h, m) == m.transform /\ handles[h].normalform # LoopNormalform /\ auto

-----------------------------------------------------------------------------
(* A method of the handle h that stands for one or more payload ops.        *)
(* A loop encloses one of the ops and what is inside it, any other new op is *)
(* beside one of them: n is the number of ops so far.                       *)
Rank(S, o) == Cardinality({p \in S : p <= o})
Fresh(m) == {i \in DOMAIN m.makes : m.makes[i] \in {"loop", "beside"}}
NewOp(n, S, i, o) == n + (i - 1) * Cardinality(S) + Rank(S, o) - 1
NewPayload(h, m, into) ==
  LET S == Ops(h)
      n == Cardinality(DOMAIN payload)
      loops(o) == IF m.makes = <<"loop">> THEN {NewOp(n, S, 1, s) : s \in S \cap payload[o]} ELSE {}
      fused(o) == IF m.op = "fuse_into" /\ o \in Inside(S) THEN Around(Ops(into)) ELSE {}
      targets(o) == {s \in S : \E i \in Fresh(m) : NewOp(n, S, i, s) = o}
  IN [o \in 0 .. n + Cardinality(Fresh(m)) * Cardinality(S) - 1 |->
        IF o < n THEN payload[o] \cup loops(o) \cup fused(o)
        ELSE {o} \cup UNION {(payload[s] \ {s}) \cup loops(s) : s \in targets(o)}]

(* What the ith handle a method makes stands for; the input other is the    *)
(* parent that get_parent_op is asked for or the producer of the operand.   *)
MadeOps(h, m, i, other) ==
  CASE m.makes[i] = "same"                -> Ops(h)
    [] m.makes[i] \in {"loop", "beside"} -> {NewOp(Cardinality(DOMAIN payload), Ops(h), i, s) : s \in Ops(h)}
    [] OTHER                              -> {other}

(* The interpreter accepts no value any more whose ops are inside an op that *)
(* was consumed.                                                            *)
Invalidates(h, m, v) ==
  m.op \in Consuming /\ (v = handles[h].value \/ values[v].ops \cap Inside(Ops(h)) # {})
NewValues(h, m, other) ==
  LET mine == IF m.updates THEN <<[ops |-> Ops(h), live |-> TRUE]>> ELSE <<>>
  IN [v \in DOMAIN values |-> [values[v] EXCEPT !.live = @ /\ ~Invalidates(h, m, v)]] \o mine
       \o [i \in DOMAIN m.makes |-> [ops |-> MadeOps(h, m, i, other), live |-> TRUE]]

(* The handles after the op was emitted; excuse and lost record what        *)
(* happened to each since its normal form and its value were set.           *)
Emitted(h, m) ==
  LET first == Len(values) + (IF m.updates THEN 1 ELSE 0)
      lost(g) == IF ~Invalidates(h, m, handles[g].value) THEN handles[g].lost
                 ELSE IF g # h THEN handles[g].lost \cup {"other"}
                 ELSE IF m.updates THEN {} ELSE handles[g].lost \cup {m.op}
      excuse(g) == IF m.op \in Harmless \/ handles[g].normalform # LoopNormalform THEN {}
                   ELSE IF ~m.transform THEN {"untracked"}
                   ELSE IF Related(handles, g, h) THEN {} ELSE {"sibling"}
  IN [g \in Handles |-> [handles[g] EXCEPT
        !.value = IF g = h /\ m.updates THEN first ELSE @,
        !.lost = lost(g), !.excuse = @ \cup excuse(g)]]
     \o [i \in DOMAIN m.makes |-> NewHandle(first + i, 0)]

(* jasc_transform: what the decorator does to the results of a method, all  *)
(* of them the handle itself and handles without a parent.                  *)
jasc_transform(hs, h, m) == IF m.transform THEN set_normalform(hs, h, AnyForm, {}) ELSE hs

(* The op the interpreter may find for get_parent_op or                      *)
(* get_producer_of_operand: an op around the target, a linalg op or a loop   *)
(* before it.                                                               *)
Others(h, m) ==
  CASE m.makes = <<"parent">>   -> Around(Ops(h)) \ Ops(h)
    [] m.makes = <<"producer">> -> {o \in DOMAIN payload : kind[o] \in {"b", "c", "loop"}} \ Around(Ops(h))
    [] OTHER                    -> {0}
Interpretable(h, m) ==
  /\ Live(h)
  /\ Others(h, m) # {}
  /\ auto_normalize_parent_func(h, m) => HasParentFunc(h)

Apply(h, m, other, into) ==
  LET S == Ops(h)
      ready == IF auto_normalize_parent_func(h, m) THEN normal \cup Inside(ParentFuncs(h)) ELSE normal
  IN /\ Len(handles) + Len(m.makes) <= MaxHandles
     /\ handles' = jasc_transform(Emitted(h, m), h, m)
     /\ values' = NewValues(h, m, other)
     /\ payload' = NewPayload(h, m, into)
     /\ kind' = [o \in DOMAIN payload' |-> IF o \in DOMAIN kind THEN kind[o]
                    ELSE IF m.makes = <<"loop">> THEN "loop" ELSE "other"]
     /\ normal' = IF m.op \in Harmless THEN ready ELSE ready \ (Around(S) \cup Inside(S))
     /\ prepared' = (prepared /\ (m.transform /\ auto => S \cup ParentFuncs(h) \subseteq ready \/ handles[h].excuse # {}))
     /\ UNCHANGED <<auto, saved, phase>>

Called == phase = "building" /\ methodCalls < MaxMethodCalls /\ methodCalls' = methodCalls + 1
Fails == /\ phase' = "failed"
         /\ UNCHANGED <<handles, values, payload, kind, normal, auto, saved, prepared>>

(* A method without arguments that matter here.                             *)
CallMethod(h, m) ==
  /\ Called
  /\ IF Interpretable(h, m) THEN \E other \in Others(h, m) : Apply(h, m, other, h) ELSE Fails

(* The arguments of tile, and the ones it refuses after it has normalised.  *)
TileArguments ==
  [loop : {"FOR", "FORALL", "unknown"}, tile_sizes : {"None", "static", "dynamic"},
   interchange : BOOLEAN, num_threads : BOOLEAN, mapping : BOOLEAN]
TileRefuses(a) ==
  CASE a.loop = "FOR"    -> a.tile_sizes = "None" \/ a.num_threads \/ a.mapping
    [] a.loop = "FORALL" -> \/ a.tile_sizes = "None" /\ ~a.num_threads
                            \/ a.interchange \/ a.tile_sizes = "dynamic"
    [] OTHER -> TRUE

(* An exception leaves the schedule: every open context restores what it saved. *)
Raised ==
  /\ phase' = "raised"
  /\ auto' = IF saved = <<>> THEN auto ELSE saved[1]
  /\ saved' = <<>>
  /\ UNCHANGED <<handles, values, payload, kind, normal, prepared>>

Tile(h, a) ==
  /\ Called
  /\ IF TileRefuses(a) THEN Raised
     ELSE LET tile == IF a.loop = "FOR" THEN tile_using_for ELSE tile_using_forall IN
          IF Interpretable(h, tile) THEN Apply(h, tile, 0, h) ELSE Fails

(* fuse_into: the handle of the containing op is only read.  The op to fuse *)
(* is beside the containing op or beside one that encloses it.              *)
FuseInto(h, into) ==
  /\ Called
  /\ IF /\ Interpretable(h, fuse_into) /\ Live(into) /\ Cardinality(Ops(into)) = 1
        /\ \A o \in Ops(h) : /\ payload[o] \ {o} \subseteq Around(Ops(into))
                             /\ o \notin Around(Ops(into))
     THEN Apply(h, fuse_into, 0, into)
     ELSE Fails

(* The three matchers: a new handle, child of the handle it was matched in. *)
Match(h, seen) ==
  /\ Called
  /\ IF Live(h) /\ Cardinality(Ops(h)) = 1
     THEN /\ Len(handles) < MaxHandles
          /\ values' = Append(values, [ops |-> {o \in Inside(Ops(h)) : kind[o] \in seen}, live |-> TRUE])
          /\ handles' = Append(handles, NewHandle(Len(values) + 1, h))
          /\ UNCHANGED <<payload, kind, normal, auto, saved, prepared, phase>>
     ELSE Fails
match_ops(h) == \E seen \in {{"func"}, {"loop"}, {"b", "c"}} : Match(h, seen)
match_tag(h) == \E tag \in {"b", "c"} : Match(h, {tag})
match_sparse_inout_ops(h) == Match(h, {})

(* Value.normalize: Normalform.apply with _impl of either form.             *)
normalize(h, form) ==
  /\ Called
  /\ IF form = LoopNormalform /\ ~Live(h) THEN Fails
     ELSE /\ normal' = IF form = LoopNormalform THEN normal \cup Inside(Ops(h)) ELSE normal
          /\ handles' = set_normalform(handles, h, form, IF ParentFuncs(h) = {} THEN {} ELSE {"narrow"})
          /\ UNCHANGED <<values, payload, kind, auto, saved, prepared, phase>>

set_auto_normalization(activate) ==
  /\ Called
  /\ auto' = activate
  /\ UNCHANGED <<handles, values, payload, kind, normal, saved, prepared, phase>>

EnterAutonormalize(activate) ==
  /\ Called
  /\ Len(saved) < MaxContexts
  /\ saved' = Append(saved, auto)
  /\ auto' = activate
  /\ UNCHANGED <<handles, values, payload, kind, normal, prepared, phase>>

ExitAutonormalize ==
  /\ phase = "building" /\ saved # <<>>
  /\ auto' = saved[Len(saved)]
  /\ saved' = SubSeq(saved, 1, Len(saved) - 1)
  /\ UNCHANGED <<handles, values, payload, kind, normal, prepared, phase, methodCalls>>

Return ==
  /\ phase = "building" /\ saved = <<>>
  /\ phase' = "returned"
  /\ UNCHANGED <<handles, values, payload, kind, normal, auto, saved, prepared, methodCalls>>

-----------------------------------------------------------------------------
(* A module with a function of two linalg ops, tagged b and c, the second   *)
(* of which uses the first.                                                 *)
ScheduleInit ==
  /\ payload = [o \in 0 .. 3 |-> CASE o = 0 -> {0} [] o = 1 -> {0, 1} [] OTHER -> {0, 1, o}]
  /\ kind = [o \in 0 .. 3 |-> CASE o = 0 -> "module" [] o = 1 -> "func" [] o = 2 -> "b" [] OTHER -> "c"]
  /\ values = <<[ops |-> {0}, live |-> TRUE]>>
  /\ handles = <<NewHandle(1, 0)>>
  /\ normal = {}
  /\ auto = TRUE /\ saved = <<>>
  /\ prepared = TRUE /\ phase = "building" /\ methodCalls = 0

OnHandle(h) ==
  \/ \E m \in Methods : CallMethod(h, m)
  \/ \E a \in TileArguments : Tile(h, a)
  \/ \E into \in Handles : FuseInto(h, into)
  \/ match_ops(h)
  \/ match_tag(h)
  \/ match_sparse_inout_ops(h)
  \/ normalize(h, LoopNormalform)
  \/ normalize(h, AnyForm)

ScheduleOver == phase # "building" /\ UNCHANGED scheduleVars

ScheduleNext ==
  \/ \E h \in Handles : OnHandle(h)
  \/ \E activate \in BOOLEAN : set_auto_normalization(activate) \/ EnterAutonormalize(activate)
  \/ ExitAutonormalize
  \/ Return
  \/ ScheduleOver

ScheduleSpec == ScheduleInit /\ [][ScheduleNext]_scheduleVars

-----------------------------------------------------------------------------
(* A handle that takes its payload to be in loop normal form is right about *)
(* it, unless since it was normalised the payload was changed by a method   *)
(* jasc_transform does not decorate, or through a handle that is neither    *)
(* an ancestor nor a descendant of it (a sibling in the same function).     *)
NormalformSound ==
  \A h \in Handles : Live(h) /\ handles[h].normalform = LoopNormalform
                        => Ops(h) \subseteq normal \/ handles[h].excuse \ {"narrow"} # {}

(* With automatic normalisation on, a transform that requires loop normal   *)
(* form finds the function around its target in it, with the same two        *)
(* exceptions and one more: the handle was told to be in loop normal form    *)
(* when an op inside the function was normalised and not the function.       *)
TransformsPrepared == prepared

(* The methods that consume the value of their handle, leave it there and   *)
(* do not say in their docstrings that the handle is updated.               *)
NotUpdated == {"vectorize", "create_async_groups", "bufferize_to_allocation"}

(* A handle whose value the interpreter no longer accepts was overtaken by a *)
(* call on another handle, one that consumed an op with payload of this one *)
(* inside, or was used by a method of NotUpdated, or by interchange, which   *)
(* InterchangeUpdatesHandle is about.  Every other method that consumes the *)
(* value of a handle leaves a value in it that can be used.                 *)
LostOnlyToOthers ==
  \A h \in Handles :
    ~Live(h) => handles[h].lost \cap ({"other", "interchange"} \cup NotUpdated) # {}

(* interchange as its docstring has it: "Updates this handle to represent   *)
(* the transformed linalg operation", so it is no reason for a handle of    *)
(* linalg ops to have a value that the interpreter no longer accepts.  The  *)
(* code returns a new handle and leaves the consumed value in this one.     *)
InterchangeUpdatesHandle ==
  \A h \in Handles :
    ~Live(h) /\ Ops(h) # {} /\ (\A o \in Ops(h) : kind[o] \in {"b", "c"})
      => handles[h].lost \cap ({"other"} \cup NotUpdated) # {}

=============================================================================
