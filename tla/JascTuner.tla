------------------------------ MODULE JascTuner -----------------------------
(***************************************************************************)
(* jasc/tuner.py: the tuning loop, with FooTuner's configurations, and a    *)
(* program that tunes functions, runs what the tuner found, and lowers and  *)
(* compiles functions by itself in between.                                 *)
(***************************************************************************)
EXTENDS JascLowering

CONSTANTS Entries,   \* the functions the program calls, lowers and tunes
          Defaults,  \* the default values of the schedule's tuning parameters
          Budget,    \* TunerBase.budget
          Times,     \* what timeit may return
          OtherConfigs \* configurations that another subclass of TunerBase returns

ASSUME TunerAssumption ==
  /\ Budget \in Nat /\ Times \subseteq Nat /\ Entries \subseteq DOMAIN Funcs
  /\ Defaults \in Seq(Int) \ {<<>>} /\ OtherConfigs \subseteq Seq(Int)

VARIABLES tuner,     \* the tune() that runs, Nothing when there is none
          tuned      \* what the last tune() returned, Nothing before that
vars == <<lvars, tuner, tuned>>

Nothing == [none |-> TRUE]
None == <<>>
Infinity == 1000000          \* math.inf

(* TunerBase.tune up to its loop: func lowered to linalg, the schedule with  *)
(* its parameters inserted, the module printed, its parameters collected.    *)
Tuning(f) ==
  [none |-> FALSE, func |-> f, step |-> "lower", printed |-> <<>>, config |-> <<>>,
   previous |-> <<>>, best_time |-> Infinity, best_fun |-> None, best_schedule |-> None]
Prepared(mod) == insert_schedule(lower_to_linalg(mod), Schedule(Defaults))
(* get_tuning_vars: in the order of the walk, which is the order of the script. *)
get_tuning_vars(mod) == mod.schedules[1].params

StartTuning(f) ==
  /\ Idle /\ tuner = Nothing /\ calls < MaxCalls
  /\ calls' = calls + 1
  /\ lower_to_stablehlo(f)
  /\ tuner' = Tuning(f)
  /\ UNCHANGED tuned

Aborted == tuner' = Nothing /\ UNCHANGED <<lvars, tuned>>

PrepareModule ==
  /\ Idle /\ tuner # Nothing /\ tuner.step = "lower"
  /\ IF outcome = "raised" THEN Aborted
     ELSE LET mod == Prepared(modules[Len(modules)]) IN
       /\ modules' = [modules EXCEPT ![Len(modules)] = mod]
       /\ tuner' = [tuner EXCEPT !.step = "loop", !.printed = mod]
       /\ UNCHANGED <<compat, stack, lowered, executables, code, outcome, calls, tuned>>

(* FooTuner.get_tuning_config.                                              *)
get_tuning_config(tuning_vars, previous) ==
  IF previous = <<>> THEN tuning_vars
  ELSE [i \in DOMAIN previous[Len(previous)].config |-> previous[Len(previous)].config[i] + 1]

(* ir.Module.parse of what was printed: a copy of the initial module.        *)
Parsed == tuner.printed

(* One round: the parameters of a copy are given the configuration's values, *)
(* and the copy is jitted and timed.  A configuration that does not fit the  *)
(* schedule raises outside of the try.                                       *)
Round ==
  /\ Idle /\ tuner # Nothing /\ tuner.step = "loop" /\ Len(tuner.previous) < Budget
  /\ \E config \in OtherConfigs \cup {get_tuning_config(get_tuning_vars(tuner.printed), tuner.previous)} :
     LET mod == insert_schedule(Parsed, Meta(config))
         w == jit(tuner.func, Len(modules) + 1)
     IN IF ScheduleFails(mod) THEN Aborted
        ELSE /\ modules' = Append(modules, apply_schedule(mod))
             /\ stack' = <<Frame("jax", <<w>>, <<>>, w)>>
             /\ outcome' = "none"
             /\ tuner' = [tuner EXCEPT !.step = "timing", !.config = config]
             /\ UNCHANGED <<compat, lowered, executables, code, calls, tuned>>

(* Mutant: the last function that ran is the best one. *)
LastIsBest(time, best) == TRUE
IsBest(time, best) == time < best
(* What was timed, or the exception that was caught, is recorded.  The       *)
(* schedule that is kept reads the variable config of the loop when it runs. *)
Record(time) ==
  LET best == time < Infinity /\ IsBest(time, tuner.best_time) IN
  /\ tuner' = [tuner EXCEPT !.step = "loop",
       !.previous = Append(@, [config |-> tuner.config, time |-> time]),
       !.best_time = IF best THEN time ELSE @,
       !.best_fun = IF best THEN jit(tuner.func, Len(modules)) ELSE @,
       !.best_schedule = IF best THEN <<"config">> ELSE @]
  /\ UNCHANGED <<lvars, tuned>>
Timed ==
  /\ Idle /\ tuner # Nothing /\ tuner.step = "timing"
  /\ IF outcome = "raised" THEN Record(Infinity) ELSE \E time \in Times : Record(time)

ReturnTuned ==
  /\ Idle /\ tuner # Nothing /\ tuner.step = "loop" /\ Len(tuner.previous) = Budget
  /\ tuned' = tuner /\ tuner' = Nothing
  /\ UNCHANGED lvars

-----------------------------------------------------------------------------
(* The program between calls of tune().                                      *)
Program ==
  /\ Idle /\ tuner = Nothing /\ calls < MaxCalls
  /\ calls' = calls + 1
  /\ UNCHANGED <<tuner, tuned>>
  /\ \/ \E f \in Entries : Run(Jax(f)) \/ Run(jit(f, 0)) \/ lower_to_stablehlo(f)
     \/ tuned # Nothing /\ tuned.best_fun # None /\ Run(tuned.best_fun)

Over == /\ stack = <<>> /\ tuner = Nothing /\ (calls = MaxCalls \/ outcome = "crashed")
        /\ UNCHANGED vars

Init == LoweringInit /\ tuner = Nothing /\ tuned = Nothing
Next ==
  \/ Program
  \/ \E f \in Entries : StartTuning(f)
  \/ LoweringStep /\ UNCHANGED <<tuner, tuned>>
  \/ PrepareModule \/ Round \/ Timed \/ ReturnTuned
  \/ Over
Spec == Init /\ [][Next]_vars

-----------------------------------------------------------------------------
(* tune() returns the least of the times, and the function it returns runs a *)
(* kernel that was compiled with the parameters of the configuration that    *)
(* was timed, for as long as JAX keeps what it compiled.                     *)
TunedIsBest ==
  tuned # Nothing =>
    /\ \A i \in DOMAIN tuned.previous : tuned.best_time <= tuned.previous[i].time
    /\ tuned.best_fun \in DOMAIN executables =>
         LET k == executables[tuned.best_fun].ops[1].kernel IN
         \E i \in DOMAIN tuned.previous : /\ tuned.previous[i].time = tuned.best_time
                                          /\ tuned.previous[i].config = code[k].params

=============================================================================
