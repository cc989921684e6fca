-------------------------------- MODULE MCJasc --------------------------------
(***************************************************************************)
(* Either a schedule is written or a program runs, jits, lowers and tunes:  *)
(* the two share no state, so the other one is over from the beginning.     *)
(* Schedules begin, as the ones in the repository's tests do, by matching:  *)
(* the function in the module and the two tagged ops in it.  The program    *)
(* has a function with nested tags and one that calls jit between two tags. *)
(***************************************************************************)
EXTENDS JascSchedule, JascTuner

MCFuncs ==
  [plus   |-> <<<<"op", "add">>>>,
   square |-> <<<<"op", "mul">>, tag("plus", "inner")>>,
   f      |-> <<tag("square", "outer"), <<"op", "abs">>>>,
   g      |-> <<tag("plus", "before"), jit("plus", 0), tag("plus", "after")>>]
MCDefaults == <<1, 4>>
MCOtherConfigs == {<<7>>}

Matched ==
  /\ payload = [o \in 0 .. 3 |-> CASE o = 0 -> {0} [] o = 1 -> {0, 1} [] OTHER -> {0, 1, o}]
  /\ kind = [o \in 0 .. 3 |-> CASE o = 0 -> "module" [] o = 1 -> "func" [] o = 2 -> "b" [] OTHER -> "c"]
  /\ values = [o \in 1 .. 4 |-> [ops |-> {o - 1}, live |-> TRUE]]
  /\ handles = <<NewHandle(1, 0), NewHandle(2, 1), NewHandle(3, 2), NewHandle(4, 2)>>
  /\ normal = {}
  /\ saved = <<>>
  /\ prepared = TRUE /\ methodCalls = 0

ProgramOver ==
  /\ compat = TRUE /\ stack = <<>> /\ modules = <<>> /\ code = <<>>
  /\ lowered = <<>> /\ executables = <<>> /\ outcome = "none"
  /\ calls = MaxCalls /\ tuner = Nothing /\ tuned = Nothing

ScheduleStarts == Matched /\ auto \in BOOLEAN /\ phase = "building" /\ ProgramOver
ProgramStarts == Init /\ Matched /\ auto = TRUE /\ phase = "returned"

MCNext == (ScheduleNext /\ UNCHANGED vars) \/ (Next /\ UNCHANGED scheduleVars)

MCSpec == (ScheduleStarts \/ ProgramStarts) /\ [][MCNext]_<<scheduleVars, vars>>
===============================================================================
