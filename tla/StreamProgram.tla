---------------------------- MODULE StreamProgram ----------------------------
(***************************************************************************)
(* What a program of iterator ops promises, whatever it is compiled to:    *)
(* its statements run in order; a sink prints the elements of its input    *)
(* stream one after the other, all of them, and a stream_to_value yields   *)
(* the first element of its input stream if there is one.                  *)
(***************************************************************************)
EXTENDS Naturals, Sequences

CONSTANTS Plans, Predicate(_, _), MapFunc(_, _), ReduceFunc(_, _, _)

VARIABLES plan, line, out

vars == <<plan, line, out>>

INSTANCE StreamSemantics

Input == Streams(plan)[plan.stmts[line].input]

Running(op) == line <= Len(plan.stmts) /\ plan.stmts[line].op = op

Init ==
  /\ plan \in Plans
  /\ line = 1
  /\ out = [l \in 1 .. Len(plan.stmts) |-> << >>]

PrintElement ==
  /\ Running("sink")
  /\ Len(out[line]) < Len(Input)
  /\ out' = [out EXCEPT ![line] = Append(@, Input[Len(@) + 1])]
  /\ UNCHANGED <<plan, line>>

EndOfStream ==
  /\ Running("sink")
  /\ out[line] = Input
  /\ line' = line + 1
  /\ UNCHANGED <<plan, out>>

FirstElement ==
  /\ Running("stream_to_value")
  /\ out' = [out EXCEPT ![line] = SubSeq(Input, 1, IF Input = << >> THEN 0 ELSE 1)]
  /\ line' = line + 1
  /\ UNCHANGED plan

Next == PrintElement \/ EndOfStream \/ FirstElement

Spec == Init /\ [][Next]_vars /\ WF_vars(Next)

=============================================================================
