------------------------------ MODULE AskTell ------------------------------
(***************************************************************************)
(* What a search promises its optimizer, however it evaluates the          *)
(* proposals: it asks for at most Budget proposals, tells the outcome of   *)
(* each proposal at most once and never of one it has not asked for, and   *)
(* unless it is aborted it ends when it has told the outcomes of Budget    *)
(* proposals.                                                              *)
(***************************************************************************)
EXTENDS Naturals

CONSTANT Budget

VARIABLES asked, told, status

vars == <<asked, told, status>>

Init == asked = 0 /\ told = {} /\ status = "searching"

Ask ==
  /\ status = "searching"
  /\ asked < Budget
  /\ asked' = asked + 1
  /\ UNCHANGED <<told, status>>

\* An outcome is told; the next proposal may be asked for at once.
Tell ==
  /\ status = "searching"
  /\ \E p \in (1 .. asked) \ told : told' = told \cup {p}
  /\ asked' \in {asked, asked + 1} /\ asked' <= Budget
  /\ UNCHANGED status

Finish ==
  /\ status = "searching"
  /\ told = 1 .. Budget
  /\ status' = "done"
  /\ UNCHANGED <<asked, told>>

Abort ==
  /\ status = "searching"
  /\ status' = "aborted"
  /\ UNCHANGED <<asked, told>>

Next == Ask \/ Tell \/ Finish \/ Abort

Spec == Init /\ [][Next]_vars

=============================================================================
