--------------------------- MODULE IteratorsProofs ---------------------------
(***************************************************************************)
(* Proofs about the generated iterator code, for every set of plans.       *)
(*                                                                         *)
(* TypeOK /\ CallsNest is inductive and implies Protocol.  Every step of   *)
(* Next pushes a frame, pops a frame, or starts or ends a statement; the   *)
(* lemmas Push, Pop, Enter and the theorem's case analysis follow that.    *)
(*                                                                         *)
(* On top of it FinalInv is inductive and shows that every step satisfies  *)
(* EndIsFinal: an iterator that has ended is at its end in the one state   *)
(* value that the frames agree on.                                         *)
(*                                                                         *)
(* The second part shows that the code means what its program means.       *)
(* MeansInv is inductive on top of these invariants: what                  *)
(* each iterator has returned and pulled, and what the frames hold, is     *)
(* what the streams of StreamSemantics demand.  From it follow             *)
(* PulledOnDemand (with UpsOpen and MeansClose, which carry it through     *)
(* Open and Close), the refinement of StreamProgram (with OutInv, which    *)
(* ties the output to what the input has returned) and NoUndefElement.     *)
(*                                                                         *)
(* What a recursive definition computes is shown by its least              *)
(* counterexample, with the lemma Least.                                   *)
(***************************************************************************)
EXTENDS IteratorsToLLVM, TLAPS, NaturalsInduction, WellFoundedInduction,
        SequenceTheorems

IsSeq(s) == Len(s) \in Nat /\ s = [i \in 1 .. Len(s) |-> s[i]]

(* A function on 1..n is a sequence over any set that holds its values.    *)
LEMMA SeqOverRange ==
  ASSUME NEW s, IsSeq(s), NEW S, \A i \in 1 .. Len(s) : s[i] \in S
  PROVE  s \in Seq(S)
<1>1. s \in [1 .. Len(s) -> S]
  BY DEF IsSeq
<1> QED
  BY <1>1 DEF IsSeq

LEMMA SeqIsSeq ==
  ASSUME NEW S, NEW s \in Seq(S)
  PROVE  IsSeq(s)
<1>1. s \in [1 .. Len(s) -> S] /\ Len(s) \in Nat
  OBVIOUS
<1> QED
  BY <1>1 DEF IsSeq

(* An empty sequence has length 0, and the other way round.                *)
LEMMA EmptyIffLen0 ==
  ASSUME NEW s, IsSeq(s)
  PROVE  s = << >> <=> Len(s) = 0
<1> DEFINE S == {s[i] : i \in 1 .. Len(s)}
<1>1. s \in Seq(S)
  BY SeqOverRange
<1> QED
  BY <1>1

(* EXCEPT at the last position of a sequence.                              *)
LEMMA ReplaceLast ==
  ASSUME NEW S, NEW s \in Seq(S), Len(s) > 0, NEW x \in S, NEW r,
         r = [s EXCEPT ![Len(s)] = x]
  PROVE  /\ r \in Seq(S)
         /\ Len(r) = Len(s)
         /\ r[Len(s)] = x
         /\ \A i \in 1 .. Len(s) - 1 : r[i] = s[i]
OBVIOUS

(* All but the last element of a sequence.                                 *)
LEMMA FrontFacts ==
  ASSUME NEW S, NEW s \in Seq(S), Len(s) > 0, NEW t, t = SubSeq(s, 1, Len(s) - 1)
  PROVE  /\ t \in Seq(S)
         /\ Len(t) = Len(s) - 1
         /\ \A i \in 1 .. Len(s) - 1 : t[i] = s[i]
<1>1. \A i \in 1 .. Len(s) : s[i] \in S
  <2>1. s \in [1 .. Len(s) -> S]
    OBVIOUS
  <2> QED
    BY <2>1
<1>2. \A i \in 1 .. Len(s) - 1 : s[i] \in S
  BY <1>1, Len(s) \in Nat
<1>3. t = [i \in 1 .. Len(s) - 1 |-> s[i]]
  OBVIOUS
<1>4. PICK l \in Nat : l = Len(s) - 1
  OBVIOUS
<1>5. t \in Seq(S) /\ Len(t) = Len(s) - 1
  <2>1. t \in [1 .. l -> S]
    BY ONLY <1>2, <1>3, <1>4
  <2> QED
    BY ONLY <1>4, <2>1
<1>6. \A i \in 1 .. Len(s) - 1 : t[i] = s[i]
  OBVIOUS
<1> QED
  BY <1>5, <1>6

(* What PlanOK says of the subtree below a node.                           *)
LEMMA BelowFacts ==
  ASSUME plan \in Plans, NEW n \in plan.nodes
  PROVE  /\ n \in Below(n) /\ Below(n) \subseteq plan.nodes
         /\ Len(Ups(n)) \in Nat /\ DOMAIN Ups(n) = 1 .. Len(Ups(n))
         /\ \A k \in DOMAIN Ups(n) :
              /\ Ups(n)[k] \in plan.nodes
              /\ n \notin Below(Ups(n)[k])
              /\ Below(Ups(n)[k]) \subseteq Below(n)
              /\ \A j \in DOMAIN Ups(n) :
                   j # k => Below(Ups(n)[j]) \cap Below(Ups(n)[k]) = {}
         /\ \A m \in Below(n) : Below(m) \subseteq Below(n)
         /\ \A m \in Below(n) :
              m = n \/ \E k \in DOMAIN Ups(n) : m \in Below(Ups(n)[k])
<1>1. PlanOK(plan) /\ TreeOK(plan, n) /\ n \in 1 .. Len(plan.kind)
  BY PlansAssumption DEF PlanOK
<1>2. /\ Below(n) = {n} \cup UNION {Below(Ups(n)[k]) : k \in DOMAIN Ups(n)}
      /\ Below(n) \subseteq plan.nodes
  BY <1>1 DEF PlanOK, TreeOK, Below, Ups
<1> QED
  BY <1>1, <1>2 DEF PlanOK, TreeOK, Below, Ups

(* A statement's input is a node of the plan.                              *)
LEMMA StmtFacts ==
  ASSUME plan \in Plans, line \in 1 .. Len(plan.stmts)
  PROVE  Stmt.input \in plan.nodes /\ Stmt.op \in {"sink", "stream_to_value"}
BY PlansAssumption DEF PlanOK, Stmt

(* The frames at and below the top after a call of the k-th upstream.      *)
LEMMA PushFrames ==
  ASSUME TypeOK, stack # << >>, NEW f, DOMAIN f = FrameFields,
         f.node = Top.node, f.fn = Top.fn,
         NEW k \in DOMAIN Ups(Top.node), CallUpstream(f, k)
  PROVE  /\ Len(stack) \in Nat /\ Len(stack) > 0
         /\ IsSeq(stack') /\ Len(stack') = Len(stack) + 1
         /\ \A i \in 1 .. Len(stack) - 1 : stack'[i] = stack[i]
         /\ DOMAIN stack'[Len(stack)] = FrameFields
         /\ stack'[Len(stack)].node = Top.node
         /\ stack'[Len(stack)].fn = Top.fn
         /\ stack'[Len(stack)].up = k
         /\ DOMAIN stack'[Len(stack) + 1] = FrameFields
         /\ stack'[Len(stack) + 1].node = Ups(Top.node)[k]
         /\ stack'[Len(stack) + 1].fn = Top.fn
         /\ stack'[Len(stack) + 1].up = 0
<1>1. IsSeq(stack) /\ Len(stack) \in Nat /\ Len(stack) > 0
  <2>1. IsSeq(stack)
    BY DEF TypeOK, IsSeq
  <2> QED
    BY <2>1, EmptyIffLen0 DEF IsSeq
<1>2. PICK x : x = [f EXCEPT !.up = k]
  OBVIOUS
<1>3. PICK e : e = Frame(Ups(f.node)[k], f.fn, f.st)
  OBVIOUS
<1>4. stack' = Append([stack EXCEPT ![Len(stack)] = x], e)
  BY <1>2, <1>3 DEF CallUpstream
<1>5. /\ IsSeq(stack') /\ Len(stack') = Len(stack) + 1
      /\ stack'[Len(stack) + 1] = e /\ stack'[Len(stack)] = x
      /\ \A i \in 1 .. Len(stack) - 1 : stack'[i] = stack[i]
  <2>1. PICK S : S = {stack[i] : i \in 1 .. Len(stack)} \cup {x, e}
    OBVIOUS
  <2>2. stack \in Seq(S) /\ x \in S /\ e \in S
    BY <1>1, <2>1, SeqOverRange
  <2>3. PICK r : r = [stack EXCEPT ![Len(stack)] = x]
    OBVIOUS
  <2>4. /\ r \in Seq(S) /\ Len(r) = Len(stack) /\ r[Len(stack)] = x
        /\ \A i \in 1 .. Len(stack) - 1 : r[i] = stack[i]
    BY <1>1, <2>2, <2>3, ReplaceLast
  <2>5. stack' = Append(r, e)
    BY <1>4, <2>3
  <2>6. r \in Seq(S) /\ e \in S
    BY <2>2, <2>4
  <2>7. /\ stack' \in Seq(S) /\ Len(stack') = Len(r) + 1
        /\ stack'[Len(r) + 1] = e
        /\ \A i \in 1 .. Len(r) : stack'[i] = r[i]
    BY ONLY <2>5, <2>6
  <2>8. IsSeq(stack')
    BY ONLY <2>7, SeqIsSeq
  <2>9. \A i \in 1 .. Len(stack) - 1 : i \in 1 .. Len(r)
    BY <1>1, <2>4
  <2> QED
    BY ONLY <1>1, <2>4, <2>7, <2>8, <2>9
<1>6. DOMAIN x = FrameFields /\ x.node = Top.node /\ x.fn = Top.fn /\ x.up = k
  BY <1>2 DEF FrameFields
<1>7. /\ DOMAIN e = FrameFields
      /\ e.node = Ups(Top.node)[k] /\ e.fn = Top.fn /\ e.up = 0
  BY <1>3 DEF Frame, FrameFields
<1> QED
  BY <1>1, <1>5, <1>6, <1>7

(* A call of an upstream keeps the type invariant and the nesting.         *)
LEMMA Push ==
  ASSUME TypeOK, CallsNest, ctl # "stmt", stack # << >>,
         NEW f, DOMAIN f = FrameFields, f.node = Top.node, f.fn = Top.fn,
         NEW k \in DOMAIN Ups(Top.node), k = Top.up + 1 \/ Top.fn = "next",
         CallUpstream(f, k)
  PROVE  TypeOK' /\ CallsNest'
<1> DEFINE L == Len(stack)
           n == Top.node
           u == Ups(Top.node)[k]
<1>1. /\ L \in Nat /\ L > 0
      /\ IsSeq(stack') /\ Len(stack') = L + 1
      /\ \A i \in 1 .. L - 1 : stack'[i] = stack[i]
      /\ DOMAIN stack'[L] = FrameFields
      /\ stack'[L].node = n /\ stack'[L].fn = Top.fn /\ stack'[L].up = k
      /\ DOMAIN stack'[L + 1] = FrameFields
      /\ stack'[L + 1].node = u /\ stack'[L + 1].fn = Top.fn /\ stack'[L + 1].up = 0
  BY PushFrames
<1>2. /\ ctl' = "call"
      /\ UNCHANGED <<plan, line, driver, ret, out, phase, got, ended>>
  BY DEF CallUpstream
<1>3. /\ plan \in Plans /\ n \in plan.nodes /\ Top.up \in 0 .. Len(Ups(n))
      /\ Top.fn \in {"open", "next", "close"}
  BY <1>1 DEF TypeOK, Top
<1>4. /\ Len(Ups(n)) \in Nat /\ k \in 1 .. Len(Ups(n))
      /\ u \in plan.nodes /\ u \in Below(u) /\ Len(Ups(u)) \in Nat
  BY <1>3, BelowFacts
<1>5. TypeOK'
  <2>0. \A i \in 1 .. L :
          /\ DOMAIN stack[i] = FrameFields
          /\ stack[i].node \in plan.nodes
          /\ stack[i].fn \in {"open", "next", "close"}
          /\ stack[i].up \in 0 .. Len(Ups(stack[i].node))
    BY DEF TypeOK
  <2>1. \A i \in 1 .. L + 1 :
          /\ DOMAIN stack'[i] = FrameFields
          /\ stack'[i].node \in plan.nodes
          /\ stack'[i].fn \in {"open", "next", "close"}
          /\ stack'[i].up \in 0 .. Len(Ups(stack'[i].node))
    <3> SUFFICES ASSUME NEW i \in 1 .. L + 1
                 PROVE  /\ DOMAIN stack'[i] = FrameFields
                        /\ stack'[i].node \in plan.nodes
                        /\ stack'[i].fn \in {"open", "next", "close"}
                        /\ stack'[i].up \in 0 .. Len(Ups(stack'[i].node))
      OBVIOUS
    <3>1. CASE i < L
      BY <1>1, <2>0, <3>1, i \in 1 .. L - 1, i \in 1 .. L
    <3> HIDE DEF u, n, L
    <3>2. CASE i = L
      BY <1>1, <1>3, <1>4, <3>2
    <3>3. CASE i = L + 1
      BY <1>1, <1>3, <1>4, <3>3
    <3> QED
      BY <1>1, <3>1, <3>2, <3>3
  <2> QED
    BY <1>1, <1>2, <2>1 DEF TypeOK, IsSeq, Ups
<1>6. Nesting'
  <2> USE DEF Ups, Below
  <2>1. /\ driver'.pc # "idle" /\ stack' # << >> /\ line' <= Len(plan'.stmts)
        /\ stack'[Len(stack')].up = 0
    BY <1>1, <1>2, EmptyIffLen0 DEF CallsNest, Nesting
  <2>2. \A i \in 1 .. L : stack'[i].node = stack[i].node /\ stack'[i].fn = stack[i].fn
    BY <1>1 DEF Top
  <2>3. stack'[1].node = Stmt.input
    BY <1>1, <2>2 DEF CallsNest, Nesting
  <2>4. \A i \in 1 .. L + 1 : stack'[i].fn = driver.pc
    BY <1>1, <2>2 DEF CallsNest, Nesting, Top
  <2>5. ASSUME NEW i \in 1 .. L
        PROVE  /\ stack'[i].up > 0
               /\ stack'[i + 1].node = Called(i)'
               /\ \A j \in i + 1 .. L + 1 : stack'[j].node \in Below(Called(i)')
    <3>1. CASE i = L
      <4>1. Called(i)' = u
        BY <1>1, <1>2, <3>1 DEF Called
      <4> QED
        BY <1>1, <1>4, <3>1, <4>1
    <3>2. CASE i # L
      <4>1. i \in 1 .. L - 1 /\ i + 1 \in 1 .. L
        BY <1>1, <3>2
      <4>2. /\ stack[i].up > 0 /\ stack[i + 1].node = Called(i)
            /\ \A j \in i + 1 .. L : stack[j].node \in Below(Called(i))
        BY <4>1 DEF CallsNest, Nesting
      <4>3. Called(i)' = Called(i) /\ stack'[i].up = stack[i].up
        BY <1>1, <1>2, <4>1 DEF Called
      <4>4. Called(i) \in plan.nodes
        BY <1>1, <4>1, <4>2 DEF TypeOK
      <4>5. u \in Below(Called(i))
        <5>1. n \in Below(Called(i))
          BY <1>1, <4>1, <4>2 DEF Top
        <5>2. Below(n) \subseteq Below(Called(i))
          BY <1>3, <4>4, <5>1, BelowFacts
        <5>3. u \in Below(n)
          BY <1>3, <1>4, BelowFacts
        <5> QED
          BY <5>2, <5>3
      <4>6. \A j \in i + 1 .. L + 1 : stack'[j].node \in Below(Called(i))
        <5> SUFFICES ASSUME NEW j \in i + 1 .. L + 1
                     PROVE  stack'[j].node \in Below(Called(i))
          OBVIOUS
        <5> HIDE DEF Ups, Below
        <5>1. CASE j \in i + 1 .. L
          BY <1>1, <2>2, <4>1, <4>2, <5>1, j \in 1 .. L
        <5>2. CASE j = L + 1
          BY <1>1, <4>5, <5>2
        <5>3. L \in Nat
          BY <1>1
        <5> HIDE DEF L
        <5>4. j \in i + 1 .. L \/ j = L + 1
          BY <5>3
        <5> QED
          BY <5>1, <5>2, <5>4
      <4> QED
        BY <2>2, <4>1, <4>2, <4>3, <4>6
    <3> QED
      BY <3>1, <3>2
  <2> QED
    <3>1. \A i \in 1 .. Len(stack') - 1 :
            /\ stack'[i].up > 0
            /\ stack'[i + 1].node = Called(i)'
            /\ \A j \in i + 1 .. Len(stack') : stack'[j].node \in Below(Called(i)')
      BY <1>1, <2>5
    <3>2. Stmt' = Stmt
      BY <1>2 DEF Stmt
    <3>3. \A i \in 1 .. Len(stack') : stack'[i].fn = driver'.pc
      BY <1>1, <1>2, <2>4
    <3> QED
      BY <1>2, <2>1, <2>3, <3>1, <3>2, <3>3 DEF Nesting, Top
<1>7. Visited'
  <2>1. ASSUME NEW j \in DOMAIN Ups(n), NEW m \in Below(Ups(n)[j])
        PROVE  /\ j < k => After(Top.fn, m)
               /\ j >= k => Before(Top.fn, m)
    <3>1. /\ j < Top.up => After(Top.fn, m)
          /\ j > Top.up => Before(Top.fn, m)
          /\ j = Top.up /\ ctl = "ret" => After(Top.fn, m)
      <4>1. FrameVisited(L)
        BY <1>1 DEF CallsNest, Visited
      <4> QED
        BY <4>1 DEF FrameVisited, Top
    <3>2. j \in Nat /\ j > 0 /\ Top.up \in Nat /\ k \in Nat
      BY <1>3, <1>4, BelowFacts
    <3>3. ctl = "ret" \/ Top.up = 0
      BY DEF CallsNest, Nesting, TypeOK
    <3>4. CASE k = Top.up + 1
      BY <3>1, <3>2, <3>3, <3>4
    <3>5. CASE Top.fn = "next"
      <4>1. After(Top.fn, m) <=> Before(Top.fn, m)
        BY <3>5 DEF After, Before
      <4> QED
        BY <3>1, <3>2, <3>3, <4>1
    <3> QED
      BY <3>4, <3>5
  <2>2. \A m \in Below(u) : Before(Top.fn, m)
    BY <1>3, <1>4, <2>1, BelowFacts
  <2>3. ASSUME NEW i \in 1 .. L + 1
        PROVE  /\ Before(stack'[i].fn, stack'[i].node)
               /\ \A j \in DOMAIN Ups(stack'[i].node) :
                    \A m \in Below(Ups(stack'[i].node)[j]) :
                      /\ j < stack'[i].up => After(stack'[i].fn, m)
                      /\ j > stack'[i].up => Before(stack'[i].fn, m)
    <3>1. CASE i \in 1 .. L - 1
      <4>1. FrameVisited(i) /\ stack'[i] = stack[i]
        BY <1>1, <3>1 DEF CallsNest, Visited
      <4> QED
        BY <4>1 DEF FrameVisited
    <3>2. CASE i = L
      <4>1. Before(Top.fn, n)
        BY <1>1 DEF CallsNest, Visited, FrameVisited, Top
      <4> QED
        BY <1>1, <1>4, <2>1, <3>2, <4>1, BelowFacts, <1>3
    <3>3. CASE i = L + 1
      <4>1. \A j \in DOMAIN Ups(u) : Below(Ups(u)[j]) \subseteq Below(u) /\ j > 0
        BY <1>3, <1>4, BelowFacts
      <4> QED
        BY <1>1, <1>4, <2>2, <3>3, <4>1
    <3> QED
      BY <1>1, <3>1, <3>2, <3>3
  <2>4. \A m \in plan.nodes : phase[m] = "open" => m \in Below(Stmt.input)
    BY DEF CallsNest, Visited
  <2>5. stack' # << >>
    BY <1>1, EmptyIffLen0
  <2> QED
    BY <1>1, <1>2, <2>3, <2>4, <2>5
       DEF Visited, FrameVisited, Before, After, Ups, Below, Stmt
<1> QED
  BY <1>5, <1>6, <1>7 DEF CallsNest

(* A return keeps the type invariant and the nesting: an Open or Close     *)
(* function returns when it has visited all upstreams, a Next function at  *)
(* any time.                                                               *)
LEMMA Pop ==
  ASSUME TypeOK, CallsNest, ctl # "stmt", stack # << >>,
         Top.fn = "next" \/ Top.up = Len(Ups(Top.node)),
         NEW s, NEW hasNext, NEW v, Return(s, hasNext, v)
  PROVE  TypeOK' /\ CallsNest'
<1> DEFINE L == Len(stack)
           n == Top.node
<1>1. /\ L \in Nat /\ L > 0 /\ IsSeq(stack)
      /\ IsSeq(stack') /\ Len(stack') = L - 1
      /\ \A i \in 1 .. L - 1 : stack'[i] = stack[i]
  <2>1. IsSeq(stack)
    BY DEF TypeOK, IsSeq
  <2>2. L \in Nat /\ L > 0
    BY <2>1, EmptyIffLen0 DEF IsSeq
  <2>3. PICK S : S = {stack[i] : i \in 1 .. Len(stack)}
    OBVIOUS
  <2>4. stack \in Seq(S)
    BY <2>1, <2>3, SeqOverRange
  <2>5. stack' = SubSeq(stack, 1, L - 1)
    BY DEF Return
  <2>6. /\ stack' \in Seq(S) /\ Len(stack') = L - 1
        /\ \A i \in 1 .. L - 1 : stack'[i] = stack[i]
    BY <2>2, <2>4, <2>5, FrontFacts
  <2>7. IsSeq(stack')
    BY ONLY <2>6, SeqIsSeq
  <2> QED
    BY <2>1, <2>2, <2>6, <2>7
<1>2. /\ ctl' = "ret" /\ UNCHANGED <<plan, line, driver, out>>
      /\ phase' = CASE Top.fn = "open"  -> [phase EXCEPT ![n] = "open"]
                    [] Top.fn = "close" -> [phase EXCEPT ![n] = "closed"]
                    [] OTHER -> phase
  BY DEF Return
<1>3. /\ plan \in Plans /\ n \in plan.nodes /\ Top.up \in 0 .. Len(Ups(n))
      /\ Top.fn \in {"open", "next", "close"}
  <2>1. L \in 1 .. Len(stack)
    BY <1>1
  <2> QED
    BY <2>1 DEF TypeOK, Top
<1>4. TypeOK'
  <2>1. phase' \in [plan.nodes -> {"new", "open", "closed"}]
    BY <1>2, <1>3 DEF TypeOK
  <2>2. got' \in [plan.nodes -> Nat] /\ ended' \subseteq plan.nodes
    BY <1>3 DEF TypeOK, Return
  <2>3. \A i \in 1 .. Len(stack') :
          /\ DOMAIN stack'[i] = FrameFields
          /\ stack'[i].node \in plan.nodes
          /\ stack'[i].fn \in {"open", "next", "close"}
          /\ stack'[i].up \in 0 .. Len(Ups(stack'[i].node))
    BY <1>1 DEF TypeOK
  <2> QED
    BY <1>1, <1>2, <2>1, <2>2, <2>3 DEF TypeOK, IsSeq, Ups
<1>5. Nesting'
  <2>1. \A i \in 1 .. L - 1 : Called(i)' = Called(i)
    BY <1>1, <1>2 DEF Called, Ups
  <2>2. /\ driver.pc # "idle" /\ line <= Len(plan.stmts)
        /\ \A i \in 1 .. L : stack[i].fn = driver.pc
        /\ stack[1].node = Stmt.input
        /\ \A i \in 1 .. L - 1 :
             /\ stack[i].up > 0
             /\ stack[i + 1].node = Called(i)
             /\ \A j \in i + 1 .. L : stack[j].node \in Below(Called(i))
    BY DEF CallsNest, Nesting
  <2>3. \A i \in 1 .. Len(stack') : stack'[i].fn = driver'.pc
    BY <1>1, <1>2, <2>2
  <2>4. stack' # << >> => stack'[1].node = (Stmt').input /\ stack'[Len(stack')].up > 0
    BY <1>1, <1>2, <2>2, EmptyIffLen0 DEF Stmt
  <2>5. ASSUME NEW i \in 1 .. Len(stack') - 1
        PROVE  /\ stack'[i].up > 0
               /\ stack'[i + 1].node = Called(i)'
               /\ \A j \in i + 1 .. Len(stack') : stack'[j].node \in Below(Called(i)')
    <3>1. /\ i \in 1 .. L - 1 /\ i + 1 \in 1 .. L - 1
          /\ \A j \in i + 1 .. Len(stack') : j \in 1 .. L - 1 /\ j \in i + 1 .. L
      BY <1>1
    <3> HIDE DEF L
    <3> QED
      BY <1>1, <2>1, <2>2, <3>1
  <2> QED
    BY <1>2, <2>2, <2>3, <2>4, <2>5 DEF Nesting, Top, Below
<1>6. Visited'
  <2>1. FrameVisited(L) /\ \A i \in 1 .. L - 1 : FrameVisited(i)
    BY <1>1 DEF CallsNest, Visited
  <2>2. ctl = "ret" \/ Top.up = 0
    BY DEF CallsNest, Nesting, TypeOK
  <2>3. \A m \in plan.nodes : m # n => phase'[m] = phase[m]
    BY <1>2, <1>3 DEF TypeOK
  <2>4. PICK fn, c : fn = Top.fn /\ c = n
    OBVIOUS
  <2>5. \A m \in Below(c) : After(fn, m)'
    <3>1. ASSUME NEW k \in DOMAIN Ups(c), NEW m \in Below(Ups(c)[k])
          PROVE  After(fn, m) /\ m # c /\ m \in plan.nodes
      <4>1. /\ k \in 1 .. Len(Ups(c)) /\ Len(Ups(c)) \in Nat
            /\ m # c /\ m \in plan.nodes
        BY <1>3, <2>4, BelowFacts
      <4>2. /\ k < Top.up => After(fn, m)
            /\ k > Top.up => Before(fn, m)
            /\ k = Top.up /\ ctl = "ret" => After(fn, m)
        BY <2>1, <2>4 DEF FrameVisited, Top
      <4>3. CASE Top.up = Len(Ups(c))
        BY <2>2, <4>1, <4>2, <4>3
      <4>4. CASE fn = "next"
        <5>1. After(fn, m) <=> Before(fn, m)
          BY <4>4 DEF After, Before
        <5> QED
          BY <1>3, <2>2, <4>1, <4>2, <5>1
      <4> QED
        BY <2>4, <4>3, <4>4
    <3>2. ASSUME NEW k \in DOMAIN Ups(c), NEW m \in Below(Ups(c)[k])
          PROVE  After(fn, m)'
      BY <2>3, <2>4, <3>1 DEF After
    <3>3. After(fn, c)'
      <4>1. Before(fn, c)
        BY <2>1, <2>4 DEF FrameVisited, Top
      <4> QED
        BY <1>2, <1>3, <2>4, <4>1 DEF After, Before, TypeOK
    <3>4. ASSUME NEW m \in Below(c)
          PROVE  m = c \/ \E k \in DOMAIN Ups(c) : m \in Below(Ups(c)[k])
      BY <1>3, <2>4, BelowFacts
    <3>5. TAKE m \in Below(c)
    <3> QED
      BY <3>2, <3>3, <3>4
  <2>6. ASSUME NEW i \in 1 .. L - 1
        PROVE  FrameVisited(i)'
    <3>1. /\ stack'[i] = stack[i] /\ i \in 1 .. L /\ L \in i + 1 .. L
          /\ FrameVisited(i)
      BY <1>1, <2>1
    <3>2. PICK d, up : d = stack[i].node /\ up = stack[i].up
      OBVIOUS
    <3>3. d \in plan.nodes /\ up \in 0 .. Len(Ups(d))
      BY <1>1, <3>1, <3>2 DEF TypeOK
    <3>4. /\ up > 0 /\ c \in Below(Ups(d)[up])
          /\ stack[i + 1].node = Ups(d)[up]
          /\ stack[i].fn = fn
      BY <1>1, <2>4, <3>1, <3>2 DEF CallsNest, Nesting, Top, Called
    <3>5. /\ Len(Ups(d)) \in Nat /\ up \in DOMAIN Ups(d) /\ d # c
          /\ \A j \in DOMAIN Ups(d) :
               /\ Below(Ups(d)[j]) \subseteq plan.nodes
               /\ j # up => c \notin Below(Ups(d)[j])
      BY <1>3, <3>3, <3>4, BelowFacts
    <3>6. Before(fn, d)'
      <4>1. Before(fn, d)
        BY <3>1, <3>2, <3>4 DEF FrameVisited
      <4> QED
        BY <2>3, <2>4, <3>3, <3>5, <4>1 DEF Before
    <3>7. ASSUME NEW j \in DOMAIN Ups(d), NEW m \in Below(Ups(d)[j])
          PROVE  /\ j < up => After(fn, m)'
                 /\ j > up => Before(fn, m)'
                 /\ j = up /\ i = L - 1 => After(fn, m)'
      <4>1. /\ j < up => After(fn, m)
            /\ j > up => Before(fn, m)
        BY <3>1, <3>2, <3>4 DEF FrameVisited
      <4>2. j # up => phase'[m] = phase[m]
        BY <2>3, <2>4, <3>5
      <4>3. CASE j # up
        BY <4>1, <4>2, <4>3 DEF After, Before
      <4>4. CASE j = up /\ i = L - 1
        <5>1. Ups(d)[up] = c
          BY <1>1, <2>4, <3>4, <4>4 DEF Top
        <5> QED
          BY <2>5, <3>3, <4>4, <5>1
      <4> QED
        BY <3>3, <4>3, <4>4
    <3> QED
      <4>1. stack'[i].fn = fn /\ stack'[i].node = d /\ stack'[i].up = up
        BY <3>1, <3>2, <3>4
      <4>2. \A x : Ups(x)' = Ups(x) /\ Below(x)' = Below(x)
        BY <1>2 DEF Ups, Below
      <4>3. Before(stack[i].fn, stack[i].node)'
        BY <3>6, <4>1 DEF Before
      <4>4. ASSUME NEW j \in DOMAIN Ups(d), NEW m \in Below(Ups(d)[j])
            PROVE  /\ j < stack'[i].up => After(stack[i].fn, m)'
                   /\ j > stack'[i].up => Before(stack[i].fn, m)'
                   /\ j = stack'[i].up /\ i = Len(stack') => After(stack[i].fn, m)'
        BY <1>1, <3>7, <4>1 DEF Before, After
      <4> QED
        BY <4>1, <4>2, <4>3, <4>4 DEF FrameVisited
  <2>7. ASSUME stack' = << >>
        PROVE  \A m \in Below(Stmt.input) : After(driver.pc, m)'
    <3>1. L = 1
      BY <1>1, <2>7, EmptyIffLen0
    <3>2. Stmt.input = c /\ driver.pc = fn
      BY <1>1, <2>4, <3>1 DEF CallsNest, Nesting, Top
    <3> QED
      BY <1>2, <2>5, <3>2 DEF After
  <2>8. \A m \in plan.nodes : phase'[m] = "open" => m \in Below(Stmt.input)
    <3>1. c \in Below(Stmt.input)
      <4>1. CASE L = 1
        BY <1>1, <1>3, <2>4, <4>1, BelowFacts DEF CallsNest, Nesting, Top
      <4>2. CASE L # 1
        <5>1. /\ 1 \in 1 .. L - 1 /\ L \in 1 + 1 .. L
          BY <1>1, <4>2
        <5>2. c \in Below(Called(1)) /\ stack[1].node = Stmt.input /\ stack[1].up > 0
          BY <2>4, <5>1 DEF CallsNest, Nesting, Top
        <5>3. 1 \in 1 .. L
          BY <1>1
        <5>4. stack[1].node \in plan.nodes /\ stack[1].up \in 0 .. Len(Ups(stack[1].node))
          BY <5>3 DEF TypeOK
        <5>5. PICK d, up : d = stack[1].node /\ up = stack[1].up
          OBVIOUS
        <5>6. up \in DOMAIN Ups(d) /\ d \in plan.nodes
          BY <1>3, <5>2, <5>4, <5>5, BelowFacts
        <5>7. Below(Ups(d)[up]) \subseteq Below(d)
          BY <1>3, <5>6, BelowFacts
        <5> QED
          BY <5>2, <5>5, <5>7 DEF Called
      <4> QED
        BY <4>1, <4>2
    <3> QED
      BY <2>3, <2>4, <3>1 DEF CallsNest, Visited
  <2> QED
    BY <1>1, <1>2, <2>6, <2>7, <2>8 DEF Visited, After, Below, Stmt
<1> QED
  BY <1>4, <1>5, <1>6 DEF CallsNest

(* A call of the statement's input keeps the type invariant and the        *)
(* nesting, if every iterator of the input is in a phase for that call.    *)
LEMMA Enter ==
  ASSUME TypeOK, line <= Len(plan.stmts),
         NEW fn \in {"open", "next", "close"}, NEW s, NEW value,
         CallInput(fn, s, value), DOMAIN out' = DOMAIN out,
         \A m \in Below(Stmt.input) : Before(fn, m),
         \A m \in plan.nodes : phase[m] = "open" => m \in Below(Stmt.input)
  PROVE  TypeOK' /\ CallsNest'
<1>1. PICK in : in = Stmt.input
  OBVIOUS
<1>2. PICK f : f = Frame(in, fn, s)
  OBVIOUS
<1>3. /\ DOMAIN f = FrameFields /\ f.node = in /\ f.fn = fn /\ f.up = 0
  BY <1>2 DEF Frame, FrameFields
<1>4. /\ stack' = <<f>> /\ ctl' = "call" /\ driver'.pc = fn
      /\ UNCHANGED <<plan, line, ret, phase, got, ended>>
  BY <1>1, <1>2 DEF CallInput
<1>5. Len(stack') = 1 /\ stack'[1] = f /\ IsSeq(stack') /\ stack' # << >>
  <2>1. /\ stack' \in Seq({f}) /\ Len(stack') = 1 /\ stack'[1] = f /\ stack' # << >>
    BY ONLY <1>4
  <2> QED
    BY ONLY <2>1, SeqIsSeq
<1>6. plan \in Plans /\ in \in plan.nodes
  <2>1. Len(plan.stmts) \in Nat
    BY PlansAssumption DEF TypeOK, PlanOK
  <2>2. line \in 1 .. Len(plan.stmts)
    BY <2>1 DEF TypeOK
  <2> QED
    BY <1>1, <2>2, StmtFacts DEF TypeOK
<1>7. /\ Len(Ups(in)) \in Nat /\ DOMAIN Ups(in) = 1 .. Len(Ups(in)) /\ in \in Below(in)
      /\ \A k \in DOMAIN Ups(in) : Below(Ups(in)[k]) \subseteq Below(in)
  BY <1>6, BelowFacts
<1>8. TypeOK'
  BY <1>3, <1>4, <1>5, <1>6, <1>7 DEF TypeOK, IsSeq, Ups
<1>9. Nesting'
  BY <1>1, <1>3, <1>4, <1>5 DEF Nesting, Top, Stmt, TypeOK
<1>10. FrameVisited(1)'
  <2>1. \A m \in Below(in) : Before(fn, m)
    BY <1>1
  <2>2. Before(fn, in)
    BY <1>7, <2>1
  <2>3. \A k \in DOMAIN Ups(in) : k > 0 /\ \A m \in Below(Ups(in)[k]) : Before(fn, m)
    BY <1>7, <2>1
  <2>4. \A x : Ups(x)' = Ups(x) /\ Below(x)' = Below(x)
    BY <1>4 DEF Ups, Below
  <2> QED
    BY <1>3, <1>4, <1>5, <1>7, <2>2, <2>3, <2>4 DEF FrameVisited, Before
<1>11. Visited'
  BY <1>4, <1>5, <1>10 DEF Visited, Stmt, Below
<1> QED
  BY <1>8, <1>9, <1>11 DEF CallsNest

(* The top frame and what Resumed makes of it.                             *)
LEMMA TopFacts ==
  ASSUME TypeOK, stack # << >>
  PROVE  /\ plan \in Plans /\ Top.node \in plan.nodes
         /\ Len(Ups(Top.node)) \in Nat /\ DOMAIN Ups(Top.node) = 1 .. Len(Ups(Top.node))
         /\ Top.up \in 0 .. Len(Ups(Top.node))
         /\ DOMAIN Top = FrameFields
         /\ DOMAIN Resumed = FrameFields /\ Resumed.node = Top.node
         /\ Resumed.fn = Top.fn /\ Resumed.up = Top.up
<1>1. IsSeq(stack)
  BY DEF TypeOK, IsSeq
<1>2. Len(stack) \in 1 .. Len(stack)
  BY <1>1, EmptyIffLen0 DEF IsSeq
<1>3. /\ plan \in Plans /\ Top.node \in plan.nodes /\ DOMAIN Top = FrameFields
      /\ Top.up \in 0 .. Len(Ups(Top.node))
  BY <1>2 DEF TypeOK, Top
<1>4. /\ DOMAIN Resumed = FrameFields /\ Resumed.node = Top.node
      /\ Resumed.fn = Top.fn /\ Resumed.up = Top.up
  <2>1. PICK f : f = Top
    OBVIOUS
  <2>2. PICK x : x = InsertValue(f.st, Ups(f.node)[f.up], ret.st)
    OBVIOUS
  <2>3. Resumed = f \/ Resumed = [f EXCEPT !.st = x]
    BY <2>1, <2>2 DEF Resumed
  <2>4. DOMAIN f = FrameFields
    BY <1>3, <2>1
  <2> QED
    BY <2>1, <2>3, <2>4 DEF FrameFields
<1> QED
  BY <1>3, <1>4, BelowFacts

(* The Open and Close functions of an op with upstreams.                   *)
LEMMA Visit ==
  ASSUME TypeOK, CallsNest, stack # << >>, VisitUpstreams
  PROVE  TypeOK' /\ CallsNest'
<1>1. ctl # "stmt"
  BY DEF CallsNest, Nesting
<1>2. CASE Top.up < Len(Ups(Top.node))
  <2>1. CallUpstream(Resumed, Top.up + 1)
    BY <1>2, TopFacts DEF VisitUpstreams
  <2>2. Top.up + 1 \in DOMAIN Ups(Top.node)
    BY <1>2, TopFacts
  <2> QED
    BY <1>1, <2>1, <2>2, TopFacts, Push
<1>3. CASE ~(Top.up < Len(Ups(Top.node)))
  <2>1. Return(Resumed.st, FALSE, Undef)
    BY <1>3, TopFacts DEF VisitUpstreams
  <2>2. Top.up = Len(Ups(Top.node))
    BY <1>3, TopFacts
  <2> QED
    BY <1>1, <2>1, <2>2, Pop
<1> QED
  BY <1>2, <1>3

(* The number of upstreams of a node is the one its kind demands.          *)
LEMMA KindFacts ==
  ASSUME plan \in Plans, NEW n \in plan.nodes
  PROVE  /\ Kind(n) \in Sources => Len(Ups(n)) = 0
         /\ Kind(n) \in {"filter", "map", "reduce", "zip"} => 1 \in DOMAIN Ups(n)
<1>1. TreeOK(plan, n) /\ OpOK(plan, n)
  BY PlansAssumption DEF PlanOK
<1>2. PICK l \in Nat : l = Len(Ups(n)) /\ DOMAIN Ups(n) = 1 .. l
  BY <1>1 DEF TreeOK, Ups
<1>3. /\ Kind(n) \in Sources => l = 0
      /\ Kind(n) \in {"filter", "map", "reduce"} => l = 1
      /\ Kind(n) = "zip" => l > 0
  BY <1>1, <1>2 DEF OpOK, Kind, Ups
<1> QED
  BY <1>2, <1>3

(* The functions of the sources: one step each, from entry to return.      *)
LEMMA SourceSteps ==
  ASSUME TypeOK, CallsNest, SourceStep
  PROVE  TypeOK' /\ CallsNest'
<1>1. stack # << >> /\ ctl = "call" /\ Kind(Top.node) \in Sources
  BY DEF SourceStep, ConstantStreamOpen, ConstantStreamNext, ConstantStreamClose,
         TabularViewOpen, TabularViewNext, TabularViewClose,
         ValueToStreamOpen, ValueToStreamNext, ValueToStreamClose,
         AtEntry, At, Sources
<1>2. \E s, hasNext, v : Return(s, hasNext, v)
  BY DEF SourceStep, ConstantStreamOpen, ConstantStreamNext, ConstantStreamClose,
         TabularViewOpen, TabularViewNext, TabularViewClose,
         ValueToStreamOpen, ValueToStreamNext, ValueToStreamClose, NextByIndex
<1>3. PICK s, hasNext, v : Return(s, hasNext, v)
  BY <1>2
<1>4. Top.up = Len(Ups(Top.node))
  BY <1>1, TopFacts, KindFacts DEF CallsNest, Nesting
<1> QED
  BY <1>1, <1>3, <1>4, Pop

(* A Next function of an op with upstreams calls its first or, in a zip,   *)
(* its following upstream, or returns.                                     *)
LEMMA NextCall ==
  ASSUME TypeOK, CallsNest, stack # << >>, Top.fn = "next",
         NEW f, DOMAIN f = FrameFields, f.node = Top.node, f.fn = Top.fn,
         NEW k \in DOMAIN Ups(Top.node), CallUpstream(f, k)
  PROVE  TypeOK' /\ CallsNest'
<1>1. ctl # "stmt"
  BY DEF CallsNest, Nesting
<1> QED
  BY <1>1, Push

LEMMA NextReturn ==
  ASSUME TypeOK, CallsNest, stack # << >>, Top.fn = "next",
         NEW s, NEW hasNext, NEW v, Return(s, hasNext, v)
  PROVE  TypeOK' /\ CallsNest'
<1>1. ctl # "stmt"
  BY DEF CallsNest, Nesting
<1> QED
  BY <1>1, Pop

(* The functions of the ops with upstreams.                                *)
LEMMA OperatorSteps ==
  ASSUME TypeOK, CallsNest, OperatorStep
  PROVE  TypeOK' /\ CallsNest'
<1>1. stack # << >> /\ Kind(Top.node) \in {"filter", "map", "reduce", "zip"}
  BY DEF OperatorStep, FilterOpen, FilterNext, FilterClose, MapOpen, MapNext, MapClose,
         ReduceOpen, ReduceNext, ReduceClose, ZipOpen, ZipNext, ZipClose, At
<1>2. 1 \in DOMAIN Ups(Top.node)
  BY <1>1, TopFacts, KindFacts
<1>3. CASE VisitUpstreams
  BY <1>1, <1>3, Visit
<1>4. CASE CallFirst /\ Top.fn = "next"
  <2>1. CallUpstream(Top, 1)
    BY <1>4 DEF CallFirst
  <2> QED
    BY <1>1, <1>2, <1>4, <2>1, TopFacts, NextCall
<1>5. CASE FilterNext /\ ~CallFirst
  <2>1. Top.fn = "next"
    BY <1>5 DEF FilterNext, At
  <2>2. CallUpstream(Resumed, 1) \/ Return(Resumed.st, ret.hasNext, ret.element)
    BY <1>5 DEF FilterNext
  <2>3. CASE CallUpstream(Resumed, 1)
    BY <1>1, <1>2, <2>1, <2>3, TopFacts, NextCall
  <2>4. CASE Return(Resumed.st, ret.hasNext, ret.element)
    BY <1>1, <2>1, <2>4, NextReturn
  <2> QED
    BY <2>2, <2>3, <2>4
<1>6. CASE MapNext /\ ~CallFirst
  <2>1. Top.fn = "next"
    BY <1>6 DEF MapNext, At
  <2>2. PICK v : Return(Resumed.st, ret.hasNext, v)
    BY <1>6 DEF MapNext
  <2> QED
    BY <1>1, <2>1, <2>2, NextReturn
<1>7. CASE ReduceNext /\ ~CallFirst
  <2>1. Top.fn = "next"
    BY <1>7 DEF ReduceNext, At
  <2>2. \/ \E acc : CallUpstream([Resumed EXCEPT !.inLoop = TRUE, !.acc = acc], 1)
        \/ \E hasNext, v : Return(Resumed.st, hasNext, v)
    BY <1>7 DEF ReduceNext
  <2>3. ASSUME NEW acc, CallUpstream([Resumed EXCEPT !.inLoop = TRUE, !.acc = acc], 1)
        PROVE  TypeOK' /\ CallsNest'
    <3>1. PICK f : f = [Resumed EXCEPT !.inLoop = TRUE, !.acc = acc]
      OBVIOUS
    <3>2. DOMAIN f = FrameFields /\ f.node = Top.node /\ f.fn = Top.fn
      <4>1. PICK r : r = Resumed
        OBVIOUS
      <4>2. DOMAIN r = FrameFields /\ r.node = Top.node /\ r.fn = Top.fn
        BY <1>1, <4>1, TopFacts
      <4> QED
        BY <3>1, <4>1, <4>2 DEF FrameFields
    <3>3. CallUpstream(f, 1)
      BY <2>3, <3>1
    <3> QED
      BY <1>1, <1>2, <2>1, <3>2, <3>3, NextCall
  <2>4. ASSUME NEW hasNext, NEW v, Return(Resumed.st, hasNext, v)
        PROVE  TypeOK' /\ CallsNest'
    BY <1>1, <2>1, <2>4, NextReturn
  <2> QED
    BY <2>2, <2>3, <2>4
<1>8. CASE ZipNext /\ ~CallFirst
  <2> DEFINE resumed == [Resumed EXCEPT !.hasNext = @ /\ ret.hasNext,
                                        !.elements = Append(@, ret.element)]
  <2>1. Top.fn = "next"
    BY <1>8 DEF ZipNext, At
  <2>2. PICK f : f = resumed
    OBVIOUS
  <2>3. DOMAIN f = FrameFields /\ f.node = Top.node /\ f.fn = Top.fn /\ f.up = Top.up
    <3>1. PICK r, h, e : r = Resumed /\ h = (Resumed.hasNext /\ ret.hasNext)
                                     /\ e = Append(Resumed.elements, ret.element)
      OBVIOUS
    <3>2. DOMAIN r = FrameFields /\ r.node = Top.node /\ r.fn = Top.fn /\ r.up = Top.up
      BY <1>1, <3>1, TopFacts
    <3>3. f = [r EXCEPT !.hasNext = h, !.elements = e]
      BY <2>2, <3>1
    <3> QED
      BY <3>2, <3>3 DEF FrameFields
  <2>4. IF f.up < Len(Ups(Top.node)) THEN CallUpstream(f, f.up + 1)
                                     ELSE Return(f.st, f.hasNext, f.elements)
    BY <1>8, <2>2 DEF ZipNext
  <2>5. CASE f.up < Len(Ups(Top.node))
    <3>1. f.up + 1 \in DOMAIN Ups(Top.node)
      BY <1>1, <2>3, <2>5, TopFacts
    <3> QED
      BY <1>1, <2>1, <2>3, <2>4, <2>5, <3>1, NextCall
  <2>6. CASE ~(f.up < Len(Ups(Top.node)))
    BY <1>1, <2>1, <2>4, <2>6, NextReturn
  <2> QED
    BY <2>5, <2>6
<1> QED
  BY <1>3, <1>4, <1>5, <1>6, <1>7, <1>8
     DEF OperatorStep, FilterOpen, FilterNext, FilterClose, MapOpen, MapNext, MapClose,
         ReduceOpen, ReduceNext, ReduceClose, ZipOpen, ZipNext, ZipClose, At

(* A statement that goes from Open or Next of its input to Next or Close.  *)
LEMMA Resume ==
  ASSUME TypeOK, CallsNest, ctl = "ret", stack = << >>, driver.pc \in {"open", "next"},
         NEW fn \in {"next", "close"}, NEW s, NEW value, CallInput(fn, s, value),
         DOMAIN out' = DOMAIN out
  PROVE  TypeOK' /\ CallsNest'
<1>1. /\ line <= Len(plan.stmts)
      /\ \A m \in Below(Stmt.input) : After(driver.pc, m)
      /\ \A m \in plan.nodes : phase[m] = "open" => m \in Below(Stmt.input)
  BY DEF CallsNest, Nesting, Visited
<1>2. \A m \in Below(Stmt.input) : Before(fn, m)
  BY <1>1 DEF Before, After
<1> QED
  BY <1>1, <1>2, Enter

(* The end of a statement.                                                 *)
LEMMA Finish ==
  ASSUME TypeOK, CallsNest, ctl = "ret", stack = << >>, driver.pc = "close",
         EndStatement, DOMAIN out' = DOMAIN out
  PROVE  TypeOK' /\ CallsNest'
<1>1. /\ ctl' = "stmt" /\ driver'.pc = "idle" /\ line' = line + 1
      /\ UNCHANGED <<plan, stack, ret, phase, got, ended>>
  BY DEF EndStatement
<1>2. Len(plan.stmts) \in Nat /\ line <= Len(plan.stmts)
  BY PlansAssumption DEF TypeOK, PlanOK, CallsNest, Nesting
<1>3. Len(stack) = 0
  BY EmptyIffLen0 DEF TypeOK, IsSeq
<1>4. TypeOK'
  BY <1>1, <1>2 DEF TypeOK, Ups
<1>5. \A m \in plan.nodes : phase[m] # "open"
  BY DEF CallsNest, Visited, After
<1> QED
  BY <1>1, <1>3, <1>4, <1>5 DEF CallsNest, Nesting, Visited

(* The steps of the statements.                                            *)
LEMMA StatementSteps ==
  ASSUME TypeOK, CallsNest, StartStatement \/ SinkLoop \/ StreamToValue
  PROVE  TypeOK' /\ CallsNest'
<1>1. CASE StartStatement
  <2>1. /\ ctl = "stmt" /\ line <= Len(plan.stmts) /\ DOMAIN out' = DOMAIN out
        /\ CallInput("open", [n \in plan.nodes |-> StateCreation(n)], << >>)
    BY <1>1 DEF StartStatement
  <2>2. \A m \in plan.nodes : phase[m] # "open"
    BY <2>1 DEF CallsNest, Visited
  <2>3. Below(Stmt.input) \subseteq plan.nodes
    <3>1. line \in 1 .. Len(plan.stmts)
      BY <2>1, PlansAssumption DEF TypeOK, PlanOK
    <3> QED
      BY <3>1, StmtFacts, BelowFacts DEF TypeOK
  <2>4. \A m \in Below(Stmt.input) : Before("open", m)
    BY <2>2, <2>3 DEF Before
  <2> QED
    BY <2>1, <2>2, <2>4, Enter
<1>2. CASE SinkLoop \/ StreamToValue
  <2>1. /\ ctl = "ret" /\ stack = << >> /\ DOMAIN out' = DOMAIN out
    BY <1>2 DEF SinkLoop, StreamToValue, Back
  <2>2. \/ /\ driver.pc \in {"open", "next"}
           /\ \E fn \in {"next", "close"} : \E s, value : CallInput(fn, s, value)
        \/ driver.pc = "close" /\ EndStatement
    BY <1>2 DEF SinkLoop, StreamToValue, Back
  <2> QED
    BY <2>1, <2>2, Resume, Finish
<1> QED
  BY <1>1, <1>2

(* The inductive invariant.                                                *)
THEOREM Inductive == Spec => [](TypeOK /\ CallsNest)
<1>1. Init => TypeOK /\ CallsNest
  <2> SUFFICES ASSUME Init PROVE TypeOK /\ CallsNest
    OBVIOUS
  <2>1. Len(plan.stmts) \in Nat
    BY PlansAssumption DEF Init, PlanOK
  <2>2. stack = << >> /\ Len(stack) = 0 /\ IsSeq(stack)
    BY DEF Init, IsSeq
  <2>3. TypeOK
    BY <2>1, <2>2 DEF Init, TypeOK, IsSeq
  <2>4. CallsNest
    BY <2>1, <2>2 DEF Init, CallsNest, Nesting, Visited
  <2> QED
    BY <2>3, <2>4
<1>2. TypeOK /\ CallsNest /\ [Next]_vars => (TypeOK /\ CallsNest)'
  <2> SUFFICES ASSUME TypeOK, CallsNest, [Next]_vars PROVE TypeOK' /\ CallsNest'
    OBVIOUS
  <2>1. CASE UNCHANGED vars
    <3>1. /\ plan' = plan /\ line' = line /\ driver' = driver /\ stack' = stack
          /\ ctl' = ctl /\ ret' = ret /\ out' = out /\ phase' = phase
          /\ got' = got /\ ended' = ended
      BY <2>1 DEF vars
    <3>2. TypeOK'
      BY <3>1 DEF TypeOK, Ups
    <3>3. Nesting'
      BY <3>1 DEF CallsNest, Nesting, Called, Top, Ups, Stmt, Below
    <3>4. /\ \A i : FrameVisited(i)' = FrameVisited(i)
          /\ \A fn, m : After(fn, m)' = After(fn, m)
          /\ \A m : Below(m)' = Below(m)
          /\ Stmt' = Stmt
      BY <3>1 DEF FrameVisited, Before, After, Ups, Below, Stmt
    <3>5. Visited'
      BY <3>1, <3>4 DEF CallsNest, Visited
    <3> QED
      BY <3>2, <3>3, <3>5 DEF CallsNest
  <2>2. CASE Terminated
    BY <2>1, <2>2 DEF Terminated
  <2> QED
    BY <2>1, <2>2, SourceSteps, OperatorSteps, StatementSteps DEF Next
<1> QED
  BY <1>1, <1>2, PTL DEF Spec

(* Every reachable state of the generated code is well typed.              *)
THEOREM TypeCorrect == Spec => []TypeOK
<1>1. TypeOK /\ CallsNest => TypeOK
  OBVIOUS
<1> QED
  BY <1>1, Inductive, PTL

(* The calls of the Open, Next and Close functions nest like the plan.     *)
THEOREM CallsNestAlways == Spec => []CallsNest
<1>1. TypeOK /\ CallsNest => CallsNest
  OBVIOUS
<1> QED
  BY <1>1, Inductive, PTL

(* Whatever the plan, each iterator is opened, pulled and closed in the    *)
(* order of the Volcano protocol, and none is left open by a statement.    *)
THEOREM ProtocolHolds == Spec => []Protocol
<1>1. TypeOK /\ CallsNest => Protocol
  <2> SUFFICES ASSUME TypeOK, CallsNest PROVE Protocol
    OBVIOUS
  <2>1. \A i \in 1 .. Len(stack) : Before(stack[i].fn, stack[i].node)
    BY DEF CallsNest, Visited, FrameVisited
  <2>2. ctl = "stmt" => \A m \in plan.nodes : phase[m] # "open"
    BY DEF CallsNest, Visited
  <2> QED
    BY <2>1, <2>2 DEF Protocol, Before
<1> QED
  BY <1>1, Inductive, PTL

-----------------------------------------------------------------------------
(* The end of a stream is final.                                           *)

Fields == {"currentIndex", "hasReturned", "value"}
IsState(s) ==
  /\ DOMAIN s = plan.nodes
  /\ \A n \in plan.nodes : DOMAIN s[n] = Fields /\ s[n].hasReturned \in BOOLEAN
SameOutside(s, t, n) == \A m \in plan.nodes \ Below(n) : s[m] = t[m]

(* A frame and the frame it was called from have the same states of all    *)
(* iterators but those that the call is about, and so has what it returns: *)
(* the newest states of all iterators are in one place, Cur.               *)
Cur == IF ctl = "call" THEN Top.st ELSE ret.st
Agree ==
  /\ \A i \in 1 .. Len(stack) : IsState(stack[i].st)
  /\ ctl = "ret" => IsState(ret.st)
  /\ \A i \in 1 .. Len(stack) - 1 : SameOutside(stack[i + 1].st, stack[i].st, stack[i + 1].node)
  /\ ctl = "ret" /\ stack # << >> => SameOutside(ret.st, Top.st, Called(Len(stack)))

(* An iterator is at its end: a source has nothing left in the state s,    *)
(* any other has an upstream among those that have ended.                  *)
Settled(n, s, es) ==
  CASE Kind(n) = "value_to_stream" -> s[n].hasReturned
    [] Kind(n) \in Sources \ {"value_to_stream"} -> ~ (s[n].currentIndex < Len(plan.data[n]))
    [] OTHER -> \E k \in DOMAIN Ups(n) : Ups(n)[k] \in es

(* What a Next function under way has found out about its upstreams: a     *)
(* reduce that has an element has not ended, and a zip that has found no   *)
(* end has called none that has.                                           *)
FrameEnd(f, es) ==
  /\ Kind(f.node) = "reduce" /\ f.inLoop => f.node \notin es
  /\ Kind(f.node) = "zip" =>
       /\ f.hasNext \in BOOLEAN
       /\ f.hasNext <=> \A k \in 1 .. f.up - 1 : Ups(f.node)[k] \notin es

Returned == IF stack = << >> THEN Stmt.input ELSE Called(Len(stack))
Opening == driver.pc = "open" => \A n \in ended : phase[n] # "open"
EndsHold ==
  driver.pc = "next" =>
    /\ \A n \in ended : phase[n] = "open" => Settled(n, Cur, ended)
    /\ ctl = "ret" => ret.hasNext \in BOOLEAN /\ (ret.hasNext <=> Returned \notin ended)
    /\ \A i \in 1 .. Len(stack) : FrameEnd(stack[i], ended)
NewEnds == \A n \in ended : n \in ended' => got'[n] = got[n]
FinalInv == Agree /\ Opening /\ EndsHold

(* The frames after a call of the k-th upstream of the top frame, with all *)
(* that the frames say.                                                    *)
LEMMA PushMore ==
  ASSUME TypeOK, stack # << >>, NEW f, DOMAIN f = FrameFields,
         f.node = Top.node, f.fn = Top.fn,
         NEW k \in DOMAIN Ups(Top.node), CallUpstream(f, k)
  PROVE  /\ Len(stack) \in Nat /\ Len(stack) > 0 /\ Len(stack') = Len(stack) + 1
         /\ stack' # << >> /\ (Top)' = stack'[Len(stack) + 1]
         /\ \A i \in 1 .. Len(stack) - 1 : stack'[i] = stack[i]
         /\ stack'[Len(stack)] = [f EXCEPT !.up = k]
         /\ stack'[Len(stack)].node = Top.node /\ stack'[Len(stack)].up = k
         /\ stack'[Len(stack)].st = f.st /\ stack'[Len(stack)].inLoop = f.inLoop
         /\ stack'[Len(stack)].hasNext = f.hasNext
         /\ stack'[Len(stack) + 1] = Frame(Ups(Top.node)[k], Top.fn, f.st)
         /\ ctl' = "call" /\ UNCHANGED <<plan, line, driver, ret, out, phase, got, ended>>
<1>1. /\ Len(stack) \in Nat /\ Len(stack) > 0
      /\ IsSeq(stack') /\ Len(stack') = Len(stack) + 1
      /\ \A i \in 1 .. Len(stack) - 1 : stack'[i] = stack[i]
  BY PushFrames
<1>2. PICK x : x = [f EXCEPT !.up = k]
  OBVIOUS
<1>3. PICK e : e = Frame(Ups(f.node)[k], f.fn, f.st)
  OBVIOUS
<1>4. stack' = Append([stack EXCEPT ![Len(stack)] = x], e)
  BY <1>2, <1>3 DEF CallUpstream
<1>5. PICK S : S = {stack[i] : i \in 1 .. Len(stack)} \cup {x, e}
  OBVIOUS
<1>6. IsSeq(stack)
  BY DEF TypeOK, IsSeq
<1>7. stack \in Seq(S) /\ x \in S /\ e \in S
  BY <1>1, <1>5, <1>6, SeqOverRange
<1>8. PICK r : r = [stack EXCEPT ![Len(stack)] = x]
  OBVIOUS
<1>9. r \in Seq(S) /\ Len(r) = Len(stack) /\ r[Len(stack)] = x
  BY <1>1, <1>7, <1>8, ReplaceLast
<1>10. stack' = Append(r, e)
  BY <1>4, <1>8
<1>11. stack'[Len(r) + 1] = e /\ \A i \in 1 .. Len(r) : stack'[i] = r[i]
  BY ONLY <1>7, <1>9, <1>10
<1>12. stack'[Len(stack)] = x /\ stack'[Len(stack) + 1] = e
  <2>1. Len(stack) \in 1 .. Len(r)
    BY <1>1, <1>9
  <2> QED
    BY <1>9, <1>11, <2>1
<1>13. /\ x.node = f.node /\ x.up = k /\ x.st = f.st /\ x.inLoop = f.inLoop /\ x.hasNext = f.hasNext
  BY <1>2 DEF FrameFields
<1>14. stack' # << >>
  BY <1>1, EmptyIffLen0
<1>15. (Top)' = stack'[Len(stack) + 1]
  BY <1>1 DEF Top
<1> QED
  BY <1>1, <1>2, <1>3, <1>12, <1>13, <1>14, <1>15 DEF CallUpstream

(* The frames after a return.                                              *)
LEMMA PopMore ==
  ASSUME TypeOK, stack # << >>, NEW s, NEW hasNext, NEW v, Return(s, hasNext, v)
  PROVE  /\ Len(stack) \in Nat /\ Len(stack) > 0 /\ Len(stack') = Len(stack) - 1
         /\ \A i \in 1 .. Len(stack) - 1 : stack'[i] = stack[i]
         /\ ctl' = "ret" /\ ret' = [st |-> s, hasNext |-> hasNext, element |-> v]
         /\ UNCHANGED <<plan, line, driver, out>>
         /\ stack' = << >> <=> Len(stack) = 1
         /\ stack' # << >> => (Top)' = stack[Len(stack) - 1]
<1>1. IsSeq(stack)
  BY DEF TypeOK, IsSeq
<1>2. Len(stack) \in Nat /\ Len(stack) > 0
  BY <1>1, EmptyIffLen0 DEF IsSeq
<1>3. PICK S : S = {stack[i] : i \in 1 .. Len(stack)}
  OBVIOUS
<1>4. stack \in Seq(S)
  BY <1>1, <1>3, SeqOverRange
<1>5. stack' = SubSeq(stack, 1, Len(stack) - 1)
  BY DEF Return
<1>6. /\ stack' \in Seq(S) /\ Len(stack') = Len(stack) - 1
      /\ \A i \in 1 .. Len(stack) - 1 : stack'[i] = stack[i]
  BY <1>2, <1>4, <1>5, FrontFacts
<1>7. IsSeq(stack')
  BY ONLY <1>6, SeqIsSeq
<1>8. stack' = << >> <=> Len(stack) = 1
  BY <1>2, <1>6, <1>7, EmptyIffLen0
<1>9. stack' # << >> => (Top)' = stack[Len(stack) - 1]
  <2> SUFFICES ASSUME stack' # << >> PROVE (Top)' = stack[Len(stack) - 1]
    OBVIOUS
  <2>1. Len(stack) - 1 \in 1 .. Len(stack) - 1
    <3>1. PICK L \in Nat : L = Len(stack) /\ L > 0
      BY <1>2
    <3>2. L # 1
      BY <1>8, <3>1
    <3>3. L - 1 \in 1 .. L - 1
      BY <3>1, <3>2
    <3> QED
      BY <3>1, <3>3
  <2> QED
    <3>1. (Top)' = stack'[Len(stack')]
      BY DEF Top
    <3>2. stack'[Len(stack) - 1] = stack[Len(stack) - 1]
      BY <1>6, <2>1
    <3> QED
      BY <1>6, <3>1, <3>2
<1> QED
  BY <1>2, <1>6, <1>8, <1>9 DEF Return

(* The node of a frame below the top is not that of the top frame, nor     *)
(* does the top frame run a function of an upstream it has done with.      *)
LEMMA NodesApart ==
  ASSUME TypeOK, CallsNest, NEW i \in 1 .. Len(stack) - 1
  PROVE  /\ stack[i].node # Top.node
         /\ \A k \in 1 .. stack[i].up - 1 : Ups(stack[i].node)[k] # Top.node
         /\ Top.node \in Below(Called(i))
         /\ stack[i].node \in plan.nodes /\ stack[i].up \in DOMAIN Ups(stack[i].node)
<1>1. Len(stack) \in Nat /\ i \in 1 .. Len(stack) /\ Len(stack) \in i + 1 .. Len(stack)
  BY DEF TypeOK
<1>2. PICK n \in plan.nodes : n = stack[i].node
  BY <1>1 DEF TypeOK
<1>3. plan \in Plans /\ stack[i].up \in 0 .. Len(Ups(n)) /\ stack[i].up > 0
  BY <1>1, <1>2 DEF TypeOK, CallsNest, Nesting
<1>4. PICK u : u = stack[i].up
  OBVIOUS
<1>5. u \in DOMAIN Ups(n) /\ Len(Ups(n)) \in Nat /\ DOMAIN Ups(n) = 1 .. Len(Ups(n))
  BY <1>2, <1>3, <1>4, BelowFacts
<1>6. Top.node \in Below(Called(i))
  BY <1>1 DEF CallsNest, Nesting, Top
<1>7. Top.node \in Below(Ups(n)[u])
  BY <1>2, <1>4, <1>6 DEF Called
<1>8. n \notin Below(Ups(n)[u])
  BY <1>2, <1>3, <1>5, BelowFacts
<1>9. ASSUME NEW k \in 1 .. u - 1
      PROVE  Ups(n)[k] # Top.node
  <2>1. k \in DOMAIN Ups(n) /\ k # u
    BY <1>5
  <2>2. Ups(n)[k] \in plan.nodes /\ Below(Ups(n)[k]) \cap Below(Ups(n)[u]) = {}
    BY <1>2, <1>3, <1>5, <2>1, BelowFacts
  <2>3. Ups(n)[k] \in Below(Ups(n)[k])
    BY <1>3, <2>2, BelowFacts
  <2> QED
    BY <1>7, <2>2, <2>3
<1> QED
  BY <1>2, <1>4, <1>5, <1>6, <1>7, <1>8, <1>9

(* A frame that resumes has the newest states, and what it had of the      *)
(* states of iterators that its call was not about.                        *)
LEMMA ResumedIs ==
  ASSUME TypeOK, CallsNest, Agree, stack # << >>
  PROVE  /\ IsState(Resumed.st) /\ IsState(Top.st)
         /\ \A m \in plan.nodes : Resumed.st[m] = Cur[m]
         /\ SameOutside(Resumed.st, Top.st, Top.node)
         /\ Resumed.inLoop = Top.inLoop /\ Resumed.hasNext = Top.hasNext
         /\ ctl = "ret" => /\ Top.up \in DOMAIN Ups(Top.node)
                           /\ Returned = Ups(Top.node)[Top.up]
<1>1. /\ Len(stack) \in 1 .. Len(stack) /\ plan \in Plans /\ Top.node \in plan.nodes
      /\ DOMAIN Top = FrameFields
      /\ DOMAIN Ups(Top.node) = 1 .. Len(Ups(Top.node)) /\ Len(Ups(Top.node)) \in Nat
      /\ Top.up \in 0 .. Len(Ups(Top.node))
  <2>1. IsSeq(stack)
    BY DEF TypeOK, IsSeq
  <2>2. Len(stack) \in 1 .. Len(stack)
    BY <2>1, EmptyIffLen0 DEF IsSeq
  <2> QED
    BY <2>2, TopFacts
<1>2. IsState(Top.st)
  BY <1>1 DEF Agree, Top
<1>3. ctl = "call" \/ ctl = "ret"
  BY DEF TypeOK, CallsNest, Nesting
<1>4. CASE ctl = "call"
  <2>1. Resumed = Top /\ Cur = Top.st
    BY <1>4 DEF Resumed, Cur
  <2> QED
    BY <1>2, <1>4, <2>1 DEF SameOutside
<1>5. CASE ctl = "ret"
  <2>1. Top.up \in DOMAIN Ups(Top.node)
    BY <1>1, <1>5 DEF CallsNest, Nesting
  <2>2. PICK u : u = Ups(Top.node)[Top.up]
    OBVIOUS
  <2>3. Called(Len(stack)) = u /\ Returned = u
    BY <2>2 DEF Called, Top, Returned
  <2>4. u \in plan.nodes /\ Below(u) \subseteq Below(Top.node) /\ Below(Top.node) \subseteq plan.nodes
    BY <1>1, <2>1, <2>2, BelowFacts
  <2>5. PICK x : x = InsertValue(Top.st, u, ret.st)
    OBVIOUS
  <2>6. Resumed.st = x /\ Resumed.inLoop = Top.inLoop /\ Resumed.hasNext = Top.hasNext
    <3>1. PICK f : f = Top
      OBVIOUS
    <3>2. Resumed = [f EXCEPT !.st = x]
      BY <1>5, <2>2, <2>5, <3>1 DEF Resumed
    <3> QED
      BY <1>1, <3>1, <3>2 DEF FrameFields
  <2>7. IsState(ret.st) /\ SameOutside(ret.st, Top.st, u) /\ Cur = ret.st
    BY <1>5, <2>3 DEF Agree, Cur
  <2>8. x = [m \in plan.nodes |-> IF m \in Below(u) THEN ret.st[m] ELSE Top.st[m]]
    BY <2>5 DEF InsertValue
  <2>9. \A m \in plan.nodes : x[m] = ret.st[m]
    BY <2>7, <2>8 DEF SameOutside
  <2>10. IsState(x)
    BY <2>7, <2>8, <2>9 DEF IsState
  <2>11. SameOutside(x, Top.st, Top.node)
    BY <2>4, <2>8 DEF SameOutside
  <2> QED
    BY <1>2, <2>1, <2>2, <2>3, <2>6, <2>7, <2>9, <2>10, <2>11
<1> QED
  BY <1>3, <1>4, <1>5

(* Calls and returns keep the states in agreement.                         *)
LEMMA AgreePush ==
  ASSUME TypeOK, CallsNest, Agree, stack # << >>, NEW f, DOMAIN f = FrameFields,
         f.node = Top.node, f.fn = Top.fn, f.st = Resumed.st,
         NEW k \in DOMAIN Ups(Top.node), CallUpstream(f, k)
  PROVE  Agree' /\ (\A m \in plan.nodes : (Cur)'[m] = Cur[m])
<1>1. PICK L \in Nat : L = Len(stack) /\ L > 0
  BY PushMore
<1>2. PICK e : e = stack'[L + 1]
  OBVIOUS
<1>3. /\ Len(stack') = L + 1 /\ stack' # << >> /\ (Top)' = e
      /\ \A i \in 1 .. L - 1 : stack'[i] = stack[i]
      /\ stack'[L].node = Top.node /\ stack'[L].st = Resumed.st
      /\ e = Frame(Ups(Top.node)[k], Top.fn, f.st) /\ ctl' = "call" /\ plan' = plan
  BY <1>1, <1>2, PushMore
<1>4. e.st = Resumed.st
  BY <1>3 DEF Frame
<1>5. /\ IsState(Resumed.st) /\ SameOutside(Resumed.st, Top.st, Top.node)
      /\ \A m \in plan.nodes : Resumed.st[m] = Cur[m]
  BY ResumedIs
<1>6. (Cur)' = Resumed.st
  BY <1>3, <1>4 DEF Cur
<1>7. ASSUME NEW i \in 1 .. L + 1
      PROVE  IsState(stack'[i].st)
  <2>1. i \in 1 .. L - 1 \/ i = L \/ i = L + 1
    OBVIOUS
  <2>2. \A j \in 1 .. L - 1 : IsState(stack[j].st)
    BY <1>1 DEF Agree
  <2> QED
    BY <1>2, <1>3, <1>4, <1>5, <2>1, <2>2
<1>8. ASSUME NEW i \in 1 .. L
      PROVE  SameOutside(stack'[i + 1].st, stack'[i].st, stack'[i + 1].node)
  <2>1. CASE i = L
    BY <1>2, <1>3, <1>4, <2>1 DEF SameOutside
  <2>2. CASE i < L /\ i + 1 = L
    <3>1. SameOutside(Top.st, stack[i].st, Top.node) /\ stack'[i] = stack[i]
      BY <1>1, <1>3, <2>2 DEF Agree, Top
    <3> QED
      BY <1>3, <1>5, <2>2, <3>1 DEF SameOutside
  <2>3. CASE i + 1 < L
    <3>1. stack'[i] = stack[i] /\ stack'[i + 1] = stack[i + 1] /\ i \in 1 .. L - 1
      BY <1>3, <2>3
    <3> QED
      BY <1>1, <3>1 DEF Agree
  <2> QED
    BY <2>1, <2>2, <2>3
<1>9. Below(0)' = Below(0) /\ \A s, t, n : SameOutside(s, t, n)' <=> SameOutside(s, t, n)
  BY <1>3 DEF SameOutside, Below
<1>10. \A i \in 1 .. L + 1 : IsState(stack[i].st)'
  BY <1>3, <1>7 DEF IsState
<1>11. \A i \in 1 .. L : SameOutside(stack[i + 1].st, stack[i].st, stack[i + 1].node)'
  BY <1>3, <1>8 DEF SameOutside, Below
<1>12. Agree'
  BY <1>3, <1>10, <1>11 DEF Agree
<1> QED
  BY <1>5, <1>6, <1>12

LEMMA AgreePop ==
  ASSUME TypeOK, CallsNest, Agree, stack # << >>, NEW s, NEW hasNext, NEW v,
         Return(s, hasNext, v), IsState(s), SameOutside(s, Top.st, Top.node)
  PROVE  Agree' /\ (Cur)' = s
<1>1. PICK L \in Nat : L = Len(stack) /\ L > 0
  BY PopMore
<1>2. /\ Len(stack') = L - 1 /\ (\A i \in 1 .. L - 1 : stack'[i] = stack[i])
      /\ ctl' = "ret" /\ (ret').st = s /\ plan' = plan
      /\ stack' = << >> <=> L = 1
      /\ stack' # << >> => (Top)' = stack[L - 1]
  BY <1>1, PopMore
<1>3. (Cur)' = s
  BY <1>2 DEF Cur
<1>4. \A i \in 1 .. L - 1 : IsState(stack'[i].st)
  BY <1>1, <1>2 DEF Agree
<1>5. \A i \in 1 .. L - 2 : SameOutside(stack'[i + 1].st, stack'[i].st, stack'[i + 1].node)
  <2> SUFFICES ASSUME NEW i \in 1 .. L - 2
               PROVE  SameOutside(stack'[i + 1].st, stack'[i].st, stack'[i + 1].node)
    OBVIOUS
  <2>1. i \in 1 .. L - 1 /\ i + 1 \in 1 .. L - 1
    BY <1>1
  <2>2. SameOutside(stack[i + 1].st, stack[i].st, stack[i + 1].node)
    BY <1>1, <2>1 DEF Agree
  <2> QED
    BY <1>2, <2>1, <2>2
<1>6. ASSUME L # 1
      PROVE  SameOutside(s, stack[L - 1].st, Called(L - 1))
  <2>1. L - 1 \in 1 .. L - 1 /\ L - 1 + 1 = L
    BY <1>1, <1>6
  <2>2. stack[L].node = Called(L - 1) /\ SameOutside(stack[L].st, stack[L - 1].st, stack[L].node)
    BY <1>1, <2>1 DEF CallsNest, Nesting, Agree
  <2>3. Top = stack[L]
    BY <1>1 DEF Top
  <2> QED
    BY <2>2, <2>3 DEF SameOutside
<1>7. L # 1 => Called(Len(stack))' = Called(L - 1)
  BY <1>1, <1>2 DEF Called, Ups
<1>8. \A i \in 1 .. L - 1 : IsState(stack[i].st)'
  BY <1>2, <1>4 DEF IsState
<1>9. IsState(ret.st)'
  BY <1>2 DEF IsState
<1>10. \A i \in 1 .. L - 2 : SameOutside(stack[i + 1].st, stack[i].st, stack[i + 1].node)'
  BY <1>2, <1>5 DEF SameOutside, Below
<1>11. L # 1 => SameOutside(ret.st, Top.st, Called(Len(stack)))'
  BY <1>2, <1>6, <1>7 DEF SameOutside, Below
<1>12. Len(stack') - 1 = L - 2
  BY <1>2
<1>13. Agree'
  BY <1>2, <1>8, <1>9, <1>10, <1>11, <1>12 DEF Agree
<1> QED
  BY <1>3, <1>13

(* What is settled depends on the iterator's own state, and stays when     *)
(* more iterators end.                                                     *)
LEMMA SettledStays ==
  ASSUME NEW n, NEW s, NEW t, s[n] = t[n], NEW es, NEW fs, es \subseteq fs,
         Settled(n, s, es)
  PROVE  Settled(n, t, fs)
BY DEF Settled, Sources

(* In the pass of Next calls, a call keeps the invariant if the frame that *)
(* waits for it knows what it should of the upstreams it has done with.    *)
LEMMA EndsPush ==
  ASSUME TypeOK, CallsNest, FinalInv, driver.pc = "next", stack # << >>,
         NEW f, DOMAIN f = FrameFields,
         f.node = Top.node, f.fn = Top.fn, f.st = Resumed.st,
         NEW k \in DOMAIN Ups(Top.node), CallUpstream(f, k),
         Kind(Top.node) = "reduce" /\ f.inLoop => Top.node \notin ended,
         Kind(Top.node) = "zip" =>
           /\ f.hasNext \in BOOLEAN
           /\ f.hasNext <=> \A j \in 1 .. k - 1 : Ups(Top.node)[j] \notin ended
  PROVE  FinalInv' /\ NewEnds
<1>1. PICK L \in Nat : L = Len(stack) /\ L > 0
  BY PushMore
<1>2. Agree' /\ \A m \in plan.nodes : (Cur)'[m] = Cur[m]
  BY AgreePush DEF FinalInv
<1>3. PICK e, x : e = stack'[L + 1] /\ x = stack'[L]
  OBVIOUS
<1>4. /\ Len(stack') = L + 1 /\ \A i \in 1 .. L - 1 : stack'[i] = stack[i]
      /\ x.node = Top.node /\ x.up = k /\ x.inLoop = f.inLoop /\ x.hasNext = f.hasNext
      /\ e = Frame(Ups(Top.node)[k], Top.fn, f.st)
      /\ ctl' = "call" /\ UNCHANGED <<plan, line, driver, ret, out, phase, got, ended>>
  BY <1>1, <1>3, PushMore
<1>5. PICK c, d : c = Cur /\ d = (Cur)'
  OBVIOUS
<1>6. \A n \in ended : phase[n] = "open" => Settled(n, d, ended)
  <2> SUFFICES ASSUME NEW n \in ended, phase[n] = "open" PROVE Settled(n, d, ended)
    OBVIOUS
  <2>1. Settled(n, c, ended)
    BY <1>5 DEF FinalInv, EndsHold
  <2>2. n \in plan.nodes
    BY DEF TypeOK
  <2>3. c[n] = d[n]
    BY <1>2, <1>5, <2>2
  <2> QED
    BY <2>1, <2>3, SettledStays
<1>7. \A i \in 1 .. L + 1 : FrameEnd(stack'[i], ended)
  <2> SUFFICES ASSUME NEW i \in 1 .. L + 1 PROVE FrameEnd(stack'[i], ended)
    OBVIOUS
  <2>1. CASE i \in 1 .. L - 1
    BY <1>1, <1>4, <2>1 DEF FinalInv, EndsHold
  <2>2. CASE i = L
    <3>1. Kind(x.node) = "zip" =>
            /\ x.hasNext \in BOOLEAN
            /\ x.hasNext <=> \A j \in 1 .. x.up - 1 : Ups(x.node)[j] \notin ended
      BY ONLY <1>4, Kind(Top.node) = "zip" =>
           /\ f.hasNext \in BOOLEAN
           /\ f.hasNext <=> \A j \in 1 .. k - 1 : Ups(Top.node)[j] \notin ended, Zenon
    <3>2. Kind(x.node) = "reduce" /\ x.inLoop => x.node \notin ended
      BY <1>4
    <3>3. FrameEnd(x, ended)
      BY <3>1, <3>2, Zenon DEF FrameEnd
    <3> QED
      BY <1>3, <2>2, <3>3
  <2>3. CASE i = L + 1
    <3>1. e.inLoop = FALSE /\ e.hasNext = TRUE /\ e.up = 0
      BY <1>4 DEF Frame
    <3>2. FrameEnd(e, ended)
      <4>1. \A j \in 1 .. e.up - 1 : FALSE
        BY <3>1
      <4> QED
        BY <3>1, <4>1, Zenon DEF FrameEnd
    <3> QED
      BY <1>3, <2>3, <3>2
  <2> QED
    BY <1>1, <2>1, <2>2, <2>3
<1>9. (\A n \in ended : phase[n] = "open" => Settled(n, Cur, ended))'
  BY <1>4, <1>5, <1>6 DEF Settled, Kind, Ups
<1>10. (\A i \in 1 .. Len(stack) : FrameEnd(stack[i], ended))'
  BY <1>4, <1>7 DEF FrameEnd, Kind, Ups
<1>11. EndsHold'
  BY <1>4, <1>9, <1>10 DEF EndsHold
<1>12. Opening'
  BY <1>4 DEF Opening
<1> QED
  BY <1>2, <1>4, <1>11, <1>12 DEF FinalInv, NewEnds

(* What the statement or the frame that a call returns to has called is    *)
(* the node of the frame that returns.                                     *)
LEMMA ReturnedIs ==
  ASSUME TypeOK, CallsNest, stack # << >>, NEW s, NEW hasNext, NEW v,
         Return(s, hasNext, v)
  PROVE  (Returned)' = Top.node
<1>1. PICK L \in Nat : L = Len(stack) /\ L > 0
  BY PopMore
<1>2. /\ Len(stack') = L - 1 /\ (\A i \in 1 .. L - 1 : stack'[i] = stack[i])
      /\ plan' = plan /\ line' = line
      /\ stack' = << >> <=> L = 1
  BY <1>1, PopMore
<1>3. Top = stack[L]
  BY <1>1 DEF Top
<1>4. CASE L = 1
  <2>1. (Returned)' = Stmt.input
    BY <1>2, <1>4 DEF Returned, Stmt
  <2> QED
    BY <1>3, <1>4, <2>1 DEF CallsNest, Nesting
<1>5. CASE L # 1
  <2>1. L - 1 \in 1 .. L - 1 /\ L - 1 + 1 = L
    BY <1>1, <1>5
  <2>2. stack[L].node = Called(L - 1)
    BY <1>1, <2>1 DEF CallsNest, Nesting
  <2>3. (Returned)' = Called(L - 1)
    BY <1>2, <1>5, <2>1 DEF Returned, Called, Ups
  <2> QED
    BY <1>3, <2>2, <2>3
<1> QED
  BY <1>4, <1>5

(* In the pass of Next calls, a return keeps the invariant if it reports   *)
(* the end of an iterator that is at its end, and no element of one that   *)
(* has ended.                                                              *)
LEMMA EndsPop ==
  ASSUME TypeOK, CallsNest, FinalInv, driver.pc = "next", stack # << >>,
         NEW s, NEW hasNext \in BOOLEAN, NEW v, Return(s, hasNext, v),
         IsState(s), SameOutside(s, Top.st, Top.node),
         \A m \in plan.nodes \ {Top.node} : s[m] = Cur[m],
         Top.node \in ended => ~hasNext,
         ~hasNext => Settled(Top.node, s, ended)
  PROVE  FinalInv' /\ NewEnds
<1>1. PICK L \in Nat : L = Len(stack) /\ L > 0
  BY PopMore
<1>2. PICK n : n = Top.node
  OBVIOUS
<1>3. PICK es : es = IF hasNext THEN ended ELSE ended \cup {n}
  OBVIOUS
<1>4. Top.fn = "next" /\ n = stack[L].node
  <2>1. L \in 1 .. Len(stack)
    BY <1>1
  <2> QED
    BY <1>1, <1>2, <2>1 DEF CallsNest, Nesting, Top
<1>5. /\ Len(stack') = L - 1 /\ (\A i \in 1 .. L - 1 : stack'[i] = stack[i])
      /\ ctl' = "ret" /\ (ret').hasNext = hasNext
      /\ UNCHANGED <<plan, line, driver>>
  BY <1>1, PopMore
<1>6. /\ phase' = phase /\ ended' = es
      /\ got' = IF hasNext THEN [got EXCEPT ![n] = @ + 1] ELSE got
  BY <1>2, <1>3, <1>4 DEF Return
<1>7. Agree' /\ (Cur)' = s
  BY AgreePop DEF FinalInv
<1>8. ended \subseteq es
  BY <1>3
<1>9. \A m \in es : phase[m] = "open" => Settled(m, s, es)
  <2> SUFFICES ASSUME NEW m \in es, phase[m] = "open" PROVE Settled(m, s, es)
    OBVIOUS
  <2>1. CASE m = n
    <3>1. ~hasNext
      BY <1>2, <1>3, <2>1
    <3>2. Settled(n, s, ended)
      BY <1>2, <3>1
    <3> QED
      BY <1>8, <2>1, <3>2, SettledStays
  <2>2. CASE m # n
    <3>1. m \in ended /\ m \in plan.nodes
      BY <1>3, <2>2 DEF TypeOK
    <3>2. PICK c : c = Cur
      OBVIOUS
    <3>3. Settled(m, c, ended)
      BY <3>1, <3>2 DEF FinalInv, EndsHold
    <3>4. c[m] = s[m]
      BY <1>2, <2>2, <3>1, <3>2
    <3> QED
      BY <1>8, <3>3, <3>4, SettledStays
  <2> QED
    BY <2>1, <2>2
<1>10. \A i \in 1 .. L - 1 : FrameEnd(stack'[i], es)
  <2> SUFFICES ASSUME NEW i \in 1 .. L - 1 PROVE FrameEnd(stack'[i], es)
    OBVIOUS
  <2>1. PICK f : f = stack[i]
    OBVIOUS
  <2>2. f = stack'[i] /\ FrameEnd(f, ended)
    <3>1. i \in 1 .. Len(stack)
      BY <1>1
    <3> QED
      BY <1>5, <2>1, <3>1 DEF FinalInv, EndsHold
  <2>3. f.node # n /\ \A j \in 1 .. f.up - 1 : Ups(f.node)[j] # n
    BY <1>1, <1>2, <2>1, NodesApart
  <2>4. \A m : m # n => (m \in es <=> m \in ended)
    BY <1>3
  <2>5. Kind(f.node) = "reduce" /\ f.inLoop => f.node \notin es
    BY <2>2, <2>3, <2>4, Zenon DEF FrameEnd
  <2>6. Kind(f.node) = "zip" =>
          /\ f.hasNext \in BOOLEAN
          /\ f.hasNext <=> \A j \in 1 .. f.up - 1 : Ups(f.node)[j] \notin ended
    BY <2>2, Zenon DEF FrameEnd
  <2>7. (\A j \in 1 .. f.up - 1 : Ups(f.node)[j] \notin ended)
          <=> (\A j \in 1 .. f.up - 1 : Ups(f.node)[j] \notin es)
    BY <2>3, <2>4, Zenon
  <2>8. Kind(f.node) = "zip" =>
          /\ f.hasNext \in BOOLEAN
          /\ f.hasNext <=> \A j \in 1 .. f.up - 1 : Ups(f.node)[j] \notin es
    BY <2>6, <2>7, Zenon
  <2>9. FrameEnd(f, es)
    BY <2>5, <2>8, Zenon DEF FrameEnd
  <2> QED
    BY <2>2, <2>9
<1>11. n \in es <=> ~hasNext
  BY <1>2, <1>3
<1>12. (\A m \in ended : phase[m] = "open" => Settled(m, Cur, ended))'
  BY <1>5, <1>6, <1>7, <1>9 DEF Settled, Kind, Ups
<1>13. (\A i \in 1 .. Len(stack) : FrameEnd(stack[i], ended))'
  BY <1>5, <1>6, <1>10 DEF FrameEnd, Kind, Ups
<1>14. (ctl = "ret" => ret.hasNext \in BOOLEAN /\ (ret.hasNext <=> Returned \notin ended))'
  BY <1>2, <1>5, <1>6, <1>11, ReturnedIs
<1>15. EndsHold'
  BY <1>12, <1>13, <1>14 DEF EndsHold
<1>16. Opening'
  BY <1>5 DEF Opening
<1>17. NewEnds
  <2> SUFFICES ASSUME NEW m \in ended PROVE got'[m] = got[m]
    BY DEF NewEnds
  <2>1. m # n \/ ~hasNext
    BY <1>2
  <2> QED
    BY <1>6, <2>1 DEF TypeOK
<1> QED
  BY <1>7, <1>15, <1>16, <1>17 DEF FinalInv

(* The iterator of the top frame is open in the pass of Next calls.        *)
LEMMA TopIsOpen ==
  ASSUME TypeOK, CallsNest, driver.pc = "next", stack # << >>
  PROVE  /\ Top.fn = "next" /\ Top.node \in plan.nodes /\ phase[Top.node] = "open"
         /\ FinalInv => FrameEnd(Top, ended)
         /\ FinalInv /\ Top.node \in ended => Settled(Top.node, Cur, ended)
<1>1. PICK L \in 1 .. Len(stack) : L = Len(stack)
  <2>1. IsSeq(stack)
    BY DEF TypeOK, IsSeq
  <2> QED
    BY <2>1, EmptyIffLen0 DEF IsSeq
<1>2. Top = stack[L] /\ Top.fn = "next" /\ Top.node \in plan.nodes
  BY <1>1, TopFacts DEF CallsNest, Nesting, Top
<1>3. FrameVisited(L)
  BY <1>1 DEF CallsNest, Visited
<1>4. phase[Top.node] = "open"
  BY <1>2, <1>3 DEF FrameVisited, Before
<1> QED
  BY <1>1, <1>2, <1>4 DEF FinalInv, EndsHold

(* What SetField changes.                                                  *)
LEMMA SetFieldIs ==
  ASSUME NEW s, IsState(s), NEW n \in plan.nodes, NEW r, DOMAIN r = Fields,
         r.hasReturned \in BOOLEAN, NEW t, t = SetField(s, n, r)
  PROVE  /\ IsState(t) /\ t[n] = r
         /\ \A m \in plan.nodes \ {n} : t[m] = s[m]
         /\ plan \in Plans => SameOutside(t, s, n)
<1>1. /\ DOMAIN t = plan.nodes /\ t[n] = r
      /\ \A m \in plan.nodes \ {n} : t[m] = s[m]
  BY DEF SetField, IsState
<1>2. IsState(t)
  BY <1>1 DEF IsState
<1>3. plan \in Plans => n \in Below(n)
  BY BelowFacts
<1> QED
  BY <1>1, <1>2, <1>3 DEF SameOutside

(* At its entry a function has the newest states.                          *)
LEMMA EntryIs ==
  ASSUME TypeOK, CallsNest, Agree, stack # << >>, ctl = "call"
  PROVE  /\ plan \in Plans /\ Top.node \in plan.nodes /\ IsState(Top.st) /\ Cur = Top.st
         /\ SameOutside(Top.st, Top.st, Top.node)
         /\ DOMAIN Top.st[Top.node] = Fields /\ Top.st[Top.node].hasReturned \in BOOLEAN
<1>1. plan \in Plans /\ Top.node \in plan.nodes
  BY TopFacts
<1>2. IsState(Top.st) /\ Cur = Top.st
  BY ResumedIs DEF Cur
<1> QED
  BY <1>1, <1>2 DEF IsState, SameOutside

(* Next of constant_stream and tabular_view_to_stream.                     *)
LEMMA EndsByIndex ==
  ASSUME TypeOK, CallsNest, FinalInv, driver.pc = "next", stack # << >>, ctl = "call",
         Kind(Top.node) \in Sources \ {"value_to_stream"}, NextByIndex
  PROVE  FinalInv' /\ NewEnds
<1>1. PICK n, i, r : n = Top.node /\ i = Top.st[n].currentIndex
                     /\ r = [Top.st[n] EXCEPT !.currentIndex = i + 1]
  OBVIOUS
<1>2. /\ plan \in Plans /\ n \in plan.nodes /\ IsState(Top.st) /\ Cur = Top.st
      /\ SameOutside(Top.st, Top.st, n)
      /\ DOMAIN Top.st[n] = Fields /\ Top.st[n].hasReturned \in BOOLEAN
  BY <1>1, EntryIs DEF FinalInv
<1>3. PICK t : t = SetField(Top.st, n, r)
  OBVIOUS
<1>4. DOMAIN r = Fields /\ r.hasReturned \in BOOLEAN
  <2>1. PICK q : q = Top.st[n]
    OBVIOUS
  <2> QED
    BY <1>1, <1>2, <2>1 DEF Fields
<1>5. /\ IsState(t) /\ SameOutside(t, Top.st, n)
      /\ \A m \in plan.nodes \ {n} : t[m] = Top.st[m]
  BY <1>2, <1>3, <1>4, SetFieldIs
<1>6. \A s : Settled(n, s, ended) <=> ~ (s[n].currentIndex < Len(plan.data[n]))
  BY <1>1 DEF Settled, Sources
<1>7. CASE i < Len(plan.data[n])
  <2>1. Return(t, TRUE, plan.data[n][i + 1])
    BY <1>1, <1>3, <1>7 DEF NextByIndex
  <2>2. Top.node \notin ended
    <3>1. ~ Settled(n, Top.st, ended)
      BY <1>1, <1>6, <1>7
    <3> QED
      BY <1>1, <1>2, <3>1, TopIsOpen
  <2> QED
    BY <1>1, <1>2, <1>5, <2>1, <2>2, EndsPop
<1>8. CASE ~ (i < Len(plan.data[n]))
  <2>1. Return(Top.st, FALSE, Undef)
    BY <1>1, <1>8 DEF NextByIndex
  <2>2. Settled(n, Top.st, ended)
    BY <1>1, <1>6, <1>8
  <2> QED
    BY <1>1, <1>2, <2>1, <2>2, EndsPop
<1> QED
  BY <1>7, <1>8

(* Next of value_to_stream.                                                *)
LEMMA EndsByFlag ==
  ASSUME TypeOK, CallsNest, FinalInv, driver.pc = "next", ValueToStreamNext
  PROVE  FinalInv' /\ NewEnds
<1>1. stack # << >> /\ ctl = "call" /\ Kind(Top.node) = "value_to_stream"
  BY DEF ValueToStreamNext, AtEntry, At
<1>2. PICK n, q : n = Top.node /\ q = Top.st[Top.node]
  OBVIOUS
<1>3. PICK r, t : r = [q EXCEPT !.hasReturned = TRUE] /\ t = SetField(Top.st, n, r)
  OBVIOUS
<1>4. /\ plan \in Plans /\ n \in plan.nodes /\ IsState(Top.st) /\ Cur = Top.st
      /\ DOMAIN q = Fields /\ q.hasReturned \in BOOLEAN
  BY <1>1, <1>2, EntryIs DEF FinalInv
<1>5. DOMAIN r = Fields /\ r.hasReturned = TRUE
  BY <1>3, <1>4 DEF Fields
<1>6. /\ IsState(t) /\ SameOutside(t, Top.st, n) /\ t[n] = r
      /\ \A m \in plan.nodes \ {n} : t[m] = Top.st[m]
  <2>1. r.hasReturned \in BOOLEAN /\ t = SetField(Top.st, n, r)
    BY <1>3, <1>5
  <2>2. PICK z : z = Top.st
    OBVIOUS
  <2>3. IsState(z) /\ t = SetField(z, n, r)
    BY <1>4, <2>1, <2>2
  <2> QED
    BY <1>4, <1>5, <2>1, <2>2, <2>3, SetFieldIs
<1>7. \A s : Settled(n, s, ended) <=> s[n].hasReturned
  BY <1>1, <1>2, Zenon DEF Settled
<1>8. PICK h \in BOOLEAN : h = ~ q.hasReturned
  BY <1>4
<1>9. Return(t, h, q.value)
  BY <1>2, <1>3, <1>8 DEF ValueToStreamNext
<1>10. Settled(n, t, ended)
  BY <1>5, <1>6, <1>7
<1>11. n \in ended => ~ h
  <2>1. n \in ended => Settled(n, Top.st, ended)
    BY <1>1, <1>2, <1>4, TopIsOpen
  <2> QED
    BY <1>2, <1>7, <1>8, <2>1
<1> QED
  BY <1>1, <1>2, <1>4, <1>6, <1>9, <1>10, <1>11, EndsPop

(* An op with one upstream has ended when the answer of its upstream says  *)
(* so.                                                                     *)
LEMMA OneUpstream ==
  ASSUME TypeOK, CallsNest, FinalInv, driver.pc = "next", stack # << >>, ctl = "ret",
         Kind(Top.node) \in {"filter", "map", "reduce"}
  PROVE  /\ ret.hasNext \in BOOLEAN
         /\ \A s : Settled(Top.node, s, ended) <=> ~ ret.hasNext
<1>1. PICK n \in plan.nodes : n = Top.node
  BY TopFacts
<1>2. DOMAIN Ups(n) = {1}
  <2>1. TreeOK(plan, n) /\ OpOK(plan, n)
    BY PlansAssumption DEF TypeOK, PlanOK
  <2>2. Len(Ups(n)) = 1 /\ DOMAIN Ups(n) = 1 .. Len(Ups(n))
    BY <1>1, <2>1 DEF TreeOK, OpOK, Kind, Ups
  <2> QED
    BY <2>2
<1>3. Top.up \in DOMAIN Ups(n) /\ Returned = Ups(n)[Top.up]
  BY <1>1, ResumedIs DEF FinalInv
<1>4. Returned = Ups(n)[1]
  BY <1>2, <1>3
<1>5. ret.hasNext \in BOOLEAN /\ (ret.hasNext <=> Ups(n)[1] \notin ended)
  BY <1>4 DEF FinalInv, EndsHold
<1>6. \A s : Settled(n, s, ended) <=> \E k \in DOMAIN Ups(n) : Ups(n)[k] \in ended
  BY <1>1 DEF Settled, Sources
<1> QED
  BY <1>1, <1>2, <1>5, <1>6

(* It may pass that answer on.                                             *)
LEMMA EndsForward ==
  ASSUME TypeOK, CallsNest, FinalInv, driver.pc = "next", stack # << >>, ctl = "ret",
         Kind(Top.node) \in {"filter", "map", "reduce"},
         NEW v, Return(Resumed.st, ret.hasNext, v)
  PROVE  FinalInv' /\ NewEnds
<1>1. PICK t, h : t = Resumed.st /\ h = ret.hasNext
  OBVIOUS
<1>2. h \in BOOLEAN /\ \A s : Settled(Top.node, s, ended) <=> ~ h
  BY <1>1, OneUpstream
<1>3. /\ IsState(t) /\ SameOutside(t, Top.st, Top.node)
      /\ \A m \in plan.nodes \ {Top.node} : t[m] = Cur[m]
  BY <1>1, ResumedIs DEF FinalInv
<1>4. Top.node \in ended => ~ h
  BY <1>2, TopIsOpen
<1>5. Return(t, h, v)
  BY <1>1
<1> QED
  BY <1>2, <1>3, <1>4, <1>5, EndsPop

(* The first call of a Next function.                                      *)
LEMMA EndsFirst ==
  ASSUME TypeOK, CallsNest, FinalInv, driver.pc = "next", stack # << >>,
         Kind(Top.node) \in {"filter", "map", "reduce", "zip"}, CallFirst
  PROVE  FinalInv' /\ NewEnds
<1>1. ctl = "call" /\ CallUpstream(Top, 1) /\ Resumed = Top
  BY DEF CallFirst, Resumed
<1>2. PICK f : f = Top
  OBVIOUS
<1>3. DOMAIN f = FrameFields /\ f.node = Top.node /\ f.fn = Top.fn /\ f.st = Resumed.st
  BY <1>1, <1>2, TopFacts
<1>4. 1 \in DOMAIN Ups(Top.node)
  BY TopFacts, KindFacts
<1>5. FrameEnd(f, ended) /\ f.up = 0
  BY <1>1, <1>2, TopIsOpen DEF CallsNest, Nesting
<1>6. Kind(Top.node) = "reduce" /\ f.inLoop => Top.node \notin ended
  BY <1>2, <1>5 DEF FrameEnd
<1>7. Kind(Top.node) = "zip" =>
        /\ f.hasNext \in BOOLEAN
        /\ f.hasNext <=> \A j \in 1 .. 1 - 1 : Ups(Top.node)[j] \notin ended
  <2>1. Kind(Top.node) = "zip" =>
          /\ f.hasNext \in BOOLEAN
          /\ f.hasNext <=> \A j \in 1 .. f.up - 1 : Ups(Top.node)[j] \notin ended
    BY <1>2, <1>5, Zenon DEF FrameEnd
  <2>2. (\A j \in 1 .. f.up - 1 : FALSE) /\ (\A j \in 1 .. 1 - 1 : FALSE)
    BY <1>5
  <2> QED
    BY <2>1, <2>2, Zenon
<1>8. CallUpstream(f, 1)
  BY <1>1, <1>2
<1> QED
  BY <1>3, <1>4, <1>6, <1>7, <1>8, EndsPush

(* The rest of the Next functions of filter, map and reduce.               *)
LEMMA EndsFilter ==
  ASSUME TypeOK, CallsNest, FinalInv, driver.pc = "next", FilterNext, ~ CallFirst
  PROVE  FinalInv' /\ NewEnds
<1>1. /\ stack # << >> /\ ctl = "ret" /\ Kind(Top.node) = "filter"
      /\ CallUpstream(Resumed, 1) \/ Return(Resumed.st, ret.hasNext, ret.element)
  BY DEF FilterNext, At
<1>2. CASE CallUpstream(Resumed, 1)
  <2>1. PICK f : f = Resumed
    OBVIOUS
  <2>2. DOMAIN f = FrameFields /\ f.node = Top.node /\ f.fn = Top.fn /\ f.st = Resumed.st
    BY <1>1, <2>1, TopFacts
  <2>3. 1 \in DOMAIN Ups(Top.node)
    BY <1>1, TopFacts, KindFacts
  <2>4. CallUpstream(f, 1)
    BY <1>2, <2>1
  <2>5. Kind(Top.node) # "reduce" /\ Kind(Top.node) # "zip"
    BY <1>1
  <2> QED
    BY <1>1, <2>2, <2>3, <2>4, <2>5, EndsPush
<1>3. CASE Return(Resumed.st, ret.hasNext, ret.element)
  BY <1>1, <1>3, EndsForward
<1> QED
  BY <1>1, <1>2, <1>3

LEMMA EndsMap ==
  ASSUME TypeOK, CallsNest, FinalInv, driver.pc = "next", MapNext, ~ CallFirst
  PROVE  FinalInv' /\ NewEnds
<1>1. stack # << >> /\ ctl = "ret" /\ Kind(Top.node) = "map"
  BY DEF MapNext, At
<1>2. PICK v : Return(Resumed.st, ret.hasNext, v)
  BY DEF MapNext
<1> QED
  BY <1>1, <1>2, EndsForward

LEMMA EndsReduce ==
  ASSUME TypeOK, CallsNest, FinalInv, driver.pc = "next", ReduceNext, ~ CallFirst
  PROVE  FinalInv' /\ NewEnds
<1>1. stack # << >> /\ ctl = "ret" /\ Kind(Top.node) = "reduce"
  BY DEF ReduceNext, At
<1>2. /\ ret.hasNext \in BOOLEAN /\ \A s : Settled(Top.node, s, ended) <=> ~ ret.hasNext
      /\ Top.node \in ended => Settled(Top.node, Cur, ended)
  BY <1>1, OneUpstream, TopIsOpen
<1>3. CASE ret.hasNext
  <2>1. PICK acc : CallUpstream([Resumed EXCEPT !.inLoop = TRUE, !.acc = acc], 1)
    BY <1>3 DEF ReduceNext
  <2>2. PICK r : r = Resumed
    OBVIOUS
  <2>3. PICK f : f = [r EXCEPT !.inLoop = TRUE, !.acc = acc]
    OBVIOUS
  <2>4. DOMAIN r = FrameFields /\ r.node = Top.node /\ r.fn = Top.fn
    BY <1>1, <2>2, TopFacts
  <2>5. DOMAIN f = FrameFields /\ f.node = Top.node /\ f.fn = Top.fn /\ f.st = r.st
    BY <2>3, <2>4 DEF FrameFields
  <2>6. CallUpstream(f, 1)
    BY <2>1, <2>2, <2>3
  <2>7. 1 \in DOMAIN Ups(Top.node)
    BY <1>1, TopFacts, KindFacts
  <2>8. Top.node \notin ended /\ Kind(Top.node) # "zip"
    BY <1>1, <1>2, <1>3
  <2> QED
    BY <1>1, <2>2, <2>5, <2>6, <2>7, <2>8, EndsPush
<1>4. CASE ~ ret.hasNext /\ Top.inLoop
  <2>1. Return(Resumed.st, TRUE, Top.acc)
    BY <1>4 DEF ReduceNext, CallFirst
  <2>2. Top.node \notin ended
    BY <1>1, <1>4, TopIsOpen DEF FrameEnd
  <2>3. PICK t : t = Resumed.st
    OBVIOUS
  <2>4. /\ IsState(t) /\ SameOutside(t, Top.st, Top.node)
        /\ \A m \in plan.nodes \ {Top.node} : t[m] = Cur[m]
    BY <1>1, <2>3, ResumedIs DEF FinalInv
  <2>5. Return(t, TRUE, Top.acc)
    BY <2>1, <2>3
  <2> QED
    BY <1>1, <2>2, <2>4, <2>5, EndsPop
<1>5. CASE ~ ret.hasNext /\ ~ Top.inLoop
  <2>1. Return(Resumed.st, FALSE, ret.element)
    BY <1>5 DEF ReduceNext, CallFirst
  <2>2. ret.hasNext = FALSE
    BY <1>2, <1>5
  <2>3. Return(Resumed.st, ret.hasNext, ret.element)
    BY <2>1, <2>2
  <2> QED
    BY <1>1, <2>3, EndsForward
<1> QED
  BY <1>3, <1>4, <1>5

LEMMA EndsZip ==
  ASSUME TypeOK, CallsNest, FinalInv, driver.pc = "next", ZipNext, ~ CallFirst
  PROVE  FinalInv' /\ NewEnds
<1>1. stack # << >> /\ ctl = "ret" /\ Kind(Top.node) = "zip"
  BY DEF ZipNext, At
<1>2. PICK n \in plan.nodes : n = Top.node
  BY <1>1, TopFacts
<1>3. PICK r, h, e : r = Resumed /\ h = (Resumed.hasNext /\ ret.hasNext)
                     /\ e = Append(Resumed.elements, ret.element)
  OBVIOUS
<1>4. PICK f : f = [r EXCEPT !.hasNext = h, !.elements = e]
  OBVIOUS
<1>5. /\ DOMAIN r = FrameFields /\ r.node = n /\ r.fn = Top.fn /\ r.up = Top.up
      /\ r.hasNext = Top.hasNext
  BY <1>1, <1>2, <1>3, TopFacts, ResumedIs DEF FinalInv
<1>6. /\ DOMAIN f = FrameFields /\ f.node = n /\ f.fn = Top.fn /\ f.up = Top.up
      /\ f.st = r.st /\ f.hasNext = h
  BY <1>4, <1>5 DEF FrameFields
<1>7. PICK l \in Nat : l = Len(Ups(n)) /\ DOMAIN Ups(n) = 1 .. l
  BY <1>1, <1>2, TopFacts
<1>8. PICK u \in 1 .. l : u = Top.up /\ Returned = Ups(n)[u]
  BY <1>1, <1>2, <1>7, ResumedIs DEF FinalInv
<1>9. /\ Top.hasNext \in BOOLEAN
      /\ Top.hasNext <=> \A j \in 1 .. u - 1 : Ups(n)[j] \notin ended
  <2>1. FrameEnd(Top, ended)
    BY <1>1, TopIsOpen
  <2> QED
    BY <1>1, <1>2, <1>8, <2>1, Zenon DEF FrameEnd
<1>10. ret.hasNext \in BOOLEAN /\ (ret.hasNext <=> Ups(n)[u] \notin ended)
  BY <1>1, <1>8 DEF FinalInv, EndsHold
<1>11. h \in BOOLEAN /\ (h <=> \A j \in 1 .. u : Ups(n)[j] \notin ended)
  <2>1. h \in BOOLEAN /\ (h <=> Top.hasNext /\ ret.hasNext)
    BY <1>3, <1>5, <1>9, <1>10
  <2>2. \A j \in 1 .. u : j \in 1 .. u - 1 \/ j = u
    OBVIOUS
  <2>3. u \in 1 .. u /\ \A j \in 1 .. u - 1 : j \in 1 .. u
    OBVIOUS
  <2> QED
    BY <1>9, <1>10, <2>1, <2>2, <2>3, Zenon
<1>12. IF f.up < Len(Ups(n)) THEN CallUpstream(f, f.up + 1)
                             ELSE Return(f.st, f.hasNext, f.elements)
  <2>1. f = [Resumed EXCEPT !.hasNext = @ /\ ret.hasNext, !.elements = Append(@, ret.element)]
    BY <1>3, <1>4
  <2> QED
    BY <1>2, <2>1 DEF ZipNext
<1>13. CASE u < l
  <2>1. PICK k \in 1 .. l : k = u + 1
    BY <1>13
  <2>2. CallUpstream(f, k)
    BY <1>6, <1>7, <1>8, <1>12, <1>13, <2>1
  <2>3. k - 1 = u
    BY <2>1
  <2>4. f.hasNext \in BOOLEAN /\ (f.hasNext <=> \A j \in 1 .. k - 1 : Ups(n)[j] \notin ended)
    BY <1>6, <1>11, <2>3, Zenon
  <2> QED
    BY <1>1, <1>2, <1>3, <1>6, <1>7, <2>2, <2>4, EndsPush
<1>14. CASE ~ (u < l)
  <2>1. u = l
    BY <1>14
  <2>2. Return(f.st, h, f.elements)
    BY <1>6, <1>7, <1>8, <1>12, <1>14
  <2>3. \A s : Settled(n, s, ended) <=> \E k \in DOMAIN Ups(n) : Ups(n)[k] \in ended
    BY <1>1, <1>2 DEF Settled, Sources
  <2>4. \A s : Settled(n, s, ended) <=> ~ h
    BY <1>7, <1>11, <2>1, <2>3, Zenon
  <2>5. PICK t : t = f.st
    OBVIOUS
  <2>6. /\ IsState(t) /\ SameOutside(t, Top.st, n)
        /\ \A m \in plan.nodes \ {n} : t[m] = Cur[m]
    BY <1>1, <1>2, <1>3, <1>6, <2>5, ResumedIs DEF FinalInv
  <2>7. n \in ended => ~ h
    BY <1>1, <1>2, <2>4, TopIsOpen
  <2>8. Return(t, h, f.elements)
    BY <2>2, <2>5
  <2> QED
    BY <1>1, <1>2, <1>11, <2>4, <2>6, <2>7, <2>8, EndsPop
<1> QED
  BY <1>13, <1>14

(* The passes of Open and Close calls.  Open makes a new stream of an      *)
(* iterator that is not open; Close has no effect on what has ended.       *)
LEMMA PassReturn ==
  ASSUME TypeOK, CallsNest, FinalInv, driver.pc # "next", stack # << >>,
         NEW s, NEW v, Return(s, FALSE, v), IsState(s), SameOutside(s, Top.st, Top.node)
  PROVE  FinalInv' /\ NewEnds
<1>1. Agree' /\ driver' = driver
  BY AgreePop, PopMore DEF FinalInv
<1>2. Top.fn = driver.pc
  <2>1. IsSeq(stack)
    BY DEF TypeOK, IsSeq
  <2>2. Len(stack) \in 1 .. Len(stack)
    BY <2>1, EmptyIffLen0 DEF IsSeq
  <2> QED
    BY <2>2 DEF CallsNest, Nesting, Top
<1>3. PICK n \in plan.nodes : n = Top.node
  BY TopFacts
<1>4. CASE driver.pc = "open"
  <2>1. /\ phase' = [phase EXCEPT ![n] = "open"] /\ got' = [got EXCEPT ![n] = 0]
        /\ ended' = ended \ {n}
    BY <1>2, <1>3, <1>4 DEF Return
  <2>2. Opening'
    BY <1>1, <1>4, <2>1 DEF TypeOK, Opening, FinalInv
  <2>3. NewEnds
    BY <2>1 DEF TypeOK, NewEnds
  <2> QED
    BY <1>1, <1>4, <2>2, <2>3 DEF FinalInv, EndsHold
<1>5. CASE driver.pc # "open"
  <2>1. got' = got
    BY <1>2, <1>5 DEF Return
  <2> QED
    BY <1>1, <1>5, <2>1 DEF FinalInv, EndsHold, Opening, NewEnds
<1> QED
  BY <1>4, <1>5

LEMMA PassVisit ==
  ASSUME TypeOK, CallsNest, FinalInv, driver.pc # "next", stack # << >>, VisitUpstreams
  PROVE  FinalInv' /\ NewEnds
<1>1. PICK f : f = Resumed
  OBVIOUS
<1>2. /\ DOMAIN f = FrameFields /\ f.node = Top.node /\ f.fn = Top.fn /\ f.up = Top.up
      /\ Top.up \in 0 .. Len(Ups(Top.node)) /\ Len(Ups(Top.node)) \in Nat
      /\ DOMAIN Ups(Top.node) = 1 .. Len(Ups(Top.node))
  BY <1>1, TopFacts
<1>3. CASE f.up < Len(Ups(Top.node))
  <2>1. PICK k \in DOMAIN Ups(Top.node) : k = f.up + 1
    BY <1>2, <1>3
  <2>2. CallUpstream(f, k)
    BY <1>1, <1>3, <2>1 DEF VisitUpstreams
  <2>3. Agree'
    BY <1>1, <1>2, <2>2, AgreePush DEF FinalInv
  <2>4. UNCHANGED <<driver, phase, got, ended>>
    BY <2>2 DEF CallUpstream
  <2> QED
    BY <2>3, <2>4 DEF FinalInv, Opening, EndsHold, NewEnds
<1>4. CASE ~ (f.up < Len(Ups(Top.node)))
  <2>1. PICK t : t = f.st
    OBVIOUS
  <2>2. Return(t, FALSE, Undef)
    BY <1>1, <1>4, <2>1 DEF VisitUpstreams
  <2>3. IsState(t) /\ SameOutside(t, Top.st, Top.node)
    BY <1>1, <2>1, ResumedIs DEF FinalInv
  <2> QED
    BY <2>2, <2>3, PassReturn
<1> QED
  BY <1>3, <1>4

(* The top frame runs the function of the pass that the statement is in.   *)
LEMMA TopRuns ==
  ASSUME TypeOK, CallsNest, stack # << >>
  PROVE  Top.fn = driver.pc
<1>1. IsSeq(stack)
  BY DEF TypeOK, IsSeq
<1>2. Len(stack) \in 1 .. Len(stack)
  BY <1>1, EmptyIffLen0 DEF IsSeq
<1> QED
  BY <1>2 DEF CallsNest, Nesting, Top

(* The steps of the sources.                                               *)
LEMMA EndsSource ==
  ASSUME TypeOK, CallsNest, FinalInv, SourceStep
  PROVE  FinalInv' /\ NewEnds
<1>1. stack # << >> /\ ctl = "call" /\ Kind(Top.node) \in Sources
  BY DEF SourceStep, ConstantStreamOpen, ConstantStreamNext, ConstantStreamClose,
         TabularViewOpen, TabularViewNext, TabularViewClose,
         ValueToStreamOpen, ValueToStreamNext, ValueToStreamClose,
         AtEntry, At, Sources
<1>2. Top.fn = driver.pc
  BY <1>1, TopRuns
<1>3. PICK n, q : n = Top.node /\ q = Top.st[Top.node]
  OBVIOUS
<1>4. /\ plan \in Plans /\ n \in plan.nodes /\ IsState(Top.st)
      /\ SameOutside(Top.st, Top.st, n)
      /\ DOMAIN q = Fields /\ q.hasReturned \in BOOLEAN
  BY <1>1, <1>3, EntryIs DEF FinalInv
<1>5. CASE ConstantStreamNext \/ TabularViewNext
  <2>1. /\ driver.pc = "next" /\ NextByIndex
        /\ Kind(Top.node) \in Sources \ {"value_to_stream"}
    BY <1>2, <1>5 DEF ConstantStreamNext, TabularViewNext, AtEntry, At, Sources
  <2> QED
    BY <1>1, <2>1, EndsByIndex
<1>6. CASE ValueToStreamNext
  <2>1. driver.pc = "next"
    BY <1>2, <1>6 DEF ValueToStreamNext, AtEntry, At
  <2> QED
    BY <1>6, <2>1, EndsByFlag
<1>7. CASE ConstantStreamOpen \/ TabularViewOpen \/ ValueToStreamOpen
  <2>1. PICK r : /\ r = [q EXCEPT !.currentIndex = 0] \/ r = [q EXCEPT !.hasReturned = FALSE]
                 /\ Return(SetField(Top.st, n, r), FALSE, Undef)
    BY <1>3, <1>7 DEF ConstantStreamOpen, TabularViewOpen, ValueToStreamOpen
  <2>2. driver.pc # "next"
    BY <1>2, <1>7 DEF ConstantStreamOpen, TabularViewOpen, ValueToStreamOpen, AtEntry, At
  <2>3. DOMAIN r = Fields /\ r.hasReturned \in BOOLEAN
    BY <1>4, <2>1 DEF Fields
  <2>4. PICK z, t : z = Top.st /\ t = SetField(z, n, r)
    OBVIOUS
  <2>5. IsState(t) /\ SameOutside(t, z, n)
    <3>1. IsState(z)
      BY <1>4, <2>4
    <3>2. t = SetField(z, n, r)
      BY <2>4
    <3> QED
      BY <1>4, <2>3, <3>1, <3>2, SetFieldIs
  <2>6. Return(t, FALSE, Undef)
    BY <2>1, <2>4
  <2>7. SameOutside(t, Top.st, Top.node)
    BY <1>3, <2>4, <2>5
  <2> QED
    BY <1>1, <2>2, <2>5, <2>6, <2>7, PassReturn
<1>8. CASE ConstantStreamClose \/ TabularViewClose \/ ValueToStreamClose
  <2>1. Return(Top.st, FALSE, Undef) /\ driver.pc # "next"
    BY <1>2, <1>8 DEF ConstantStreamClose, TabularViewClose, ValueToStreamClose, AtEntry, At
  <2> QED
    BY <1>1, <1>3, <1>4, <2>1, PassReturn
<1> QED
  BY <1>5, <1>6, <1>7, <1>8 DEF SourceStep

(* The steps of the ops with upstreams.                                    *)
LEMMA EndsOperator ==
  ASSUME TypeOK, CallsNest, FinalInv, OperatorStep
  PROVE  FinalInv' /\ NewEnds
<1>1. stack # << >> /\ Kind(Top.node) \in {"filter", "map", "reduce", "zip"}
  BY DEF OperatorStep, FilterOpen, FilterNext, FilterClose, MapOpen, MapNext, MapClose,
         ReduceOpen, ReduceNext, ReduceClose, ZipOpen, ZipNext, ZipClose, At
<1>2. Top.fn = driver.pc
  BY <1>1, TopRuns
<1>3. CASE FilterNext \/ MapNext \/ ReduceNext \/ ZipNext
  <2>1. driver.pc = "next"
    BY <1>2, <1>3 DEF FilterNext, MapNext, ReduceNext, ZipNext, At
  <2>2. CASE CallFirst
    BY <1>1, <2>1, <2>2, EndsFirst
  <2> QED
    BY <1>3, <2>1, <2>2, EndsFilter, EndsMap, EndsReduce, EndsZip
<1>4. CASE VisitUpstreams /\ driver.pc # "next"
  BY <1>1, <1>4, PassVisit
<1> QED
  BY <1>2, <1>3, <1>4
     DEF OperatorStep, FilterOpen, FilterClose, MapOpen, MapClose,
         ReduceOpen, ReduceClose, ZipOpen, ZipClose, At

(* A statement that calls a function of its input.                         *)
LEMMA EndsEnter ==
  ASSUME TypeOK, CallsNest, NEW fn \in {"open", "next", "close"}, NEW s, NEW value,
         CallInput(fn, s, value), IsState(s),
         fn = "open" => \A n \in ended : phase[n] # "open",
         fn = "next" => \A n \in ended : phase[n] = "open" => Settled(n, s, ended)
  PROVE  FinalInv' /\ NewEnds
<1>1. PICK f : f = Frame(Stmt.input, fn, s)
  OBVIOUS
<1>2. f.st = s /\ f.inLoop = FALSE /\ f.hasNext = TRUE /\ f.up = 0
  BY <1>1 DEF Frame
<1>3. /\ stack' = <<f>> /\ ctl' = "call" /\ driver'.pc = fn
      /\ UNCHANGED <<plan, line, ret, phase, got, ended>>
  BY <1>1 DEF CallInput
<1>4. Len(stack') = 1 /\ stack'[1] = f
  BY ONLY <1>3
<1>5. (Top)' = f /\ (Cur)' = s
  BY <1>2, <1>3, <1>4 DEF Top, Cur
<1>6. FrameEnd(f, ended)
  <2>1. \A j \in 1 .. f.up - 1 : FALSE
    BY <1>2
  <2> QED
    BY <1>2, <2>1, Zenon DEF FrameEnd
<1>7. Agree'
  <2>1. IsState(s)'
    BY <1>3 DEF IsState
  <2> QED
    BY <1>2, <1>3, <1>4, <2>1 DEF Agree, IsState
<1>8. Opening'
  BY <1>3 DEF Opening
<1>9. EndsHold'
  <2> SUFFICES ASSUME fn = "next"
               PROVE  /\ (\A n \in ended : phase[n] = "open" => Settled(n, Cur, ended))'
                      /\ (\A i \in 1 .. Len(stack) : FrameEnd(stack[i], ended))'
    BY <1>3 DEF EndsHold
  <2>1. (\A n \in ended : phase[n] = "open" => Settled(n, Cur, ended))'
    BY <1>3, <1>5 DEF Settled, Kind, Ups
  <2>2. (\A i \in 1 .. Len(stack) : FrameEnd(stack[i], ended))'
    BY <1>3, <1>4, <1>6 DEF FrameEnd, Kind, Ups
  <2> QED
    BY <2>1, <2>2
<1> QED
  BY <1>3, <1>7, <1>8, <1>9 DEF FinalInv, NewEnds

(* The states that StartStatement creates.                                 *)
LEMMA CreatedIs ==
  ASSUME plan \in Plans
  PROVE  IsState([n \in plan.nodes |-> StateCreation(n)])
<1>1. ASSUME NEW n \in plan.nodes
      PROVE  DOMAIN StateCreation(n) = Fields /\ StateCreation(n).hasReturned \in BOOLEAN
  BY DEF StateCreation, ConstantStreamState, TabularViewState, ValueToStreamState,
         NoFields, Fields
<1> QED
  BY <1>1 DEF IsState

LEMMA EndsStatement ==
  ASSUME TypeOK, CallsNest, FinalInv, StartStatement \/ SinkLoop \/ StreamToValue
  PROVE  FinalInv' /\ NewEnds
<1>1. CASE StartStatement
  <2>1. PICK s : s = [n \in plan.nodes |-> StateCreation(n)]
    OBVIOUS
  <2>2. ctl = "stmt" /\ CallInput("open", s, << >>)
    BY <1>1, <2>1 DEF StartStatement
  <2>3. IsState(s)
    BY <2>1, CreatedIs DEF TypeOK
  <2>4. \A n \in ended : phase[n] # "open"
    BY <2>2 DEF TypeOK, CallsNest, Visited
  <2> QED
    BY <2>2, <2>3, <2>4, EndsEnter
<1>2. CASE SinkLoop \/ StreamToValue
  <2>1. ctl = "ret" /\ stack = << >> /\ driver.pc \in {"open", "next", "close"}
    BY <1>2 DEF SinkLoop, StreamToValue, Back
  <2>2. IsState(ret.st) /\ Cur = ret.st
    BY <2>1 DEF FinalInv, Agree, Cur
  <2>3. PICK s : s = ret.st
    OBVIOUS
  <2>4. \/ \E value : CallInput("close", s, value)
        \/ driver.pc \in {"open", "next"} /\ \E value : CallInput("next", s, value)
        \/ EndStatement
    BY <1>2, <2>3 DEF SinkLoop, StreamToValue, Back
  <2>5. ASSUME NEW value, CallInput("close", s, value)
        PROVE  FinalInv' /\ NewEnds
    BY <2>2, <2>3, <2>5, EndsEnter
  <2>6. ASSUME NEW value, CallInput("next", s, value), driver.pc \in {"open", "next"}
        PROVE  FinalInv' /\ NewEnds
    <3>1. \A n \in ended : phase[n] = "open" => Settled(n, s, ended)
      BY <2>2, <2>3, <2>6 DEF FinalInv, Opening, EndsHold
    <3> QED
      BY <2>2, <2>3, <2>6, <3>1, EndsEnter
  <2>7. CASE EndStatement
    <3>1. /\ ctl' = "stmt" /\ driver'.pc = "idle"
          /\ UNCHANGED <<plan, stack, ret, phase, got, ended>>
      BY <2>7 DEF EndStatement
    <3>2. Len(stack) = 0
      BY <2>1, EmptyIffLen0 DEF TypeOK, IsSeq
    <3> QED
      BY <3>1, <3>2 DEF FinalInv, Agree, Opening, EndsHold, NewEnds
  <2> QED
    BY <2>4, <2>5, <2>6, <2>7
<1> QED
  BY <1>1, <1>2

LEMMA FinalStep ==
  ASSUME TypeOK, CallsNest, FinalInv, [Next]_vars
  PROVE  FinalInv' /\ [NewEnds]_vars
<1>1. CASE UNCHANGED vars
  <2>1. /\ plan' = plan /\ line' = line /\ driver' = driver /\ stack' = stack
        /\ ctl' = ctl /\ ret' = ret /\ phase' = phase
        /\ got' = got /\ ended' = ended
    BY <1>1 DEF vars
  <2>2. Agree'
    BY <2>1 DEF FinalInv, Agree, IsState, SameOutside, Called, Top, Ups, Below
  <2>3. Opening'
    BY <2>1 DEF FinalInv, Opening
  <2>4. (Cur)' = Cur /\ (Returned)' = Returned
    BY <2>1 DEF Cur, Returned, Called, Top, Ups, Stmt
  <2>5. EndsHold'
    BY <2>1, <2>4 DEF FinalInv, EndsHold, Settled, FrameEnd, Kind, Ups
  <2> QED
    BY <1>1, <2>2, <2>3, <2>5 DEF FinalInv
<1>2. CASE Terminated
  BY <1>1, <1>2 DEF Terminated
<1> QED
  BY <1>1, <1>2, EndsSource, EndsOperator, EndsStatement DEF Next

(* The invariant behind it: the newest states of all iterators are in one  *)
(* place, and an iterator that has ended is at its end in them.            *)
THEOREM FinalAlways == Spec => [](TypeOK /\ CallsNest /\ FinalInv)
<1>1. Init => FinalInv
  <2> SUFFICES ASSUME Init PROVE FinalInv
    OBVIOUS
  <2>1. stack = << >> /\ Len(stack) = 0 /\ ctl = "stmt" /\ driver.pc = "idle"
    BY DEF Init
  <2> QED
    BY <2>1 DEF FinalInv, Agree, Opening, EndsHold
<1>2. TypeOK /\ CallsNest /\ FinalInv /\ [Next]_vars => FinalInv'
  BY FinalStep
<1> QED
  BY <1>1, <1>2, Inductive, PTL DEF Spec

(* Whatever the plan and the functions it refers to, an iterator that has  *)
(* answered Next with no element returns none before it is opened again,   *)
(* so a reduce may call its upstream once more after the end.              *)
THEOREM EndIsFinalAlways == Spec => EndIsFinal
<1>1. TypeOK /\ CallsNest /\ FinalInv /\ [Next]_vars => [NewEnds]_vars
  BY FinalStep
<1> QED
  BY <1>1, FinalAlways, PTL DEF Spec, EndIsFinal, NewEnds

-----------------------------------------------------------------------------
(* A set of numbers that is not empty has a least element.                 *)
LEMMA Least ==
  ASSUME NEW T \in SUBSET Nat, T # {}
  PROVE  \E x \in T : \A y \in T : x <= y
<1> DEFINE R == {ss \in Nat \X Nat : ss[1] < ss[2]}
<1>1. IsWellFoundedOn(R, Nat)
  BY NatLessThanWellFounded DEF OpToRel
<1>2. PICK x \in T : \A y \in T : ~ (<<y, x>> \in R)
  <2> HIDE DEF R
  <2> QED
    BY <1>1, WFMin
<1>3. \A y \in T : ~ (y < x)
  BY <1>2
<1> QED
  BY <1>3

-----------------------------------------------------------------------------
(* The streams: the recursive definitions of StreamSemantics unfold.       *)

LEMMA MatchingUnfold ==
  ASSUME NEW f, NEW s, NEW l \in Nat, l = Len(s)
  PROVE  /\ DOMAIN MatchingUpTo(f, s) = 0 .. l
         /\ MatchingUpTo(f, s)[0] = << >>
         /\ \A i \in 1 .. l : MatchingUpTo(f, s)[i] =
              IF Predicate(f, s[i]) THEN Append(MatchingUpTo(f, s)[i - 1], s[i])
                                    ELSE MatchingUpTo(f, s)[i - 1]
<1> DEFINE Body(g, i) ==
             IF i = 0 THEN << >>
             ELSE IF Predicate(f, s[i]) THEN Append(g[i - 1], s[i]) ELSE g[i - 1]
           Is(g, k) == g = [i \in 0 .. k |-> Body(g, i)]
           T == {k \in 0 .. l : ~ \E g : Is(g, k)}
<1>1. T = {}
  <2> SUFFICES ASSUME T # {} PROVE FALSE
    OBVIOUS
  <2>1. PICK k \in T : \A j \in T : k <= j
    <3>1. T \in SUBSET Nat
      OBVIOUS
    <3> HIDE DEF T
    <3> QED
      BY <3>1, Least
  <2>2. k \in 0 .. l /\ ~ \E g : Is(g, k)
    OBVIOUS
  <2>3. CASE k = 0
    <3>1. PICK g : g = [i \in 0 .. 0 |-> << >>]
      OBVIOUS
    <3>2. g = [i \in 0 .. 0 |-> Body(g, i)]
      BY <3>1
    <3> QED
      BY <2>2, <2>3, <3>2
  <2>4. CASE k # 0
    <3>1. k - 1 \in 0 .. l /\ ~ (k <= k - 1)
      BY <2>2, <2>4
    <3>2. k - 1 \notin T
      BY <2>1, <3>1
    <3>3. PICK g : Is(g, k - 1)
      BY <3>1, <3>2
    <3>4. PICK h : h = [i \in 0 .. k |-> IF i < k THEN g[i] ELSE Body(g, k)]
      OBVIOUS
    <3>5. \A i \in 0 .. k - 1 : h[i] = g[i] /\ g[i] = Body(g, i)
      <4> HIDE DEF Body
      <4>1. \A i \in 0 .. k - 1 : g[i] = Body(g, i)
        BY <3>3
      <4>2. \A i \in 0 .. k - 1 : i \in 0 .. k /\ i < k
        BY <2>2
      <4>3. \A i \in 0 .. k - 1 : h[i] = g[i]
        BY <3>4, <4>2
      <4> QED
        BY <4>1, <4>3
    <3>6. \A i \in 0 .. k : h[i] = Body(h, i)
      <4> SUFFICES ASSUME NEW i \in 0 .. k PROVE h[i] = Body(h, i)
        OBVIOUS
      <4>1. i = 0 \/ h[i - 1] = g[i - 1]
        BY <2>2, <3>5
      <4>2. Body(h, i) = Body(g, i)
        BY <4>1
      <4>3. CASE i < k
        BY <2>2, <3>5, <4>2, <4>3
      <4>4. CASE i = k
        BY <2>2, <3>4, <4>2, <4>4
      <4> QED
        BY <2>2, <4>3, <4>4
    <3>7. Is(h, k)
      BY <3>4, <3>6
    <3> QED
      BY <2>2, <3>7
  <2> QED
    BY <2>3, <2>4
<1>2. \E g : Is(g, l)
  BY <1>1
<1>3. MatchingUpTo(f, s) = CHOOSE g : Is(g, l)
  BY DEF MatchingUpTo
<1>4. Is(MatchingUpTo(f, s), l)
  <2> HIDE DEF Is
  <2> QED
    BY <1>2, <1>3
<1>5. PICK m : m = MatchingUpTo(f, s)
  OBVIOUS
<1>6. m = [i \in 0 .. l |-> Body(m, i)]
  BY <1>4, <1>5
<1>7. DOMAIN m = 0 .. l /\ \A i \in 0 .. l : m[i] = Body(m, i)
  <2> HIDE DEF Body
  <2> QED
    BY <1>6
<1>8. DOMAIN m = 0 .. l /\ m[0] = << >>
  BY <1>7
<1>9. ASSUME NEW i \in 1 .. l
      PROVE  m[i] = IF Predicate(f, s[i]) THEN Append(m[i - 1], s[i]) ELSE m[i - 1]
  <2>1. i \in 0 .. l /\ i # 0
    OBVIOUS
  <2> QED
    BY <1>7, <2>1
<1> QED
  BY <1>5, <1>8, <1>9

LEMMA ReducedUnfold ==
  ASSUME NEW f, NEW s, NEW l \in Nat, l = Len(s)
  PROVE  /\ l > 0 => ReducedUpTo(f, s)[1] = s[1]
         /\ \A i \in 2 .. l :
              ReducedUpTo(f, s)[i] = ReduceFunc(f, ReducedUpTo(f, s)[i - 1], s[i])
<1> DEFINE Body(g, i) == IF i = 1 THEN s[1] ELSE ReduceFunc(f, g[i - 1], s[i])
           Is(g, k) == g = [i \in 1 .. k |-> Body(g, i)]
           T == {k \in 0 .. l : ~ \E g : Is(g, k)}
<1>1. T = {}
  <2> SUFFICES ASSUME T # {} PROVE FALSE
    OBVIOUS
  <2>1. PICK k \in T : \A j \in T : k <= j
    <3>1. T \in SUBSET Nat
      OBVIOUS
    <3> HIDE DEF T
    <3> QED
      BY <3>1, Least
  <2>2. k \in 0 .. l /\ ~ \E g : Is(g, k)
    OBVIOUS
  <2>3. CASE k = 0
    <3>1. PICK g : g = [i \in 1 .. 0 |-> 0]
      OBVIOUS
    <3>2. g = [i \in 1 .. 0 |-> Body(g, i)]
      BY <3>1
    <3> QED
      BY <2>2, <2>3, <3>2
  <2>4. CASE k # 0
    <3>1. k - 1 \in 0 .. l /\ ~ (k <= k - 1)
      BY <2>2, <2>4
    <3>2. k - 1 \notin T
      BY <2>1, <3>1
    <3>3. PICK g : Is(g, k - 1)
      BY <3>1, <3>2
    <3>4. PICK h : h = [i \in 1 .. k |-> IF i < k THEN g[i] ELSE Body(g, k)]
      OBVIOUS
    <3>5. \A i \in 1 .. k - 1 : h[i] = g[i] /\ g[i] = Body(g, i)
      <4> HIDE DEF Body
      <4>1. \A i \in 1 .. k - 1 : g[i] = Body(g, i)
        BY <3>3
      <4>2. \A i \in 1 .. k - 1 : i \in 1 .. k /\ i < k
        BY <2>2
      <4>3. \A i \in 1 .. k - 1 : h[i] = g[i]
        BY <3>4, <4>2
      <4> QED
        BY <4>1, <4>3
    <3>6. \A i \in 1 .. k : h[i] = Body(h, i)
      <4> SUFFICES ASSUME NEW i \in 1 .. k PROVE h[i] = Body(h, i)
        OBVIOUS
      <4>1. i = 1 \/ h[i - 1] = g[i - 1]
        BY <2>2, <3>5
      <4>2. Body(h, i) = Body(g, i)
        BY <4>1
      <4>3. CASE i < k
        BY <2>2, <3>5, <4>2, <4>3
      <4>4. CASE i = k
        BY <2>2, <3>4, <4>2, <4>4
      <4> QED
        BY <2>2, <4>3, <4>4
    <3>7. Is(h, k)
      BY <3>4, <3>6
    <3> QED
      BY <2>2, <3>7
  <2> QED
    BY <2>3, <2>4
<1>2. \E g : Is(g, l)
  BY <1>1
<1>3. ReducedUpTo(f, s) = CHOOSE g : Is(g, l)
  BY DEF ReducedUpTo
<1>4. Is(ReducedUpTo(f, s), l)
  <2> HIDE DEF Is
  <2> QED
    BY <1>2, <1>3
<1>5. PICK m : m = ReducedUpTo(f, s)
  OBVIOUS
<1>6. m = [i \in 1 .. l |-> Body(m, i)]
  BY <1>4, <1>5
<1>7. \A i \in 1 .. l : m[i] = Body(m, i)
  <2> HIDE DEF Body
  <2> QED
    BY <1>6
<1>8. l > 0 => m[1] = s[1]
  BY <1>7
<1>9. ASSUME NEW i \in 2 .. l
      PROVE  m[i] = ReduceFunc(f, m[i - 1], s[i])
  <2>1. i \in 1 .. l /\ i # 1
    OBVIOUS
  <2> QED
    BY <1>7, <2>1
<1> QED
  BY <1>5, <1>8, <1>9

(* What has been selected so far is a beginning of what will be.           *)
MatchesGrow(f, s, m) ==
  /\ \A i \in 0 .. Len(s) : IsSeq(m[i])
  /\ \A i \in 0 .. Len(s) : \A k \in i .. Len(s) :
       /\ Len(m[i]) <= Len(m[k])
       /\ \A j \in 1 .. Len(m[i]) : m[k][j] = m[i][j]
  /\ \A i \in 1 .. Len(s) : Predicate(f, s[i]) =>
       Len(m[i]) = Len(m[i - 1]) + 1 /\ m[i][Len(m[i])] = s[i]
  /\ \A i \in 1 .. Len(s) : ~ Predicate(f, s[i]) => m[i] = m[i - 1]
  /\ m[0] = << >> /\ Len(m[0]) = 0

LEMMA MatchingFacts ==
  ASSUME NEW f, NEW s, IsSeq(s), NEW m, m = MatchingUpTo(f, s)
  PROVE  MatchesGrow(f, s, m)
<1>1. PICK l \in Nat : l = Len(s)
  BY DEF IsSeq
<1>2. PICK S : S = {s[i] : i \in 1 .. l}
  OBVIOUS
<1>3. /\ m[0] = << >>
      /\ \A i \in 1 .. l : m[i] = IF Predicate(f, s[i]) THEN Append(m[i - 1], s[i]) ELSE m[i - 1]
  BY <1>1, MatchingUnfold
<1>4. \A i \in 1 .. l : s[i] \in S /\ i - 1 \in 0 .. l
  BY <1>2
<1>5. \A i \in 0 .. l : m[i] \in Seq(S)
  <2> DEFINE T == {i \in 0 .. l : m[i] \notin Seq(S)}
  <2> SUFFICES ASSUME T # {} PROVE FALSE
    OBVIOUS
  <2>1. PICK k \in T : \A j \in T : k <= j
    <3>1. T \in SUBSET Nat
      OBVIOUS
    <3> HIDE DEF T
    <3> QED
      BY <3>1, Least
  <2>2. k \in 1 .. l /\ m[k] \notin Seq(S)
    <3>1. k \in 0 .. l /\ m[k] \notin Seq(S)
      OBVIOUS
    <3>2. << >> \in Seq(S)
      OBVIOUS
    <3>3. k # 0
      BY <1>3, <3>1, <3>2
    <3> HIDE DEF T
    <3> QED
      BY <3>1, <3>3
  <2>3. k - 1 \notin T /\ k - 1 \in 0 .. l
    BY <2>1, <2>2
  <2>4. m[k - 1] \in Seq(S)
    BY <2>3
  <2>5. PICK x, y, z : x = m[k - 1] /\ y = s[k] /\ z = m[k]
    OBVIOUS
  <2>6. z = Append(x, y) \/ z = x
    <3> HIDE DEF T
    <3> QED
      BY <1>3, <2>2, <2>5
  <2>7. x \in Seq(S) /\ y \in S /\ z \notin Seq(S)
    <3> HIDE DEF T
    <3> QED
      BY <1>4, <2>2, <2>4, <2>5
  <2> QED
    BY ONLY <2>6, <2>7
<1>6. ASSUME NEW i \in 1 .. l
      PROVE  /\ Len(m[i - 1]) <= Len(m[i])
             /\ \A j \in 1 .. Len(m[i - 1]) : m[i][j] = m[i - 1][j]
             /\ Predicate(f, s[i]) => Len(m[i]) = Len(m[i - 1]) + 1 /\ m[i][Len(m[i])] = s[i]
             /\ ~ Predicate(f, s[i]) => m[i] = m[i - 1]
  <2>1. PICK x \in Seq(S), y \in S : x = m[i - 1] /\ y = s[i]
    BY <1>4, <1>5
  <2>2. /\ Len(Append(x, y)) = Len(x) + 1 /\ Append(x, y)[Len(x) + 1] = y
        /\ \A j \in 1 .. Len(x) : Append(x, y)[j] = x[j]
    OBVIOUS
  <2>3. CASE Predicate(f, s[i])
    <3>1. PICK z : z = Append(x, y)
      OBVIOUS
    <3>2. m[i] = z
      BY <1>3, <2>1, <2>3, <3>1
    <3>3. Len(x) \in Nat
      OBVIOUS
    <3> QED
      BY <2>1, <2>2, <2>3, <3>1, <3>2, <3>3
  <2>4. CASE ~ Predicate(f, s[i])
    <3>1. m[i] = x /\ Len(x) \in Nat
      BY <1>3, <2>1, <2>4
    <3> QED
      BY <2>1, <2>4, <3>1
  <2> QED
    BY <2>3, <2>4
<1>7. ASSUME NEW i \in 0 .. l
      PROVE  \A k \in i .. l : /\ Len(m[i]) <= Len(m[k])
                               /\ \A j \in 1 .. Len(m[i]) : m[k][j] = m[i][j]
  <2> DEFINE OK(k) == Len(m[i]) <= Len(m[k]) /\ \A j \in 1 .. Len(m[i]) : m[k][j] = m[i][j]
             T == {k \in i .. l : ~ OK(k)}
  <2> SUFFICES ASSUME T # {} PROVE FALSE
    OBVIOUS
  <2>1. PICK k \in T : \A j \in T : k <= j
    <3>1. T \in SUBSET Nat
      OBVIOUS
    <3> HIDE DEF T
    <3> QED
      BY <3>1, Least
  <2>2. k \in i .. l /\ ~ OK(k)
    OBVIOUS
  <2>3. \A j \in 0 .. l : Len(m[j]) \in Nat
    BY <1>5
  <2>4. OK(i)
    BY <2>3
  <2>5. k # i
    BY <2>2, <2>4
  <2>6. k - 1 \in i .. l /\ k \in 1 .. l /\ k - 1 \in 0 .. l /\ ~ (k <= k - 1)
    BY <2>2, <2>5
  <2>7. k - 1 \notin T
    BY <2>1, <2>6
  <2>8. OK(k - 1)
    BY <2>6, <2>7
  <2>9. OK(k)
    BY <1>6, <2>3, <2>6, <2>8
  <2> QED
    BY <2>2, <2>9
<1>8. \A i \in 0 .. l : IsSeq(m[i])
  BY <1>5, SeqIsSeq
<1>9. Len(m[0]) = 0
  BY <1>3
<1> QED
  BY <1>1, <1>3, <1>6, <1>7, <1>8, <1>9 DEF MatchesGrow

(* The shortest of several streams.                                        *)
LEMMA ShortestFacts ==
  ASSUME NEW streams, NEW l \in Nat, l > 0, DOMAIN streams = 1 .. l,
         \A k \in 1 .. l : Len(streams[k]) \in Nat
  PROVE  /\ Shortest(streams) \in Nat
         /\ \A k \in 1 .. l : Shortest(streams) <= Len(streams[k])
         /\ \E k \in 1 .. l : Shortest(streams) = Len(streams[k])
<1>1. PICK T : T = {Len(streams[k]) : k \in 1 .. l}
  OBVIOUS
<1>2. T \in SUBSET Nat /\ T # {}
  <2>1. 1 \in 1 .. l
    OBVIOUS
  <2> QED
    BY <1>1, <2>1
<1>3. \E x \in T : \A y \in T : x <= y
  BY <1>2, Least
<1>4. \E x \in T : \A k \in DOMAIN streams : x <= Len(streams[k])
  BY <1>1, <1>3
<1>5. Shortest(streams) = CHOOSE x \in T : \A k \in DOMAIN streams : x <= Len(streams[k])
  BY <1>1 DEF Shortest
<1>6. Shortest(streams) \in T /\ \A k \in DOMAIN streams : Shortest(streams) <= Len(streams[k])
  BY <1>4, <1>5
<1> QED
  BY <1>1, <1>2, <1>6

-----------------------------------------------------------------------------
(* The streams of a plan.                                                  *)

LEMMA StreamOfNodeSame ==
  ASSUME NEW p, PlanOK(p), NEW n \in p.nodes, NEW g, NEW h,
         \A k \in DOMAIN p.ups[n] : g[p.ups[n][k]] = h[p.ups[n][k]]
  PROVE  StreamOfNode(p, g, n) = StreamOfNode(p, h, n)
<1>1. TreeOK(p, n) /\ OpOK(p, n) /\ p.kind[n] \in Kinds
  BY DEF PlanOK
<1>2. PICK l \in Nat : l = Len(p.ups[n]) /\ DOMAIN p.ups[n] = 1 .. l
  BY <1>1 DEF TreeOK
<1>3. CASE p.kind[n] \in {"filter", "map", "reduce"}
  <2>1. 1 \in DOMAIN p.ups[n]
    <3>1. Len(p.ups[n]) = 1
      BY <1>1, <1>3, Zenon DEF OpOK
    <3> QED
      BY <1>2, <3>1
  <2>2. g[p.ups[n][1]] = h[p.ups[n][1]]
    BY <2>1
  <2>3. PICK x : x = g[p.ups[n][1]]
    OBVIOUS
  <2>4. x = h[p.ups[n][1]]
    BY <2>2, <2>3
  <2> QED
    BY <1>3, <2>3, <2>4, Zenon DEF StreamOfNode
<1>4. CASE p.kind[n] = "zip"
  <2>1. [k \in DOMAIN p.ups[n] |-> g[p.ups[n][k]]] = [k \in DOMAIN p.ups[n] |-> h[p.ups[n][k]]]
    OBVIOUS
  <2>2. PICK x : x = [k \in DOMAIN p.ups[n] |-> g[p.ups[n][k]]]
    OBVIOUS
  <2>3. StreamOfNode(p, g, n) = Zipped(x) /\ StreamOfNode(p, h, n) = Zipped(x)
    BY <1>4, <2>1, <2>2 DEF StreamOfNode
  <2> QED
    BY <2>3
<1>5. CASE p.kind[n] \in Sources
  BY <1>5 DEF StreamOfNode, Sources
<1> QED
  BY <1>1, <1>3, <1>4, <1>5 DEF Kinds, Sources

LEMMA StreamUnfold ==
  ASSUME NEW p, PlanOK(p), NEW n \in p.nodes
  PROVE  Streams(p)[n] = StreamOfNode(p, Streams(p), n)
<1>1. PICK l \in Nat : l = Len(p.kind) /\ p.nodes = 1 .. l
  BY DEF PlanOK
<1> DEFINE Body(g, i) == StreamOfNode(p, g, i)
           Is(g, k) == g = [i \in 1 .. k |-> Body(g, i)]
           T == {k \in 0 .. l : ~ \E g : Is(g, k)}
<1>2. ASSUME NEW g, NEW h, NEW k \in 1 .. l, \A i \in 1 .. k - 1 : g[i] = h[i]
      PROVE  Body(g, k) = Body(h, k)
  <2>1. k \in p.nodes
    BY <1>1
  <2>2. TreeOK(p, k)
    BY <2>1 DEF PlanOK
  <2>3. \A j \in DOMAIN p.ups[k] : p.ups[k][j] \in 1 .. l /\ p.ups[k][j] < k
    BY <1>1, <2>2 DEF TreeOK
  <2>4. \A j \in DOMAIN p.ups[k] : p.ups[k][j] \in 1 .. k - 1
    BY <1>1, <2>3
  <2>5. \A j \in DOMAIN p.ups[k] : g[p.ups[k][j]] = h[p.ups[k][j]]
    BY <1>2, <2>4
  <2> QED
    BY <2>1, <2>5, StreamOfNodeSame
<1>3. T = {}
  <2> SUFFICES ASSUME T # {} PROVE FALSE
    OBVIOUS
  <2>1. PICK k \in T : \A j \in T : k <= j
    <3>1. T \in SUBSET Nat
      OBVIOUS
    <3> HIDE DEF T
    <3> QED
      BY <3>1, Least
  <2>2. k \in 0 .. l /\ ~ \E g : Is(g, k)
    OBVIOUS
  <2>3. CASE k = 0
    <3>1. PICK g : g = [i \in 1 .. 0 |-> 0]
      OBVIOUS
    <3>2. g = [i \in 1 .. 0 |-> Body(g, i)]
      BY <3>1
    <3> QED
      BY <2>2, <2>3, <3>2
  <2>4. CASE k # 0
    <3>1. k - 1 \in 0 .. l /\ ~ (k <= k - 1)
      BY <1>1, <2>2, <2>4
    <3>2. k - 1 \notin T
      BY <2>1, <3>1
    <3>3. PICK g : Is(g, k - 1)
      BY <3>1, <3>2
    <3>4. PICK h : h = [i \in 1 .. k |-> IF i < k THEN g[i] ELSE Body(g, k)]
      OBVIOUS
    <3>5. \A i \in 1 .. k - 1 : h[i] = g[i] /\ g[i] = Body(g, i)
      <4> HIDE DEF Body
      <4>1. \A i \in 1 .. k - 1 : g[i] = Body(g, i)
        BY <3>3
      <4>2. \A i \in 1 .. k - 1 : i \in 1 .. k /\ i < k
        BY <2>2
      <4>3. \A i \in 1 .. k - 1 : h[i] = g[i]
        BY <3>4, <4>2
      <4> QED
        BY <4>1, <4>3
    <3>6. \A i \in 1 .. k : h[i] = Body(h, i)
      <4> SUFFICES ASSUME NEW i \in 1 .. k PROVE h[i] = Body(h, i)
        OBVIOUS
      <4> HIDE DEF Body
      <4>1. i \in 1 .. l /\ \A j \in 1 .. i - 1 : j \in 1 .. k - 1
        BY <1>1, <2>2
      <4>2. \A j \in 1 .. i - 1 : g[j] = h[j]
        BY <3>5, <4>1
      <4>3. Body(g, i) = Body(h, i)
        BY <1>2, <4>1, <4>2
      <4>4. CASE i < k
        <5>1. i \in 1 .. k - 1
          BY <2>2, <4>4
        <5> QED
          BY <3>5, <4>3, <5>1
      <4>5. CASE i = k
        <5>1. k \in 1 .. k /\ ~ (k < k)
          BY <1>1, <2>2, <2>4
        <5>2. h[k] = Body(g, k)
          BY <3>4, <5>1
        <5> QED
          BY <4>3, <4>5, <5>2
      <4> QED
        BY <2>2, <4>4, <4>5
    <3>7. Is(h, k)
      BY <3>4, <3>6
    <3> QED
      BY <2>2, <3>7
  <2> QED
    BY <2>3, <2>4
<1>4. \E g : Is(g, l)
  BY <1>1, <1>3
<1>5. Streams(p) = CHOOSE g : Is(g, l)
  BY <1>1 DEF Streams
<1>6. Is(Streams(p), l)
  <2> HIDE DEF Is
  <2> QED
    BY <1>4, <1>5
<1>7. PICK g : g = Streams(p)
  OBVIOUS
<1>8. g = [i \in 1 .. l |-> Body(g, i)]
  BY <1>6, <1>7
<1>9. g[n] = Body(g, n)
  <2> HIDE DEF Body
  <2> QED
    BY <1>1, <1>8
<1> QED
  BY <1>7, <1>9

(* Every stream is a sequence.                                             *)
LEMMA StreamIsSeq ==
  ASSUME NEW p, PlanOK(p), NEW n \in p.nodes
  PROVE  IsSeq(Streams(p)[n])
<1>1. PICK l \in Nat : l = Len(p.kind) /\ p.nodes = 1 .. l
  BY DEF PlanOK
<1>2. PICK g : g = Streams(p)
  OBVIOUS
<1> DEFINE T == {i \in 1 .. l : ~ IsSeq(g[i])}
<1> SUFFICES ASSUME T # {} PROVE FALSE
  BY <1>1, <1>2
<1>3. PICK i \in T : \A j \in T : i <= j
  <2>1. T \in SUBSET Nat
    OBVIOUS
  <2> HIDE DEF T
  <2> QED
    BY <2>1, Least
<1>4. i \in 1 .. l /\ ~ IsSeq(g[i])
  OBVIOUS
<1>5. TreeOK(p, i) /\ OpOK(p, i) /\ p.kind[i] \in Kinds /\ i \in p.nodes
  BY <1>1, <1>4 DEF PlanOK
<1>6. PICK d \in Nat : d = Len(p.ups[i]) /\ DOMAIN p.ups[i] = 1 .. d
  BY <1>5 DEF TreeOK
<1>7. \A k \in 1 .. d : IsSeq(g[p.ups[i][k]])
  <2> SUFFICES ASSUME NEW k \in 1 .. d PROVE IsSeq(g[p.ups[i][k]])
    OBVIOUS
  <2>1. p.ups[i][k] \in 1 .. l /\ p.ups[i][k] < i
    BY <1>1, <1>5, <1>6 DEF TreeOK
  <2>2. p.ups[i][k] \notin T
    <3>1. PICK u \in 1 .. l : u = p.ups[i][k]
      BY <2>1
    <3>2. ~ (i <= u)
      BY <1>1, <1>4, <2>1, <3>1
    <3> HIDE DEF T
    <3> QED
      BY <1>3, <3>1, <3>2
  <2> QED
    BY <2>1, <2>2
<1>8. g[i] = StreamOfNode(p, g, i)
  BY <1>2, <1>5, StreamUnfold
<1>9. CASE p.kind[i] \in {"filter", "map", "reduce"}
  <2>1. 1 \in 1 .. d
    <3>1. Len(p.ups[i]) = 1
      BY <1>5, <1>9, Zenon DEF OpOK
    <3> QED
      BY <1>6, <3>1
  <2>2. PICK s : s = g[p.ups[i][1]]
    OBVIOUS
  <2>3. IsSeq(s) /\ Len(s) \in Nat
    BY <1>7, <2>1, <2>2 DEF IsSeq
  <2>4. CASE p.kind[i] = "filter"
    <3>1. g[i] = MatchingUpTo(p.func[i], s)[Len(s)]
      BY <1>8, <2>2, <2>4 DEF StreamOfNode, Matching
    <3>2. Len(s) \in 0 .. Len(s)
      BY <2>3
    <3>3. IsSeq(MatchingUpTo(p.func[i], s)[Len(s)])
      BY <2>3, <3>2, MatchingFacts DEF MatchesGrow
    <3> QED
      BY <1>4, <3>1, <3>3
  <2>5. CASE p.kind[i] = "map"
    <3>1. PICK e : e = [j \in 1 .. Len(s) |-> MapFunc(p.func[i], s[j])]
      OBVIOUS
    <3>2. g[i] = e
      BY <1>8, <2>2, <2>5, <3>1 DEF StreamOfNode
    <3>3. PICK S : S = {MapFunc(p.func[i], s[j]) : j \in 1 .. Len(s)}
      OBVIOUS
    <3>4. e \in [1 .. Len(s) -> S]
      BY <3>1, <3>3
    <3>5. e \in Seq(S)
      BY <2>3, <3>4
    <3> QED
      BY <1>4, <3>2, <3>5, SeqIsSeq
  <2>6. CASE p.kind[i] = "reduce"
    <3>1. PICK x : x = ReducedUpTo(p.func[i], s)[Len(s)]
      OBVIOUS
    <3>2. g[i] = << >> \/ g[i] = <<x>>
      BY <1>8, <2>2, <2>6, <3>1 DEF StreamOfNode, Reduction
    <3>3. <<x>> \in Seq({x}) /\ << >> \in Seq({x})
      OBVIOUS
    <3>4. IsSeq(<<x>>) /\ IsSeq(<< >>)
      BY <3>3, SeqIsSeq
    <3> QED
      BY <1>4, <3>2, <3>4
  <2> QED
    BY <1>9, <2>4, <2>5, <2>6
<1>10. CASE p.kind[i] = "zip"
  <2>1. PICK streams : streams = [k \in DOMAIN p.ups[i] |-> g[p.ups[i][k]]]
    OBVIOUS
  <2>2. g[i] = Zipped(streams)
    BY <1>8, <1>10, <2>1 DEF StreamOfNode
  <2>3. d > 0 /\ DOMAIN streams = 1 .. d /\ \A k \in 1 .. d : Len(streams[k]) \in Nat
    BY <1>5, <1>6, <1>7, <1>10, <2>1 DEF OpOK, IsSeq
  <2>4. PICK h \in Nat : h = Shortest(streams)
    BY <2>3, ShortestFacts
  <2>5. PICK e : e = [j \in 1 .. h |-> [k \in DOMAIN streams |-> streams[k][j]]]
    OBVIOUS
  <2>6. PICK S : S = {[k \in DOMAIN streams |-> streams[k][j]] : j \in 1 .. h}
    OBVIOUS
  <2>7. e \in [1 .. h -> S]
    BY <2>5, <2>6
  <2>8. e \in Seq(S)
    BY <2>4, <2>7
  <2>9. g[i] = e
    BY <2>2, <2>4, <2>5 DEF Zipped
  <2> QED
    BY <1>4, <2>8, <2>9, SeqIsSeq
<1>11. CASE p.kind[i] \in Sources
  <2>1. g[i] = p.data[i]
    BY <1>8, <1>11 DEF StreamOfNode, Sources
  <2>2. IsSeq(p.data[i])
    BY <1>5 DEF OpOK, IsSeq
  <2> QED
    BY <1>4, <2>1, <2>2
<1> QED
  BY <1>5, <1>9, <1>10, <1>11 DEF Kinds, Sources

(* What the stream of a node is, by the kind of its op.                    *)
LEMMA StreamOfKind ==
  ASSUME plan \in Plans, NEW n \in plan.nodes, NEW x, x = StreamOf(n),
         NEW s, s = StreamOf(Ups(n)[1])
  PROVE  /\ IsSeq(x)
         /\ \A k \in DOMAIN Ups(n) : IsSeq(StreamOf(Ups(n)[k]))
         /\ Kind(n) \in Sources => x = plan.data[n]
         /\ Kind(n) = "filter" => x = MatchingUpTo(plan.func[n], s)[Len(s)]
         /\ Kind(n) = "map" =>
              /\ Len(x) = Len(s)
              /\ \A i \in 1 .. Len(s) : x[i] = MapFunc(plan.func[n], s[i])
         /\ Kind(n) = "reduce" =>
              /\ Len(s) = 0 => Len(x) = 0
              /\ Len(s) # 0 => Len(x) = 1 /\ x[1] = ReducedUpTo(plan.func[n], s)[Len(s)]
         /\ Kind(n) = "zip" =>
              /\ \A k \in DOMAIN Ups(n) : Len(x) <= Len(StreamOf(Ups(n)[k]))
              /\ \E k \in DOMAIN Ups(n) : Len(x) = Len(StreamOf(Ups(n)[k]))
              /\ \A i \in 1 .. Len(x) :
                   x[i] = [k \in DOMAIN Ups(n) |-> StreamOf(Ups(n)[k])[i]]
<1>1. PlanOK(plan) /\ OpOK(plan, n)
  BY PlansAssumption DEF PlanOK
<1>2. PICK l \in Nat : l = Len(Ups(n)) /\ DOMAIN Ups(n) = 1 .. l
  BY BelowFacts
<1>3. \A m \in plan.nodes : IsSeq(StreamOf(m))
  BY <1>1, StreamIsSeq DEF StreamOf
<1>4. \A k \in DOMAIN Ups(n) : IsSeq(StreamOf(Ups(n)[k]))
  BY <1>3, BelowFacts
<1>5. x = StreamOfNode(plan, Streams(plan), n)
  BY <1>1, StreamUnfold DEF StreamOf
<1>6. Kind(n) \in {"filter", "map", "reduce"} => IsSeq(s) /\ Len(s) \in Nat
  BY <1>4, KindFacts DEF IsSeq
<1>7. s = Streams(plan)[plan.ups[n][1]]
  BY DEF StreamOf, Ups
<1>8. Kind(n) \in Sources => x = plan.data[n]
  BY <1>5 DEF StreamOfNode, Sources, Kind
<1>9. Kind(n) = "filter" => x = MatchingUpTo(plan.func[n], s)[Len(s)]
  BY <1>5, <1>7 DEF StreamOfNode, Kind, Matching
<1>10. ASSUME Kind(n) = "map"
       PROVE  /\ Len(x) = Len(s)
              /\ \A i \in 1 .. Len(s) : x[i] = MapFunc(plan.func[n], s[i])
  <2>1. x = [i \in 1 .. Len(s) |-> MapFunc(plan.func[n], s[i])]
    BY <1>5, <1>7, <1>10 DEF StreamOfNode, Kind
  <2>2. IsSeq(x) /\ Len(s) \in Nat
    BY <1>3, <1>6, <1>10
  <2>3. DOMAIN x = 1 .. Len(x) /\ DOMAIN x = 1 .. Len(s) /\ Len(x) \in Nat
    BY <2>1, <2>2 DEF IsSeq
  <2>4. PICK a \in Nat, b \in Nat : a = Len(x) /\ b = Len(s)
    BY <2>2, <2>3
  <2>5. a = b
    <3>1. 1 .. a = 1 .. b
      BY <2>3, <2>4
    <3> QED
      BY ONLY <2>4, <3>1, a \in Nat, b \in Nat, \A i \in Int : i \in 1 .. a <=> i \in 1 .. b
  <2> QED
    BY <2>1, <2>4, <2>5
<1>11. ASSUME Kind(n) = "reduce"
       PROVE  /\ Len(s) = 0 => Len(x) = 0
              /\ Len(s) # 0 => Len(x) = 1 /\ x[1] = ReducedUpTo(plan.func[n], s)[Len(s)]
  <2>1. x = IF s = << >> THEN << >> ELSE <<ReducedUpTo(plan.func[n], s)[Len(s)]>>
    BY <1>5, <1>7, <1>11 DEF StreamOfNode, Kind, Reduction
  <2>2. s = << >> <=> Len(s) = 0
    BY <1>6, <1>11, EmptyIffLen0
  <2>3. Len(<< >>) = 0 /\ \A z : Len(<<z>>) = 1 /\ <<z>>[1] = z
    OBVIOUS
  <2> QED
    BY <2>1, <2>2, <2>3
<1>12. ASSUME Kind(n) = "zip"
       PROVE  /\ \A k \in DOMAIN Ups(n) : Len(x) <= Len(StreamOf(Ups(n)[k]))
              /\ \E k \in DOMAIN Ups(n) : Len(x) = Len(StreamOf(Ups(n)[k]))
              /\ \A i \in 1 .. Len(x) :
                   x[i] = [k \in DOMAIN Ups(n) |-> StreamOf(Ups(n)[k])[i]]
  <2>1. PICK streams : streams = [k \in DOMAIN Ups(n) |-> StreamOf(Ups(n)[k])]
    OBVIOUS
  <2>2. x = Zipped(streams)
    BY <1>5, <1>12, <2>1 DEF StreamOfNode, Kind, StreamOf, Ups
  <2>3. l > 0
    BY <1>1, <1>2, <1>12 DEF OpOK, Kind, Ups
  <2>4. /\ DOMAIN streams = 1 .. l
        /\ \A k \in 1 .. l : streams[k] = StreamOf(Ups(n)[k]) /\ Len(streams[k]) \in Nat
    BY <1>2, <1>4, <2>1 DEF IsSeq
  <2>5. PICK h \in Nat : /\ h = Shortest(streams)
                         /\ \A k \in 1 .. l : h <= Len(streams[k])
                         /\ \E k \in 1 .. l : h = Len(streams[k])
    BY <2>3, <2>4, ShortestFacts
  <2>6. x = [i \in 1 .. h |-> [k \in DOMAIN streams |-> streams[k][i]]]
    BY <2>2, <2>5 DEF Zipped
  <2>7. Len(x) = h
    <3>1. IsSeq(x)
      BY <1>3
    <3>2. DOMAIN x = 1 .. Len(x) /\ Len(x) \in Nat /\ DOMAIN x = 1 .. h
      BY <2>6, <3>1 DEF IsSeq
    <3>3. PICK a \in Nat : a = Len(x) /\ 1 .. a = 1 .. h
      BY <3>2
    <3> QED
      BY ONLY <3>3, a \in Nat, h \in Nat, \A i \in Int : i \in 1 .. a <=> i \in 1 .. h
  <2>8. ASSUME NEW i \in 1 .. h
        PROVE  x[i] = [k \in DOMAIN Ups(n) |-> StreamOf(Ups(n)[k])[i]]
    <3>1. x[i] = [k \in 1 .. l |-> streams[k][i]]
      BY <2>4, <2>6
    <3>2. [k \in 1 .. l |-> streams[k][i]] = [k \in 1 .. l |-> StreamOf(Ups(n)[k])[i]]
      BY <2>4
    <3> QED
      BY <1>2, <3>1, <3>2
  <2> QED
    BY <1>2, <2>4, <2>5, <2>7, <2>8
<1>13. IsSeq(x)
  BY <1>3
<1> QED
  BY <1>4, <1>8, <1>9, <1>10, <1>11, <1>12, <1>13

-----------------------------------------------------------------------------
(* What the states of the iterators, their histories and the calls under   *)
(* way say about the streams.                                              *)

Selected(n) == MatchingUpTo(plan.func[n], StreamOf(Ups(n)[1]))
Reduced(n) == ReducedUpTo(plan.func[n], StreamOf(Ups(n)[1]))

(* The next element of a source is the one that the state s points at.     *)
SourceAt(n, s, g) ==
  /\ Kind(n) = "value_to_stream" => (s[n].hasReturned <=> g[n] = 1)
  /\ Kind(n) \in Sources \ {"value_to_stream"} => s[n].currentIndex = g[n]

(* How much of its inputs a reduce or a zip has pulled between two calls.  *)
ReduceAtRest(n, g, es) ==
  IF g[n] = 0 /\ n \notin es THEN g[Ups(n)[1]] = 0
                             ELSE g[Ups(n)[1]] = Len(StreamOf(Ups(n)[1]))
ZipEnded(n, g, es) ==
  /\ \A k \in DOMAIN Ups(n) : g[Ups(n)[k]] >= g[n]
  /\ \E k \in DOMAIN Ups(n) : Ups(n)[k] \in es /\ g[Ups(n)[k]] = g[n]

AtRest(n, g, es) ==
  /\ Kind(n) = "map" => g[Ups(n)[1]] = g[n]
  /\ Kind(n) = "filter" =>
       /\ Len(Selected(n)[g[Ups(n)[1]]]) = g[n]
       /\ \/ g[Ups(n)[1]] = 0 \/ n \in es
          \/ Predicate(plan.func[n], StreamOf(Ups(n)[1])[g[Ups(n)[1]]])
  /\ Kind(n) = "reduce" => ReduceAtRest(n, g, es)
  /\ Kind(n) = "zip" => IF n \in es THEN ZipEnded(n, g, es)
                                    ELSE \A k \in DOMAIN Ups(n) : g[Ups(n)[k]] = g[n]

(* The same for the Next function of frame f, which has seen g elements of *)
(* each iterator.                                                          *)
ZipSoFar(f, g, es) ==
  \A k \in DOMAIN Ups(f.node) :
    IF k < f.up /\ Ups(f.node)[k] \notin es
      THEN /\ g[Ups(f.node)[k]] = g[f.node] + 1
           /\ f.elements[k] = StreamOf(Ups(f.node)[k])[g[f.node] + 1]
      ELSE g[Ups(f.node)[k]] = g[f.node]

InCall(f, g, es) ==
  /\ Kind(f.node) = "map" => g[Ups(f.node)[1]] = g[f.node]
  /\ Kind(f.node) = "filter" => Len(Selected(f.node)[g[Ups(f.node)[1]]]) = g[f.node]
  /\ Kind(f.node) = "reduce" =>
       IF f.inLoop THEN /\ g[f.node] = 0 /\ g[Ups(f.node)[1]] > 0
                        /\ f.acc = Reduced(f.node)[g[Ups(f.node)[1]]]
                   ELSE ReduceAtRest(f.node, g, es)
  /\ Kind(f.node) = "zip" =>
       /\ IsSeq(f.elements) /\ Len(f.elements) = IF f.up = 0 THEN 0 ELSE f.up - 1
       /\ IF f.node \in es THEN ZipEnded(f.node, g, es) ELSE ZipSoFar(f, g, es)

(* The element on its way to a frame is not one that it has seen.          *)
SeenBy(i) ==
  IF i = Len(stack) /\ ctl = "ret" /\ ret.hasNext
    THEN [got EXCEPT ![Called(i)] = @ - 1]
    ELSE got

Counted(n, g, es) == g[n] <= Len(StreamOf(n)) /\ (n \in es => g[n] = Len(StreamOf(n)))

MeansNext ==
  driver.pc = "next" =>
    /\ \A n \in plan.nodes : phase[n] = "open" => Counted(n, got, ended) /\ SourceAt(n, Cur, got)
    /\ \A n \in plan.nodes : phase[n] = "open" /\ ~ OnStack(n) => AtRest(n, got, ended)
    /\ \A i \in 1 .. Len(stack) : InCall(stack[i], SeenBy(i), ended)
    /\ ctl = "ret" /\ ret.hasNext =>
         got[Returned] > 0 /\ ret.element = StreamOf(Returned)[got[Returned]]
MeansOpen ==
  driver.pc = "open" =>
    \A n \in plan.nodes : phase[n] = "open" => got[n] = 0 /\ SourceAt(n, Cur, got)
ValuesKept ==
  driver.pc \in {"open", "next"} =>
    \A n \in plan.nodes : Kind(n) = "value_to_stream" => Cur[n].value = plan.data[n][1]
MeansInv == MeansNext /\ MeansOpen /\ ValuesKept

(* An iterator that is open and in no call is off the path of the calls.   *)
LEMMA OffPath ==
  ASSUME TypeOK, CallsNest, stack # << >>, NEW p \in plan.nodes, phase[p] = "open", ~ OnStack(p)
  PROVE  Top.node \notin Below(p)
<1>1. PICK L \in Nat : L = Len(stack) /\ L > 0
  <2>1. IsSeq(stack)
    BY DEF TypeOK, IsSeq
  <2> QED
    BY <2>1, EmptyIffLen0 DEF IsSeq
<1>2. PICK t : t = Top.node
  OBVIOUS
<1>3. /\ plan \in Plans /\ t = stack[L].node /\ stack[1].node = Stmt.input
      /\ \A i \in 1 .. L : stack[i].node \in plan.nodes /\ stack[i].node # p
      /\ p \in Below(Stmt.input)
  <2>1. \A i \in 1 .. L : stack[i].node # p
    BY <1>1 DEF OnStack
  <2>2. p \in Below(Stmt.input)
    BY DEF CallsNest, Visited
  <2> QED
    BY <1>1, <1>2, <2>1, <2>2 DEF TypeOK, CallsNest, Nesting, Top
<1> SUFFICES ASSUME t \in Below(p) PROVE FALSE
  BY <1>2
<1> DEFINE T == {i \in 1 .. L : p \notin Below(stack[i].node)}
<1>4. T = {}
  <2> SUFFICES ASSUME T # {} PROVE FALSE
    OBVIOUS
  <2>1. PICK k \in T : \A j \in T : k <= j
    <3>1. T \in SUBSET Nat
      OBVIOUS
    <3> HIDE DEF T
    <3> QED
      BY <3>1, Least
  <2>2. k \in 1 .. L /\ p \notin Below(stack[k].node)
    OBVIOUS
  <2>3. k # 1
    BY <1>3, <2>2
  <2>4. PICK i \in 1 .. L - 1 : i = k - 1 /\ i + 1 = k /\ ~ (k <= i)
    BY <1>1, <2>2, <2>3
  <2>5. i \in 1 .. L
    BY <1>1, <2>4
  <2>6. i \notin T
    <3> HIDE DEF T
    <3> QED
      BY <2>1, <2>4
  <2>7. p \in Below(stack[i].node) /\ stack[i].node \in plan.nodes /\ p # stack[i].node
    BY <1>3, <2>5, <2>6
  <2>8. PICK j \in DOMAIN Ups(stack[i].node) : p \in Below(Ups(stack[i].node)[j])
    BY <1>3, <2>7, BelowFacts
  <2>9. Ups(stack[i].node)[j] \in plan.nodes
    BY <1>3, <2>7, BelowFacts
  <2>10. t \in Below(Ups(stack[i].node)[j])
    BY <1>3, <2>8, <2>9, BelowFacts
  <2>11. t \in Below(Called(i)) /\ stack[i].up \in DOMAIN Ups(stack[i].node)
    BY <1>1, <1>2, NodesApart
  <2>12. j = stack[i].up
    BY <1>3, <2>7, <2>10, <2>11, BelowFacts DEF Called
  <2>13. stack[k].node = Called(i)
    BY <1>1, <2>4 DEF CallsNest, Nesting
  <2> QED
    BY <2>2, <2>8, <2>12, <2>13 DEF Called
<1>5. p \in Below(t) /\ p # t /\ t \in plan.nodes
  BY <1>1, <1>3, <1>4
<1>6. PICK j \in DOMAIN Ups(t) : p \in Below(Ups(t)[j])
  BY <1>3, <1>5, BelowFacts
<1>7. Ups(t)[j] \in plan.nodes /\ t \notin Below(Ups(t)[j])
  BY <1>3, <1>5, BelowFacts
<1> QED
  BY <1>3, <1>6, <1>7, BelowFacts

(* Among the upstreams of the frames that wait, the node of the top frame  *)
(* is only the one it was called for.                                      *)
LEMMA UpsApart ==
  ASSUME TypeOK, CallsNest, NEW i \in 1 .. Len(stack) - 1,
         NEW k \in DOMAIN Ups(stack[i].node), Ups(stack[i].node)[k] = Top.node
  PROVE  i = Len(stack) - 1 /\ k = stack[i].up
<1>1. PICK L \in Nat : L = Len(stack)
  BY DEF TypeOK
<1>2. /\ Top.node \in Below(Called(i)) /\ stack[i].node \in plan.nodes
      /\ stack[i].up \in DOMAIN Ups(stack[i].node) /\ plan \in Plans
  BY NodesApart DEF TypeOK
<1>3. Top.node \in plan.nodes /\ Top.node \in Below(Top.node)
  BY <1>2, BelowFacts
<1>4. k = stack[i].up
  BY <1>2, <1>3, BelowFacts DEF Called
<1>5. Called(i) = Top.node
  BY <1>4 DEF Called
<1>6. stack[i + 1].node = Top.node
  BY <1>5 DEF CallsNest, Nesting
<1>7. ~ (i + 1 \in 1 .. L - 1)
  BY <1>1, <1>6, NodesApart
<1> QED
  BY <1>1, <1>4, <1>7

(* What an iterator or a frame says depends on the counts of its node and  *)
(* of its upstreams.                                                       *)
LEMMA AtRestSame ==
  ASSUME plan \in Plans, NEW n \in plan.nodes, NEW g, NEW h, NEW es, NEW fs,
         g[n] = h[n], n \in es <=> n \in fs,
         \A k \in DOMAIN Ups(n) : g[Ups(n)[k]] = h[Ups(n)[k]],
         \A k \in DOMAIN Ups(n) : Ups(n)[k] \in es => Ups(n)[k] \in fs,
         AtRest(n, g, es)
  PROVE  AtRest(n, h, fs)
<1>1. Kind(n) \in {"map", "filter", "reduce"} => g[Ups(n)[1]] = h[Ups(n)[1]]
  BY KindFacts
<1>2. Kind(n) = "map" => h[Ups(n)[1]] = h[n]
  BY <1>1 DEF AtRest
<1>3. Kind(n) = "filter" =>
        /\ Len(Selected(n)[h[Ups(n)[1]]]) = h[n]
        /\ \/ h[Ups(n)[1]] = 0 \/ n \in fs
           \/ Predicate(plan.func[n], StreamOf(Ups(n)[1])[h[Ups(n)[1]]])
  BY <1>1 DEF AtRest
<1>4. Kind(n) = "reduce" => ReduceAtRest(n, h, fs)
  BY <1>1 DEF AtRest, ReduceAtRest
<1>5. Kind(n) = "zip" => IF n \in fs THEN ZipEnded(n, h, fs)
                                     ELSE \A k \in DOMAIN Ups(n) : h[Ups(n)[k]] = h[n]
  BY DEF AtRest, ZipEnded
<1> QED
  BY <1>2, <1>3, <1>4, <1>5 DEF AtRest

LEMMA InCallSame ==
  ASSUME plan \in Plans, NEW f, f.node \in plan.nodes, f.up \in Nat,
         NEW g, NEW h, NEW es, NEW fs,
         g[f.node] = h[f.node], f.node \in es <=> f.node \in fs,
         \A k \in DOMAIN Ups(f.node) : g[Ups(f.node)[k]] = h[Ups(f.node)[k]],
         \A k \in DOMAIN Ups(f.node) : Ups(f.node)[k] \in es => Ups(f.node)[k] \in fs,
         \A k \in DOMAIN Ups(f.node) :
           k < f.up => (Ups(f.node)[k] \in es <=> Ups(f.node)[k] \in fs),
         InCall(f, g, es)
  PROVE  InCall(f, h, fs)
<1>1. PICK n \in plan.nodes : n = f.node
  OBVIOUS
<1>2. Kind(n) \in {"map", "filter", "reduce"} => g[Ups(n)[1]] = h[Ups(n)[1]]
  BY <1>1, KindFacts
<1>3. Kind(n) = "map" => h[Ups(n)[1]] = h[n]
  BY <1>1, <1>2 DEF InCall
<1>4. Kind(n) = "filter" => Len(Selected(n)[h[Ups(n)[1]]]) = h[n]
  BY <1>1, <1>2 DEF InCall
<1>5. Kind(n) = "reduce" =>
        IF f.inLoop THEN /\ h[n] = 0 /\ h[Ups(n)[1]] > 0
                         /\ f.acc = Reduced(n)[h[Ups(n)[1]]]
                    ELSE ReduceAtRest(n, h, fs)
  BY <1>1, <1>2 DEF InCall, ReduceAtRest
<1>6. ASSUME Kind(n) = "zip"
      PROVE  /\ IsSeq(f.elements) /\ Len(f.elements) = IF f.up = 0 THEN 0 ELSE f.up - 1
             /\ IF n \in fs THEN ZipEnded(n, h, fs) ELSE ZipSoFar(f, h, fs)
  <2>1. /\ IsSeq(f.elements) /\ Len(f.elements) = IF f.up = 0 THEN 0 ELSE f.up - 1
        /\ IF n \in es THEN ZipEnded(n, g, es) ELSE ZipSoFar(f, g, es)
    BY <1>1, <1>6, Zenon DEF InCall
  <2>2. ZipEnded(n, g, es) => ZipEnded(n, h, fs)
    BY <1>1 DEF ZipEnded
  <2>3. ASSUME ZipSoFar(f, g, es)
        PROVE  ZipSoFar(f, h, fs)
    BY <2>3 DEF ZipSoFar
  <2> QED
    BY <1>1, <2>1, <2>2, <2>3
<1> QED
  BY <1>1, <1>3, <1>4, <1>5, <1>6, Zenon DEF InCall

(* What is true of an iterator between two calls is true of a call that    *)
(* has just begun.                                                         *)
LEMMA BeginsAtRest ==
  ASSUME plan \in Plans, NEW n \in plan.nodes, NEW fn, NEW s, NEW g, NEW es, AtRest(n, g, es)
  PROVE  InCall(Frame(n, fn, s), g, es)
<1>1. PICK f : f = Frame(n, fn, s)
  OBVIOUS
<1>2. f.node = n /\ f.inLoop = FALSE /\ f.up = 0 /\ f.elements = << >>
  BY <1>1 DEF Frame
<1>3. IsSeq(f.elements) /\ Len(f.elements) = 0
  BY <1>2 DEF IsSeq
<1>4. Kind(n) = "zip" => IF n \in es THEN ZipEnded(n, g, es) ELSE ZipSoFar(f, g, es)
  <2>1. \A k \in DOMAIN Ups(n) : ~ (k < f.up)
    BY <1>2, BelowFacts
  <2> QED
    BY <1>2, <2>1 DEF AtRest, ZipSoFar
<1>5. /\ Kind(n) = "map" => g[Ups(n)[1]] = g[n]
      /\ Kind(n) = "filter" => Len(Selected(n)[g[Ups(n)[1]]]) = g[n]
      /\ Kind(n) = "reduce" => ReduceAtRest(n, g, es)
  BY DEF AtRest
<1>6. InCall(f, g, es)
  BY <1>2, <1>3, <1>4, <1>5, Zenon DEF InCall
<1> QED
  BY <1>1, <1>6

(* In the pass of Next calls, a call keeps the invariant if the frame that *)
(* waits for it still says what it should.                                 *)
LEMMA MeansPush ==
  ASSUME TypeOK, CallsNest, FinalInv, MeansInv, driver.pc = "next", stack # << >>,
         NEW f, DOMAIN f = FrameFields,
         f.node = Top.node, f.fn = Top.fn, f.st = Resumed.st,
         NEW k \in DOMAIN Ups(Top.node), CallUpstream(f, k),
         NEW x, x = [f EXCEPT !.up = k], InCall(x, got, ended)
  PROVE  MeansInv'
<1>1. PICK L \in Nat : L = Len(stack) /\ L > 0
  BY PushMore
<1>2. \A m \in plan.nodes : (Cur)'[m] = Cur[m]
  BY AgreePush DEF FinalInv
<1>3. PICK e : e = stack'[L + 1]
  OBVIOUS
<1>4. PICK u \in plan.nodes : u = Ups(Top.node)[k] /\ u \in Below(Top.node) /\ u # Top.node
  <2>1. plan \in Plans /\ Top.node \in plan.nodes
    BY TopFacts
  <2>2. Ups(Top.node)[k] \in plan.nodes /\ Top.node \notin Below(Ups(Top.node)[k])
        /\ Below(Ups(Top.node)[k]) \subseteq Below(Top.node)
    BY <2>1, BelowFacts
  <2>3. Ups(Top.node)[k] \in Below(Ups(Top.node)[k])
    BY <2>1, <2>2, BelowFacts
  <2> QED
    BY <2>2, <2>3
<1>5. /\ Len(stack') = L + 1 /\ \A i \in 1 .. L - 1 : stack'[i] = stack[i]
      /\ stack'[L] = x /\ stack'[L].node = Top.node /\ e = Frame(u, Top.fn, f.st)
      /\ ctl' = "call" /\ UNCHANGED <<plan, line, driver, ret, out, phase, got, ended>>
  BY <1>1, <1>3, <1>4, PushMore
<1>6. plan \in Plans /\ phase[u] = "open"
  <2>1. phase[Top.node] = "open" /\ plan \in Plans /\ Top.fn = "next" /\ Top.node \in plan.nodes
    BY TopIsOpen DEF TypeOK
  <2>2. FrameVisited(L)
    <3>1. L \in 1 .. Len(stack)
      BY <1>1
    <3> QED
      BY <3>1 DEF CallsNest, Visited
  <2>3. u \in Below(Ups(Top.node)[k])
    BY <1>4, <2>1, BelowFacts
  <2>4. \/ k < Top.up \/ k > Top.up \/ k = Top.up
    BY TopFacts
  <2>5. k = Top.up => ctl = "ret"
    <3>1. ctl = "call" => Top.up = 0
      BY DEF CallsNest, Nesting
    <3>2. ctl \in {"call", "ret"}
      BY DEF CallsNest, Nesting, TypeOK
    <3>3. k # 0
      BY TopFacts
    <3> QED
      BY <3>1, <3>2, <3>3
  <2>6. Top = stack[L]
    BY <1>1 DEF Top
  <2> QED
    BY <1>1, <2>1, <2>2, <2>3, <2>4, <2>5, <2>6 DEF FrameVisited, Before, After
<1>7. ~ OnStack(u)
  <2> SUFFICES ASSUME NEW i \in 1 .. L, stack[i].node = u PROVE FALSE
    BY <1>1 DEF OnStack
  <2>1. i \in 1 .. L - 1
    BY <1>1, <1>4 DEF Top
  <2>2. /\ Top.node \in Below(Called(i)) /\ stack[i].node \in plan.nodes
        /\ stack[i].up \in DOMAIN Ups(stack[i].node)
    BY <1>1, <2>1, NodesApart
  <2>3. Called(i) \in plan.nodes /\ stack[i].node \notin Below(Called(i))
    BY <1>6, <2>2, BelowFacts DEF Called
  <2>4. Below(Top.node) \subseteq Below(Called(i))
    BY <1>6, <2>2, <2>3, BelowFacts
  <2> QED
    BY <1>4, <2>3, <2>4
<1>8. AtRest(u, got, ended)
  BY <1>6, <1>7 DEF MeansInv, MeansNext
<1>9. InCall(e, got, ended)
  BY <1>5, <1>6, <1>8, BeginsAtRest
<1>10. \A i \in 1 .. L + 1 : InCall(stack'[i], got, ended)
  <2> SUFFICES ASSUME NEW i \in 1 .. L + 1 PROVE InCall(stack'[i], got, ended)
    OBVIOUS
  <2>1. CASE i \in 1 .. L - 1
    <3>1. SeenBy(i) = got /\ i \in 1 .. Len(stack)
      BY <1>1, <2>1 DEF SeenBy
    <3>2. InCall(stack[i], SeenBy(i), ended)
      BY <3>1 DEF MeansInv, MeansNext
    <3> QED
      BY <1>5, <2>1, <3>1, <3>2
  <2>2. CASE i = L
    BY <1>5, <2>2
  <2>3. CASE i = L + 1
    BY <1>3, <1>9, <2>3
  <2> QED
    BY <1>1, <2>1, <2>2, <2>3
<1>11. \A n : OnStack(n) => (OnStack(n))'
  <2> SUFFICES ASSUME NEW n, NEW i \in 1 .. L, stack[i].node = n
               PROVE  \E j \in 1 .. L + 1 : stack'[j].node = n
    BY <1>1, <1>5 DEF OnStack
  <2>1. stack'[i].node = stack[i].node
    <3>1. i \in 1 .. L - 1 \/ i = L
      BY <1>1
    <3>2. stack'[L].node = stack[L].node
      BY <1>1, <1>5 DEF Top
    <3>3. \A j \in 1 .. L - 1 : stack'[j] = stack[j]
      BY <1>5
    <3> QED
      BY <3>1, <3>2, <3>3
  <2> QED
    BY <1>1, <2>1
<1>12. PICK c, d : c = Cur /\ d = (Cur)'
  OBVIOUS
<1>13. \A n \in plan.nodes : phase[n] = "open" => Counted(n, got, ended) /\ SourceAt(n, d, got)
  <2> SUFFICES ASSUME NEW n \in plan.nodes, phase[n] = "open"
               PROVE  Counted(n, got, ended) /\ SourceAt(n, d, got)
    OBVIOUS
  <2>1. Counted(n, got, ended) /\ SourceAt(n, c, got)
    BY <1>12 DEF MeansInv, MeansNext
  <2>2. c[n] = d[n]
    BY <1>2, <1>12
  <2> QED
    BY <2>1, <2>2 DEF SourceAt
<1>14. (\A n \in plan.nodes : phase[n] = "open" => Counted(n, got, ended) /\ SourceAt(n, Cur, got))'
  BY <1>5, <1>12, <1>13 DEF Counted, SourceAt, StreamOf, Kind
<1>15. (\A n \in plan.nodes : phase[n] = "open" /\ ~ OnStack(n) => AtRest(n, got, ended))'
  <2>1. \A n \in plan.nodes : phase[n] = "open" /\ ~ (OnStack(n))' => AtRest(n, got, ended)
    BY <1>11 DEF MeansInv, MeansNext
  <2>2. \A n : AtRest(n, got, ended)' <=> AtRest(n, got, ended)
    BY <1>5 DEF AtRest, ReduceAtRest, ZipEnded, Selected, StreamOf, Kind, Ups
  <2> QED
    BY <1>5, <2>1, <2>2
<1>16. (\A i \in 1 .. Len(stack) : InCall(stack[i], SeenBy(i), ended))'
  <2>1. \A i : SeenBy(i)' = got
    BY <1>5 DEF SeenBy
  <2> SUFFICES ASSUME NEW i \in 1 .. L + 1 PROVE InCall(stack[i], SeenBy(i), ended)'
    BY <1>5
  <2>2. InCall(stack'[i], got, ended)
    BY <1>10
  <2>3. PICK z : z = stack'[i]
    OBVIOUS
  <2>4. InCall(z, got, ended)
    BY <2>2, <2>3, Zenon
  <2>5. plan' = plan /\ ended' = ended /\ SeenBy(i)' = got
    BY <1>5, <2>1, Zenon
  <2>6. InCall(z, SeenBy(i), ended)'
    BY <2>4, <2>5, Zenon DEF InCall, ReduceAtRest, ZipEnded, ZipSoFar, Selected, Reduced,
                             StreamOf, Kind, Ups
  <2> QED
    BY <2>3, <2>6, Zenon DEF InCall, ReduceAtRest, ZipEnded, ZipSoFar
<1>17. MeansNext'
  BY <1>5, <1>14, <1>15, <1>16 DEF MeansNext
<1>18. MeansOpen' /\ ValuesKept'
  <2>1. \A n \in plan.nodes : Kind(n) = "value_to_stream" => c[n].value = plan.data[n][1]
    BY <1>12 DEF MeansInv, ValuesKept
  <2>2. \A n \in plan.nodes : Kind(n) = "value_to_stream" => d[n].value = plan.data[n][1]
    BY <1>2, <1>12, <2>1
  <2> QED
    BY <1>5, <1>12, <2>2 DEF MeansOpen, ValuesKept, Kind
<1> QED
  BY <1>17, <1>18 DEF MeansInv

(* In the pass of Next calls, a return keeps the invariant if it returns   *)
(* the next element of the iterator's stream, or the end if there is none, *)
(* and leaves the iterator at rest.                                        *)
GotAfter(n, hasNext) == IF hasNext THEN [got EXCEPT ![n] = @ + 1] ELSE got
EndedAfter(n, hasNext) == IF hasNext THEN ended ELSE ended \cup {n}
Answers(n, hasNext, v) ==
  IF hasNext THEN got[n] < Len(StreamOf(n)) /\ v = StreamOf(n)[got[n] + 1]
             ELSE got[n] = Len(StreamOf(n))

LEMMA MeansPop ==
  ASSUME TypeOK, CallsNest, FinalInv, MeansInv, driver.pc = "next", stack # << >>,
         NEW s, NEW hasNext \in BOOLEAN, NEW v, Return(s, hasNext, v),
         IsState(s), SameOutside(s, Top.st, Top.node),
         \A m \in plan.nodes \ {Top.node} : s[m] = Cur[m],
         s[Top.node].value = Cur[Top.node].value,
         Answers(Top.node, hasNext, v),
         NEW g, g = GotAfter(Top.node, hasNext), NEW es, es = EndedAfter(Top.node, hasNext),
         SourceAt(Top.node, s, g), AtRest(Top.node, g, es)
  PROVE  MeansInv'
<1>1. PICK L \in Nat : L = Len(stack) /\ L > 0
  BY PopMore
<1>2. PICK n \in plan.nodes : n = Top.node /\ phase[n] = "open" /\ Top.fn = "next"
  BY TopIsOpen
<1>3. PICK x : x = StreamOf(n) /\ IsSeq(x)
  BY <1>2, StreamOfKind DEF TypeOK
<1>4. /\ Len(stack') = L - 1 /\ \A i \in 1 .. L - 1 : stack'[i] = stack[i]
      /\ ctl' = "ret" /\ ret'.hasNext = hasNext /\ ret'.element = v
      /\ UNCHANGED <<plan, line, driver>>
  BY <1>1, PopMore
<1>5. got' = g /\ ended' = es /\ phase' = phase
  BY <1>2 DEF Return, GotAfter, EndedAfter
<1>6. (Cur)' = s /\ (Returned)' = n
  BY <1>2, AgreePop, ReturnedIs DEF FinalInv
<1>7. /\ \A m \in plan.nodes \ {n} : g[m] = got[m]
      /\ g[n] = IF hasNext THEN got[n] + 1 ELSE got[n]
      /\ got[n] \in Nat /\ DOMAIN got = plan.nodes
  BY <1>2 DEF GotAfter, TypeOK
<1>8. /\ \A m \in plan.nodes \ {n} : m \in es <=> m \in ended
      /\ \A m : m \in ended => m \in es
      /\ n \in es <=> n \in ended \/ ~ hasNext
      /\ hasNext => es = ended
  BY <1>2 DEF EndedAfter
<1>9. PICK c : c = Cur
  OBVIOUS
<1>10. \A m \in plan.nodes : phase[m] = "open" => Counted(m, g, es) /\ SourceAt(m, s, g)
  <2> SUFFICES ASSUME NEW m \in plan.nodes, phase[m] = "open"
               PROVE  Counted(m, g, es) /\ SourceAt(m, s, g)
    OBVIOUS
  <2>1. Counted(m, got, ended) /\ SourceAt(m, c, got)
    BY <1>9 DEF MeansInv, MeansNext
  <2>2. CASE m = n
    <3>1. IF hasNext THEN got[n] < Len(x) ELSE got[n] = Len(x)
      BY <1>2, <1>3 DEF Answers
    <3>2. got[n] <= Len(x) /\ (n \in ended => got[n] = Len(x))
      BY <1>3, <2>1, <2>2 DEF Counted
    <3>3. PICK a, l \in Nat : a = got[n] /\ l = Len(x)
      BY <1>3, <1>7 DEF IsSeq
    <3>4. g[n] <= l /\ (n \in es => g[n] = l)
      BY <1>7, <1>8, <3>1, <3>2, <3>3
    <3> QED
      BY <1>2, <1>3, <2>2, <3>3, <3>4 DEF Counted
  <2>3. CASE m # n
    <3>1. g[m] = got[m] /\ (m \in es <=> m \in ended) /\ s[m] = c[m]
      BY <1>2, <1>7, <1>8, <1>9, <2>3
    <3> QED
      BY <2>1, <3>1 DEF Counted, SourceAt
  <2> QED
    BY <2>2, <2>3
<1>11. \A m \in plan.nodes : phase[m] = "open" /\ ~ (OnStack(m))' => AtRest(m, g, es)
  <2> SUFFICES ASSUME NEW m \in plan.nodes, phase[m] = "open", ~ (OnStack(m))', m # n
               PROVE  AtRest(m, g, es)
    BY <1>2
  <2>1. ~ OnStack(m)
    <3> SUFFICES ASSUME NEW i \in 1 .. L, stack[i].node = m PROVE FALSE
      BY <1>1 DEF OnStack
    <3>1. i \in 1 .. L - 1
      BY <1>1, <1>2 DEF Top
    <3> QED
      BY <1>4, <3>1 DEF OnStack
  <2>2. plan \in Plans /\ n \notin Below(m)
    BY <1>2, <2>1, OffPath DEF TypeOK
  <2>3. \A k \in DOMAIN Ups(m) : Ups(m)[k] \in plan.nodes \ {n}
    <3> SUFFICES ASSUME NEW k \in DOMAIN Ups(m) PROVE Ups(m)[k] \in plan.nodes \ {n}
      OBVIOUS
    <3>1. Ups(m)[k] \in plan.nodes /\ Below(Ups(m)[k]) \subseteq Below(m)
      BY <2>2, BelowFacts
    <3>2. Ups(m)[k] \in Below(Ups(m)[k])
      BY <2>2, <3>1, BelowFacts
    <3> QED
      BY <2>2, <3>1, <3>2
  <2>4. AtRest(m, got, ended)
    BY <2>1 DEF MeansInv, MeansNext
  <2>5. /\ got[m] = g[m] /\ (m \in ended <=> m \in es)
        /\ \A k \in DOMAIN Ups(m) : got[Ups(m)[k]] = g[Ups(m)[k]]
        /\ \A k \in DOMAIN Ups(m) : Ups(m)[k] \in ended => Ups(m)[k] \in es
    BY <1>7, <1>8, <2>3
  <2> QED
    BY <2>2, <2>4, <2>5, AtRestSame
<1>12. \A i \in 1 .. L - 1 : InCall(stack[i], SeenBy(i)', es)
  <2> SUFFICES ASSUME NEW i \in 1 .. L - 1 PROVE InCall(stack[i], SeenBy(i)', es)
    OBVIOUS
  <2>1. PICK f, h : f = stack[i] /\ h = SeenBy(i)'
    OBVIOUS
  <2>2. /\ f.node \in plan.nodes /\ f.node # n /\ f.up \in Nat /\ plan \in Plans
        /\ \A k \in DOMAIN Ups(f.node) : Ups(f.node)[k] \in plan.nodes
    <3>1. i \in 1 .. Len(stack) /\ i \in 1 .. Len(stack) - 1
      BY <1>1
    <3>2. f.node \in plan.nodes /\ f.node # n /\ f.up \in DOMAIN Ups(f.node) /\ plan \in Plans
      BY <1>1, <1>2, <2>1, <3>1, NodesApart DEF TypeOK
    <3> QED
      BY <3>2, BelowFacts
  <2>3. InCall(f, got, ended)
    <3>1. SeenBy(i) = got /\ i \in 1 .. Len(stack)
      BY <1>1 DEF SeenBy
    <3> QED
      BY <2>1, <3>1 DEF MeansInv, MeansNext
  <2>4. \A k \in DOMAIN Ups(f.node) : Ups(f.node)[k] = n => i = L - 1 /\ k = f.up
    BY <1>1, <1>2, <2>1, UpsApart
  <2>5. \A m \in plan.nodes \ {n} : h[m] = got[m]
    <3>1. h = g \/ h = [g EXCEPT ![(Called(i))'] = @ - 1]
      BY <1>5, <2>1 DEF SeenBy
    <3>2. h # g => i = L - 1
      BY <1>1, <1>4, <1>5, <2>1 DEF SeenBy
    <3>3. h # g => (Called(i))' = n
      <4>1. stack[L].node = n /\ (i = L - 1 => i + 1 = L)
        BY <1>1, <1>2 DEF Top
      <4>2. stack[i + 1].node = Called(i)
        BY <1>1 DEF CallsNest, Nesting
      <4>3. (Called(i))' = Called(i)
        BY <1>4 DEF Called, Ups
      <4> QED
        BY <3>2, <4>1, <4>2, <4>3
    <3>4. DOMAIN g = plan.nodes
      BY <1>7 DEF GotAfter
    <3> QED
      BY <1>7, <3>1, <3>3, <3>4
  <2>6. \A k \in DOMAIN Ups(f.node) : h[Ups(f.node)[k]] = got[Ups(f.node)[k]]
    <3> SUFFICES ASSUME NEW k \in DOMAIN Ups(f.node), Ups(f.node)[k] = n
                 PROVE  h[n] = got[n]
      BY <2>2, <2>5
    <3>1. i = L - 1 /\ k = f.up
      BY <2>4
    <3>2. Called(i)' = n
      BY <1>4, <2>1, <3>1 DEF Called, Ups
    <3>3. h = IF hasNext THEN [g EXCEPT ![n] = @ - 1] ELSE g
      BY <1>1, <1>4, <1>5, <2>1, <3>1, <3>2 DEF SeenBy
    <3>4. DOMAIN g = plan.nodes
      BY <1>7 DEF GotAfter
    <3>5. PICK a \in Nat : a = got[n]
      BY <1>7
    <3>6. hasNext => h[n] = (a + 1) - 1
      BY <1>2, <1>7, <3>3, <3>4, <3>5
    <3> QED
      BY <1>7, <3>3, <3>5, <3>6
  <2>7. \A k \in DOMAIN Ups(f.node) :
          k < f.up => (Ups(f.node)[k] \in ended <=> Ups(f.node)[k] \in es)
    <3> SUFFICES ASSUME NEW k \in DOMAIN Ups(f.node), k < f.up
                 PROVE  Ups(f.node)[k] \in ended <=> Ups(f.node)[k] \in es
      OBVIOUS
    <3>1. k # f.up
      BY <2>2
    <3> QED
      BY <1>8, <2>2, <2>4, <3>1
  <2>8. /\ got[f.node] = h[f.node] /\ (f.node \in ended <=> f.node \in es)
        /\ \A k \in DOMAIN Ups(f.node) : Ups(f.node)[k] \in ended => Ups(f.node)[k] \in es
        /\ \A k \in DOMAIN Ups(f.node) : got[Ups(f.node)[k]] = h[Ups(f.node)[k]]
    BY <1>8, <2>2, <2>5, <2>6
  <2>9. InCall(f, h, es)
    BY <2>2, <2>3, <2>7, <2>8, InCallSame
  <2> QED
    BY <2>1, <2>9
<1>13. (\A m \in plan.nodes : phase[m] = "open" => Counted(m, got, ended) /\ SourceAt(m, Cur, got))'
  BY <1>4, <1>5, <1>6, <1>10 DEF Counted, SourceAt, StreamOf, Kind
<1>14. (\A m \in plan.nodes : phase[m] = "open" /\ ~ OnStack(m) => AtRest(m, got, ended))'
  <2>1. plan' = plan /\ got' = g /\ ended' = es /\ phase' = phase
    BY <1>4, <1>5
  <2>2. \A m : AtRest(m, got, ended)' <=> AtRest(m, g, es)
    BY <2>1 DEF AtRest, ReduceAtRest, ZipEnded, Selected, StreamOf, Kind, Ups
  <2> QED
    BY <1>11, <2>1, <2>2
<1>15. (\A i \in 1 .. Len(stack) : InCall(stack[i], SeenBy(i), ended))'
  <2> SUFFICES ASSUME NEW i \in 1 .. L - 1 PROVE InCall(stack[i], SeenBy(i), ended)'
    BY <1>4
  <2>1. PICK z, h : z = stack'[i] /\ h = SeenBy(i)'
    OBVIOUS
  <2>2. InCall(z, h, es)
    BY <1>4, <1>12, <2>1, Zenon
  <2>3. plan' = plan /\ ended' = es /\ SeenBy(i)' = h
    BY <1>4, <1>5, <2>1, Zenon
  <2>4. InCall(z, SeenBy(i), ended)'
    BY <2>2, <2>3, Zenon DEF InCall, ReduceAtRest, ZipEnded, ZipSoFar, Selected, Reduced,
                             StreamOf, Kind, Ups
  <2> QED
    BY <2>1, <2>4, Zenon DEF InCall, ReduceAtRest, ZipEnded, ZipSoFar
<1>16. (ctl = "ret" /\ ret.hasNext =>
          got[Returned] > 0 /\ ret.element = StreamOf(Returned)[got[Returned]])'
  <2>1. (StreamOf(Returned))' = x
    BY <1>3, <1>4, <1>6 DEF StreamOf
  <2>2. hasNext => g[n] > 0 /\ v = x[g[n]]
    BY <1>2, <1>3, <1>7 DEF Answers
  <2> QED
    BY <1>4, <1>5, <1>6, <2>1, <2>2
<1>17. MeansNext'
  BY <1>13, <1>14, <1>15, <1>16 DEF MeansNext
<1>18. MeansOpen' /\ ValuesKept'
  <2>1. \A m \in plan.nodes : Kind(m) = "value_to_stream" => c[m].value = plan.data[m][1]
    BY <1>9 DEF MeansInv, ValuesKept
  <2>2. \A m \in plan.nodes : s[m].value = c[m].value
    BY <1>2, <1>9
  <2> QED
    BY <1>4, <1>6, <2>1, <2>2 DEF MeansOpen, ValuesKept, Kind
<1> QED
  BY <1>17, <1>18 DEF MeansInv

(* The Next functions.  First the sources.                                 *)
LEMMA MeansByIndex ==
  ASSUME TypeOK, CallsNest, FinalInv, MeansInv, driver.pc = "next", stack # << >>, ctl = "call",
         Kind(Top.node) \in Sources \ {"value_to_stream"}, NextByIndex
  PROVE  MeansInv'
<1>1. PICK n \in plan.nodes : n = Top.node /\ phase[n] = "open"
  BY TopIsOpen
<1>2. PICK c, q : c = Top.st /\ q = c[n]
  OBVIOUS
<1>3. /\ plan \in Plans /\ IsState(c) /\ Cur = c /\ SameOutside(c, c, n)
      /\ DOMAIN q = Fields /\ q.hasReturned \in BOOLEAN
  BY <1>1, <1>2, EntryIs DEF FinalInv
<1>4. PICK x : x = StreamOf(n) /\ IsSeq(x) /\ x = plan.data[n]
  BY <1>1, <1>3, StreamOfKind
<1>5. PICK i, l \in Nat : i = got[n] /\ l = Len(x) /\ q.currentIndex = i /\ i <= l
  <2>1. Counted(n, got, ended) /\ SourceAt(n, c, got)
    BY <1>1, <1>3 DEF MeansInv, MeansNext
  <2>2. got[n] \in Nat /\ Len(x) \in Nat
    BY <1>4 DEF TypeOK, IsSeq
  <2>3. q.currentIndex = got[n]
    BY <1>1, <1>2, <2>1 DEF SourceAt
  <2>4. got[n] <= Len(x)
    BY <1>4, <2>1 DEF Counted
  <2> QED
    BY <2>2, <2>3, <2>4
<1>6. \A g, es : AtRest(n, g, es)
  BY <1>1, Zenon DEF AtRest, Sources
<1>7. \A s, g : s[n].currentIndex = g[n] => SourceAt(n, s, g)
  BY <1>1 DEF SourceAt
<1>8. CASE i < l
  <2>1. PICK r, t : r = [q EXCEPT !.currentIndex = i + 1] /\ t = SetField(c, n, r)
    OBVIOUS
  <2>2. DOMAIN r = Fields /\ r.hasReturned \in BOOLEAN /\ r.currentIndex = i + 1 /\ r.value = q.value
    BY <1>3, <2>1 DEF Fields
  <2>3. /\ IsState(t) /\ SameOutside(t, c, n) /\ t[n] = r
        /\ \A m \in plan.nodes \ {n} : t[m] = c[m]
    <3>1. t = SetField(c, n, r)
      BY <2>1
    <3> QED
      BY <1>3, <2>2, <3>1, SetFieldIs
  <2>4. Return(t, TRUE, x[i + 1])
    <3>1. Top.st[Top.node] = q /\ Top.st[Top.node].currentIndex = i
      BY <1>1, <1>2, <1>5
    <3>2. i < Len(plan.data[Top.node]) /\ plan.data[Top.node] = x
      BY <1>1, <1>4, <1>5, <1>8
    <3> QED
      BY <1>1, <1>2, <2>1, <3>1, <3>2 DEF NextByIndex
  <2>5. Answers(n, TRUE, x[i + 1])
    BY <1>4, <1>5, <1>8 DEF Answers
  <2>6. PICK g, es : g = GotAfter(n, TRUE) /\ es = EndedAfter(n, TRUE)
    OBVIOUS
  <2>7. g[n] = i + 1
    BY <1>5, <2>6 DEF GotAfter, TypeOK
  <2>8. SourceAt(n, t, g)
    BY <1>7, <2>2, <2>3, <2>7
  <2> QED
    BY <1>1, <1>2, <1>3, <1>6, <2>2, <2>3, <2>4, <2>5, <2>6, <2>8, MeansPop
<1>9. CASE ~ (i < l)
  <2>1. Return(c, FALSE, Undef)
    <3>1. Top.st[Top.node].currentIndex = i /\ ~ (i < Len(plan.data[Top.node]))
      BY <1>1, <1>2, <1>4, <1>5, <1>9
    <3> QED
      BY <1>2, <3>1 DEF NextByIndex
  <2>2. Answers(n, FALSE, Undef)
    BY <1>4, <1>5, <1>9 DEF Answers
  <2>3. PICK g, es : g = GotAfter(n, FALSE) /\ es = EndedAfter(n, FALSE)
    OBVIOUS
  <2>4. SourceAt(n, c, g)
    BY <1>2, <1>5, <1>7, <2>3 DEF GotAfter
  <2> QED
    BY <1>1, <1>2, <1>3, <1>6, <2>1, <2>2, <2>3, <2>4, MeansPop
<1> QED
  BY <1>8, <1>9

LEMMA MeansByFlag ==
  ASSUME TypeOK, CallsNest, FinalInv, MeansInv, driver.pc = "next", ValueToStreamNext
  PROVE  MeansInv'
<1>1. stack # << >> /\ ctl = "call" /\ Kind(Top.node) = "value_to_stream"
  BY DEF ValueToStreamNext, AtEntry, At
<1>2. PICK n \in plan.nodes : n = Top.node /\ phase[n] = "open"
  BY <1>1, TopIsOpen
<1>3. PICK c, q : c = Top.st /\ q = c[n]
  OBVIOUS
<1>4. /\ plan \in Plans /\ IsState(c) /\ Cur = c /\ DOMAIN q = Fields /\ q.hasReturned \in BOOLEAN
  BY <1>1, <1>2, <1>3, EntryIs DEF FinalInv
<1>5. PICK x : x = StreamOf(n) /\ IsSeq(x) /\ x = plan.data[n] /\ Len(x) = 1
  <2>1. OpOK(plan, n)
    BY <1>4, PlansAssumption DEF PlanOK
  <2>2. Len(plan.data[n]) = 1
    BY <1>1, <1>2, <2>1 DEF OpOK, Kind
  <2> QED
    BY <1>1, <1>2, <1>4, <2>2, StreamOfKind DEF Sources
<1>6. PICK i \in {0, 1} : i = got[n] /\ (q.hasReturned <=> i = 1)
  <2>1. Counted(n, got, ended) /\ SourceAt(n, c, got)
    BY <1>2, <1>4 DEF MeansInv, MeansNext
  <2>2. got[n] \in Nat /\ got[n] <= 1
    BY <1>5, <2>1 DEF Counted, TypeOK
  <2>3. q.hasReturned <=> got[n] = 1
    BY <1>1, <1>2, <1>3, <2>1, Zenon DEF SourceAt
  <2>4. got[n] = 0 \/ got[n] = 1
    BY <2>2
  <2> QED
    BY <2>3, <2>4
<1>7. q.value = x[1]
  BY <1>1, <1>2, <1>3, <1>4, <1>5 DEF MeansInv, ValuesKept
<1>8. PICK r, t : r = [q EXCEPT !.hasReturned = TRUE] /\ t = SetField(c, n, r)
  OBVIOUS
<1>9. DOMAIN r = Fields /\ r.hasReturned = TRUE /\ r.value = q.value
  BY <1>4, <1>8 DEF Fields
<1>10. /\ IsState(t) /\ SameOutside(t, c, n) /\ t[n] = r
       /\ \A m \in plan.nodes \ {n} : t[m] = c[m]
  <2>1. r.hasReturned \in BOOLEAN /\ t = SetField(c, n, r)
    BY <1>8, <1>9
  <2> QED
    BY <1>4, <1>9, <2>1, SetFieldIs
<1>11. PICK h \in BOOLEAN : h = ~ q.hasReturned
  BY <1>4
<1>12. Return(t, h, q.value) /\ (h <=> i = 0)
  <2>1. h <=> i = 0
    <3>1. i = 0 <=> ~ (i = 1)
      BY <1>6
    <3>2. (q.hasReturned <=> i = 1) /\ h = ~ q.hasReturned
      BY <1>6, <1>11, Zenon
    <3> QED
      BY <3>1, <3>2, Zenon
  <2>2. Return(t, h, q.value)
    BY <1>2, <1>3, <1>8, <1>11 DEF ValueToStreamNext
  <2> QED
    BY <2>1, <2>2
<1>13. Answers(n, h, q.value)
  BY <1>5, <1>6, <1>7, <1>12 DEF Answers
<1>14. PICK g, es : g = GotAfter(n, h) /\ es = EndedAfter(n, h)
  OBVIOUS
<1>15. g[n] = 1
  <2>1. h => g[n] = i + 1
    BY <1>6, <1>14 DEF GotAfter, TypeOK
  <2>2. ~ h => g[n] = i
    BY <1>6, <1>14 DEF GotAfter
  <2> QED
    BY <1>6, <1>12, <2>1, <2>2
<1>16. SourceAt(n, t, g)
  <2>1. t[n].hasReturned <=> g[n] = 1
    BY <1>9, <1>10, <1>15
  <2> QED
    BY <1>1, <1>2, <2>1, Zenon DEF SourceAt
<1>17. AtRest(n, g, es)
  BY <1>1, <1>2, Zenon DEF AtRest
<1>18. /\ SameOutside(t, Top.st, Top.node) /\ t[n].value = Cur[n].value
       /\ \A m \in plan.nodes \ {n} : t[m] = Cur[m]
  BY <1>2, <1>3, <1>4, <1>9, <1>10
<1> QED
  BY <1>1, <1>2, <1>10, <1>12, <1>13, <1>14, <1>16, <1>17, <1>18, MeansPop

(* The first call of a Next function.                                      *)
LEMMA MeansFirst ==
  ASSUME TypeOK, CallsNest, FinalInv, MeansInv, driver.pc = "next", stack # << >>,
         Kind(Top.node) \in {"filter", "map", "reduce", "zip"}, CallFirst
  PROVE  MeansInv'
<1>1. ctl = "call" /\ CallUpstream(Top, 1) /\ Resumed = Top
  BY DEF CallFirst, Resumed
<1>2. PICK f : f = Top
  OBVIOUS
<1>3. DOMAIN f = FrameFields /\ f.node = Top.node /\ f.fn = Top.fn /\ f.st = Resumed.st
  BY <1>1, <1>2, TopFacts
<1>4. 1 \in DOMAIN Ups(Top.node) /\ f.up = 0 /\ DOMAIN Ups(f.node) \subseteq Nat \ {0}
  <2>1. Top.up = 0
    BY <1>1 DEF CallsNest, Nesting
  <2> QED
    BY <1>2, <2>1, TopFacts, KindFacts
<1>5. InCall(f, got, ended)
  <2>1. PICK L \in 1 .. Len(stack) : L = Len(stack)
    <3>1. IsSeq(stack)
      BY DEF TypeOK, IsSeq
    <3> QED
      BY <3>1, EmptyIffLen0 DEF IsSeq
  <2>2. SeenBy(L) = got /\ f = stack[L]
    BY <1>1, <1>2, <2>1 DEF SeenBy, Top
  <2>3. InCall(stack[L], SeenBy(L), ended)
    BY <2>1 DEF MeansInv, MeansNext
  <2> QED
    BY <2>2, <2>3
<1>6. PICK x : x = [f EXCEPT !.up = 1]
  OBVIOUS
<1>7. /\ x.node = f.node /\ x.up = 1 /\ x.inLoop = f.inLoop /\ x.acc = f.acc
      /\ x.elements = f.elements
  BY <1>3, <1>6 DEF FrameFields
<1>8. ZipSoFar(f, got, ended) => ZipSoFar(x, got, ended)
  <2>1. \A k \in DOMAIN Ups(f.node) : ~ (k < f.up) /\ ~ (k < x.up)
    BY <1>4, <1>7
  <2> QED
    BY <1>7, <2>1 DEF ZipSoFar
<1>9. Kind(x.node) = "zip" =>
        /\ IsSeq(x.elements) /\ Len(x.elements) = IF x.up = 0 THEN 0 ELSE x.up - 1
        /\ IF x.node \in ended THEN ZipEnded(x.node, got, ended) ELSE ZipSoFar(x, got, ended)
  <2>1. Kind(f.node) = "zip" =>
          /\ IsSeq(f.elements) /\ Len(f.elements) = IF f.up = 0 THEN 0 ELSE f.up - 1
          /\ IF f.node \in ended THEN ZipEnded(f.node, got, ended) ELSE ZipSoFar(f, got, ended)
    BY <1>5, Zenon DEF InCall
  <2> QED
    BY <1>4, <1>7, <1>8, <2>1
<1>10. InCall(x, got, ended)
  BY <1>5, <1>7, <1>9, Zenon DEF InCall
<1>11. CallUpstream(f, 1)
  BY <1>1, <1>2
<1> QED
  BY <1>3, <1>4, <1>6, <1>10, <1>11, MeansPush

(* What the answer of the upstream says when a Next function resumes.      *)
Seen == SeenBy(Len(stack))
LEMMA UpstreamSaid ==
  ASSUME TypeOK, CallsNest, FinalInv, MeansInv, driver.pc = "next", stack # << >>, ctl = "ret",
         NEW n, n = Top.node, NEW u, u = Ups(n)[Top.up], NEW s, s = StreamOf(u)
  PROVE  /\ plan \in Plans /\ n \in plan.nodes /\ u \in plan.nodes /\ u # n
         /\ Top.up \in DOMAIN Ups(n) /\ IsSeq(s)
         /\ \A m \in plan.nodes : got[m] \in Nat
         /\ got[u] <= Len(s) /\ Counted(n, got, ended)
         /\ ret.hasNext \in BOOLEAN /\ (ret.hasNext <=> u \notin ended)
         /\ ret.hasNext => /\ got[u] > 0 /\ ret.element = s[got[u]]
                           /\ Seen[u] = got[u] - 1
         /\ ~ ret.hasNext => Seen = got /\ got[u] = Len(s)
         /\ \A m \in plan.nodes \ {u} : Seen[m] = got[m]
         /\ InCall(Top, Seen, ended)
<1>1. PICK L \in 1 .. Len(stack) : L = Len(stack)
  <2>1. IsSeq(stack)
    BY DEF TypeOK, IsSeq
  <2> QED
    BY <2>1, EmptyIffLen0 DEF IsSeq
<1>2. /\ plan \in Plans /\ n \in plan.nodes /\ Top.up \in DOMAIN Ups(n) /\ Returned = u
      /\ phase[n] = "open" /\ Top.fn = "next"
  BY TopFacts, TopIsOpen, ResumedIs DEF FinalInv
<1>3. u \in plan.nodes /\ n \notin Below(u)
  BY <1>2, BelowFacts
<1>4. u \in Below(u)
  BY <1>2, <1>3, BelowFacts
<1>5. phase[u] = "open"
  <2>1. FrameVisited(L) /\ stack[L] = Top
    BY <1>1 DEF CallsNest, Visited, Top
  <2> QED
    BY <1>1, <1>2, <1>4, <2>1 DEF FrameVisited, After
<1>6. IsSeq(s) /\ \A m \in plan.nodes : got[m] \in Nat
  BY <1>2, <1>3, StreamOfKind DEF TypeOK
<1>7. Counted(u, got, ended) /\ Counted(n, got, ended)
  BY <1>2, <1>3, <1>5 DEF MeansInv, MeansNext
<1>8. got[u] <= Len(s) /\ (u \in ended => got[u] = Len(s))
  BY <1>7 DEF Counted
<1>9. ret.hasNext \in BOOLEAN /\ (ret.hasNext <=> u \notin ended)
  BY <1>2 DEF FinalInv, EndsHold
<1>10. ret.hasNext => got[u] > 0 /\ ret.element = s[got[u]]
  BY <1>2 DEF MeansInv, MeansNext
<1>11. InCall(Top, Seen, ended)
  BY <1>1 DEF MeansInv, MeansNext, Top, Seen
<1>12. Called(L) = u
  BY <1>1 DEF Called, Top
<1>13. Seen = IF ret.hasNext THEN [got EXCEPT ![u] = @ - 1] ELSE got
  BY <1>1, <1>12 DEF Seen, SeenBy
<1>14. /\ ret.hasNext => Seen[u] = got[u] - 1
       /\ ~ ret.hasNext => Seen = got
       /\ \A m \in plan.nodes \ {u} : Seen[m] = got[m]
  BY <1>3, <1>13 DEF TypeOK
<1> QED
  BY <1>2, <1>3, <1>4, <1>6, <1>7, <1>8, <1>9, <1>10, <1>11, <1>14

(* An op with upstreams that resumes returns, or calls its upstream again. *)
LEMMA MeansReturn ==
  ASSUME TypeOK, CallsNest, FinalInv, MeansInv, driver.pc = "next", stack # << >>,
         Kind(Top.node) \notin Sources, NEW t, t = Resumed.st,
         NEW hasNext \in BOOLEAN, NEW v, Return(t, hasNext, v), Answers(Top.node, hasNext, v),
         AtRest(Top.node, GotAfter(Top.node, hasNext), EndedAfter(Top.node, hasNext))
  PROVE  MeansInv'
<1>1. /\ IsState(t) /\ SameOutside(t, Top.st, Top.node) /\ Top.node \in plan.nodes
      /\ \A m \in plan.nodes : t[m] = Cur[m]
  BY ResumedIs, TopFacts DEF FinalInv
<1>2. PICK g, es : g = GotAfter(Top.node, hasNext) /\ es = EndedAfter(Top.node, hasNext)
  OBVIOUS
<1>3. SourceAt(Top.node, t, g)
  BY DEF SourceAt, Sources
<1>4. AtRest(Top.node, g, es)
  BY <1>2
<1> QED
  BY <1>1, <1>2, <1>3, <1>4, MeansPop

LEMMA MeansAgain ==
  ASSUME TypeOK, CallsNest, FinalInv, MeansInv, driver.pc = "next", stack # << >>,
         Kind(Top.node) \in {"filter", "map"}, CallUpstream(Resumed, 1),
         Kind(Top.node) = "map" => got[Ups(Top.node)[1]] = got[Top.node],
         Kind(Top.node) = "filter" =>
           Len(Selected(Top.node)[got[Ups(Top.node)[1]]]) = got[Top.node]
  PROVE  MeansInv'
<1>1. PICK f : f = Resumed
  OBVIOUS
<1>2. DOMAIN f = FrameFields /\ f.node = Top.node /\ f.fn = Top.fn /\ f.st = Resumed.st
  BY <1>1, TopFacts
<1>3. 1 \in DOMAIN Ups(Top.node)
  BY TopFacts, KindFacts
<1>4. CallUpstream(f, 1)
  BY <1>1
<1>5. PICK x : x = [f EXCEPT !.up = 1]
  OBVIOUS
<1>6. x.node = Top.node
  BY <1>2, <1>5 DEF FrameFields
<1>7. InCall(x, got, ended)
  BY <1>6 DEF InCall
<1> QED
  BY <1>2, <1>3, <1>4, <1>5, <1>7, MeansPush

(* What is known when an op with one upstream resumes.                     *)
LEMMA OneSaid ==
  ASSUME TypeOK, CallsNest, FinalInv, MeansInv, driver.pc = "next", stack # << >>, ctl = "ret",
         Kind(Top.node) \in {"filter", "map", "reduce"},
         NEW n, n = Top.node, NEW u, u = Ups(n)[1], NEW s, s = StreamOf(u)
  PROVE  /\ plan \in Plans /\ n \in plan.nodes /\ u \in plan.nodes /\ u # n
         /\ IsSeq(s) /\ IsSeq(StreamOf(n))
         /\ got[u] \in Nat /\ got[n] \in Nat
         /\ got[u] <= Len(s) /\ Counted(n, got, ended)
         /\ ret.hasNext \in BOOLEAN /\ (ret.hasNext <=> u \notin ended)
         /\ ret.hasNext => /\ got[u] > 0 /\ ret.element = s[got[u]]
                           /\ Seen[u] = got[u] - 1
         /\ ~ ret.hasNext => Seen[u] = got[u] /\ got[u] = Len(s)
         /\ Seen[n] = got[n] /\ InCall(Top, Seen, ended)
         /\ \A h \in BOOLEAN : /\ GotAfter(n, h)[u] = got[u]
                               /\ GotAfter(n, h)[n] = IF h THEN got[n] + 1 ELSE got[n]
                               /\ ~ h => n \in EndedAfter(n, h)
<1>1. Top.up = 1 /\ Top.up \in DOMAIN Ups(n)
  <2>1. plan \in Plans /\ n \in plan.nodes /\ Top.up \in DOMAIN Ups(n)
    BY TopFacts, ResumedIs DEF FinalInv
  <2>2. TreeOK(plan, n) /\ OpOK(plan, n)
    BY <2>1, PlansAssumption DEF PlanOK
  <2>3. Len(Ups(n)) = 1 /\ DOMAIN Ups(n) = 1 .. Len(Ups(n))
    BY <2>1, <2>2 DEF TreeOK, OpOK, Kind, Ups
  <2> QED
    BY <2>1, <2>3
<1>2. u = Ups(n)[Top.up]
  BY <1>1
<1>3. /\ plan \in Plans /\ n \in plan.nodes /\ u \in plan.nodes /\ u # n /\ IsSeq(s)
      /\ \A m \in plan.nodes : got[m] \in Nat
      /\ got[u] <= Len(s) /\ Counted(n, got, ended)
      /\ ret.hasNext \in BOOLEAN /\ (ret.hasNext <=> u \notin ended)
      /\ ret.hasNext => /\ got[u] > 0 /\ ret.element = s[got[u]]
                        /\ Seen[u] = got[u] - 1
      /\ ~ ret.hasNext => Seen = got /\ got[u] = Len(s)
      /\ \A m \in plan.nodes \ {u} : Seen[m] = got[m]
      /\ InCall(Top, Seen, ended)
  BY <1>2, UpstreamSaid
<1>4. IsSeq(StreamOf(n))
  BY <1>3, StreamOfKind
<1>5. \A h \in BOOLEAN : /\ GotAfter(n, h)[u] = got[u]
                         /\ GotAfter(n, h)[n] = IF h THEN got[n] + 1 ELSE got[n]
                         /\ ~ h => n \in EndedAfter(n, h)
  BY <1>3 DEF GotAfter, EndedAfter, TypeOK
<1> QED
  BY <1>3, <1>4, <1>5

LEMMA MeansMap ==
  ASSUME TypeOK, CallsNest, FinalInv, MeansInv, driver.pc = "next", MapNext, ~ CallFirst
  PROVE  MeansInv'
<1>1. stack # << >> /\ ctl = "ret" /\ Kind(Top.node) = "map"
  BY DEF MapNext, At
<1>2. PICK n, u, t, h, v : /\ n = Top.node /\ u = Ups(n)[1] /\ t = Resumed.st /\ h = ret.hasNext
                           /\ v = IF ret.hasNext THEN MapFunc(plan.func[n], ret.element) ELSE Undef
  OBVIOUS
<1>3. PICK s, x : s = StreamOf(u) /\ x = StreamOf(n)
  OBVIOUS
<1>4. /\ plan \in Plans /\ n \in plan.nodes /\ h \in BOOLEAN
      /\ got[u] \in Nat /\ got[n] \in Nat /\ got[u] <= Len(s) /\ Len(s) \in Nat
      /\ h => got[u] > 0 /\ ret.element = s[got[u]] /\ Seen[u] = got[u] - 1
      /\ ~ h => Seen[u] = got[u] /\ got[u] = Len(s)
      /\ Seen[n] = got[n] /\ InCall(Top, Seen, ended)
      /\ GotAfter(n, h)[u] = got[u]
      /\ GotAfter(n, h)[n] = IF h THEN got[n] + 1 ELSE got[n]
  BY <1>1, <1>2, <1>3, OneSaid DEF IsSeq
<1>5. Len(x) = Len(s) /\ \A i \in 1 .. Len(s) : x[i] = MapFunc(plan.func[n], s[i])
  <2>1. s = StreamOf(Ups(n)[1]) /\ x = StreamOf(n) /\ Kind(n) = "map"
    BY <1>1, <1>2, <1>3
  <2> QED
    BY <1>4, <2>1, StreamOfKind
<1>6. Seen[u] = got[n]
  BY <1>1, <1>2, <1>4 DEF InCall
<1>7. Return(t, h, v)
  BY <1>1, <1>2 DEF MapNext, CallFirst
<1>8. GotAfter(n, h)[u] = GotAfter(n, h)[n]
  BY <1>4, <1>6
<1>9. AtRest(n, GotAfter(n, h), EndedAfter(n, h))
  BY <1>1, <1>2, <1>8 DEF AtRest
<1>10. Answers(n, h, v)
  <2>1. CASE h
    <3>1. got[u] = got[n] + 1 /\ got[n] < Len(s) /\ got[n] + 1 \in 1 .. Len(s)
      BY <1>4, <1>6, <2>1
    <3>2. v = MapFunc(plan.func[n], s[got[n] + 1])
      BY <1>2, <1>4, <2>1, <3>1
    <3> QED
      BY <1>3, <1>5, <2>1, <3>1, <3>2 DEF Answers
  <2>2. CASE ~ h
    BY <1>3, <1>4, <1>5, <1>6, <2>2 DEF Answers
  <2> QED
    BY <2>1, <2>2
<1>11. Kind(Top.node) \notin Sources
  BY <1>1 DEF Sources
<1> QED
  BY <1>1, <1>2, <1>4, <1>7, <1>9, <1>10, <1>11, MeansReturn

LEMMA MeansFilter ==
  ASSUME TypeOK, CallsNest, FinalInv, MeansInv, driver.pc = "next", FilterNext, ~ CallFirst
  PROVE  MeansInv'
<1>1. /\ stack # << >> /\ ctl = "ret" /\ Kind(Top.node) = "filter"
  BY DEF FilterNext, At
<1>2. PICK n, u, t, h, v : /\ n = Top.node /\ u = Ups(n)[1] /\ t = Resumed.st /\ h = ret.hasNext
                           /\ v = ret.element
  OBVIOUS
<1>3. PICK s, x, m : s = StreamOf(u) /\ x = StreamOf(n) /\ m = MatchingUpTo(plan.func[n], s)
  OBVIOUS
<1>4. /\ plan \in Plans /\ n \in plan.nodes /\ h \in BOOLEAN /\ IsSeq(s)
      /\ got[u] \in Nat /\ got[n] \in Nat /\ got[u] <= Len(s) /\ Len(s) \in Nat
      /\ h => got[u] > 0 /\ v = s[got[u]] /\ Seen[u] = got[u] - 1
      /\ ~ h => Seen[u] = got[u] /\ got[u] = Len(s)
      /\ Seen[n] = got[n] /\ InCall(Top, Seen, ended)
      /\ GotAfter(n, h)[u] = got[u]
      /\ GotAfter(n, h)[n] = IF h THEN got[n] + 1 ELSE got[n]
      /\ ~ h => n \in EndedAfter(n, h)
  <2>1. Kind(Top.node) \in {"filter", "map", "reduce"}
    BY <1>1
  <2>2. /\ plan \in Plans /\ n \in plan.nodes /\ IsSeq(s) /\ h \in BOOLEAN
        /\ got[u] \in Nat /\ got[n] \in Nat /\ got[u] <= Len(s)
        /\ h => got[u] > 0 /\ v = s[got[u]] /\ Seen[u] = got[u] - 1
        /\ ~ h => Seen[u] = got[u] /\ got[u] = Len(s)
        /\ Seen[n] = got[n] /\ InCall(Top, Seen, ended)
    BY <1>1, <1>2, <1>3, <2>1, OneSaid
  <2>3. \A b \in BOOLEAN : /\ GotAfter(n, b)[u] = got[u]
                           /\ GotAfter(n, b)[n] = IF b THEN got[n] + 1 ELSE got[n]
                           /\ ~ b => n \in EndedAfter(n, b)
    BY <1>1, <1>2, <1>3, <2>1, OneSaid
  <2> QED
    BY <2>2, <2>3 DEF IsSeq
<1>5. x = m[Len(s)]
  <2>1. s = StreamOf(Ups(n)[1]) /\ x = StreamOf(n) /\ Kind(n) = "filter"
    BY <1>1, <1>2, <1>3
  <2> QED
    BY <1>3, <1>4, <2>1, StreamOfKind
<1>6. Len(m[Seen[u]]) = got[n] /\ Selected(n) = m
  BY <1>1, <1>2, <1>3, <1>4 DEF InCall, Selected
<1>7. MatchesGrow(plan.func[n], s, m)
  BY <1>3, <1>4, MatchingFacts
<1>8. CASE h /\ ~ Predicate(plan.func[n], v)
  <2>1. CallUpstream(Resumed, 1)
    BY <1>1, <1>2, <1>8 DEF FilterNext, CallFirst
  <2>2. PICK i \in 1 .. Len(s) : i = got[u] /\ Seen[u] = i - 1
    BY <1>4, <1>8
  <2>3. m[i] = m[i - 1]
    BY <1>4, <1>7, <1>8, <2>2 DEF MatchesGrow
  <2>4. Len(m[got[u]]) = got[n]
    BY <1>6, <2>2, <2>3
  <2>5. Len(Selected(Top.node)[got[Ups(Top.node)[1]]]) = got[Top.node]
    BY <1>2, <1>6, <2>4
  <2> QED
    BY <1>1, <2>1, <2>5, MeansAgain
<1>9. CASE ~ (h /\ ~ Predicate(plan.func[n], v))
  <2>1. Return(t, h, v)
    BY <1>1, <1>2, <1>9 DEF FilterNext, CallFirst
  <2>2. ASSUME h PROVE Answers(n, h, v) /\ AtRest(n, GotAfter(n, h), EndedAfter(n, h))
    <3>1. PICK i \in 1 .. Len(s) : i = got[u] /\ Seen[u] = i - 1
      BY <1>4, <2>2
    <3>2. Predicate(plan.func[n], s[i])
      BY <1>4, <1>9, <2>2, <3>1
    <3>3. Len(m[i]) = got[n] + 1 /\ m[i][Len(m[i])] = s[i]
      BY <1>6, <1>7, <3>1, <3>2 DEF MatchesGrow
    <3>4. i \in 0 .. Len(s) /\ Len(s) \in i .. Len(s) /\ got[n] + 1 \in 1 .. Len(m[i])
      BY <1>4, <3>1, <3>3
    <3>5. got[n] + 1 <= Len(x) /\ x[got[n] + 1] = s[i]
      BY <1>5, <1>7, <3>3, <3>4 DEF MatchesGrow
    <3>6. Len(x) \in Nat
      BY <1>4, <1>5, <1>7 DEF MatchesGrow, IsSeq
    <3>7. Answers(n, h, v)
      BY <1>3, <1>4, <2>2, <3>1, <3>5, <3>6 DEF Answers
    <3>8. AtRest(n, GotAfter(n, h), EndedAfter(n, h))
      <4>1. Len(m[GotAfter(n, h)[u]]) = GotAfter(n, h)[n]
        BY <1>4, <2>2, <3>1, <3>3
      <4>2. Predicate(plan.func[n], s[GotAfter(n, h)[u]])
        BY <1>4, <3>1, <3>2
      <4> QED
        BY <1>1, <1>2, <1>3, <1>6, <4>1, <4>2 DEF AtRest
    <3> QED
      BY <3>7, <3>8
  <2>3. ASSUME ~ h PROVE Answers(n, h, v) /\ AtRest(n, GotAfter(n, h), EndedAfter(n, h))
    <3>1. Len(m[Len(s)]) = got[n] /\ got[u] = Len(s)
      BY <1>4, <1>6, <2>3
    <3>2. Answers(n, h, v)
      BY <1>3, <1>5, <2>3, <3>1 DEF Answers
    <3>3. AtRest(n, GotAfter(n, h), EndedAfter(n, h))
      <4>1. Len(m[GotAfter(n, h)[u]]) = GotAfter(n, h)[n] /\ n \in EndedAfter(n, h)
        BY <1>4, <2>3, <3>1
      <4> QED
        BY <1>1, <1>2, <1>6, <4>1 DEF AtRest
    <3> QED
      BY <3>2, <3>3
  <2>4. Answers(n, h, v) /\ AtRest(n, GotAfter(n, h), EndedAfter(n, h))
    BY <2>2, <2>3
  <2>5. Kind(Top.node) \notin Sources
    BY <1>1 DEF Sources
  <2> QED
    BY <1>1, <1>2, <1>4, <2>1, <2>4, <2>5, MeansReturn
<1> QED
  BY <1>8, <1>9

LEMMA MeansReduce ==
  ASSUME TypeOK, CallsNest, FinalInv, MeansInv, driver.pc = "next", ReduceNext, ~ CallFirst
  PROVE  MeansInv'
<1>1. /\ stack # << >> /\ ctl = "ret" /\ Kind(Top.node) = "reduce"
  BY DEF ReduceNext, At
<1>2. PICK n, u, t, h, v : /\ n = Top.node /\ u = Ups(n)[1] /\ t = Resumed.st /\ h = ret.hasNext
                           /\ v = ret.element
  OBVIOUS
<1>3. PICK s, x, R : s = StreamOf(u) /\ x = StreamOf(n) /\ R = ReducedUpTo(plan.func[n], s)
  OBVIOUS
<1>4. Kind(Top.node) \in {"filter", "map", "reduce"} /\ Kind(Top.node) \notin Sources
  BY <1>1 DEF Sources
<1>5. /\ plan \in Plans /\ n \in plan.nodes /\ IsSeq(s) /\ h \in BOOLEAN /\ IsSeq(x)
      /\ got[u] \in Nat /\ got[n] \in Nat /\ got[u] <= Len(s)
      /\ h => got[u] > 0 /\ v = s[got[u]] /\ Seen[u] = got[u] - 1
      /\ ~ h => Seen[u] = got[u] /\ got[u] = Len(s)
      /\ Seen[n] = got[n] /\ InCall(Top, Seen, ended) /\ Counted(n, got, ended)
  BY <1>1, <1>2, <1>3, <1>4, OneSaid
<1>6. \A b \in BOOLEAN : /\ GotAfter(n, b)[u] = got[u]
                         /\ GotAfter(n, b)[n] = IF b THEN got[n] + 1 ELSE got[n]
                         /\ ~ b => n \in EndedAfter(n, b)
  BY <1>1, <1>2, <1>3, <1>4, OneSaid
<1>7. PICK l \in Nat : l = Len(s) /\ got[u] <= l
  BY <1>5 DEF IsSeq
<1>8. /\ l = 0 => Len(x) = 0
      /\ l # 0 => Len(x) = 1 /\ x[1] = R[l]
  <2>1. s = StreamOf(Ups(n)[1]) /\ x = StreamOf(n) /\ Kind(n) = "reduce"
    BY <1>1, <1>2, <1>3
  <2> QED
    BY <1>3, <1>5, <1>7, <2>1, StreamOfKind
<1>9. got[n] <= Len(x) /\ (n \in ended => got[n] = Len(x))
  BY <1>3, <1>5 DEF Counted
<1>10. /\ Top.inLoop => got[n] = 0 /\ Seen[u] > 0 /\ Top.acc = R[Seen[u]]
       /\ ~ Top.inLoop => IF got[n] = 0 /\ n \notin ended THEN Seen[u] = 0 ELSE Seen[u] = l
  <2>1. Kind(Top.node) = "reduce" =>
          IF Top.inLoop THEN /\ Seen[Top.node] = 0 /\ Seen[Ups(Top.node)[1]] > 0
                             /\ Top.acc = Reduced(Top.node)[Seen[Ups(Top.node)[1]]]
                        ELSE ReduceAtRest(Top.node, Seen, ended)
    BY <1>5, Zenon DEF InCall
  <2>2. Reduced(n) = R
    BY <1>2, <1>3 DEF Reduced
  <2>3. ReduceAtRest(n, Seen, ended) =>
          IF got[n] = 0 /\ n \notin ended THEN Seen[u] = 0 ELSE Seen[u] = l
    BY <1>2, <1>3, <1>5, <1>7 DEF ReduceAtRest
  <2>4. /\ Top.inLoop => Seen[n] = 0 /\ Seen[u] > 0 /\ Top.acc = R[Seen[u]]
        /\ ~ Top.inLoop => ReduceAtRest(n, Seen, ended)
    BY <1>1, <1>2, <2>1, <2>2
  <2> QED
    BY <1>5, <2>3, <2>4
<1>11. /\ l > 0 => R[1] = s[1]
       /\ \A i \in 2 .. l : R[i] = ReduceFunc(plan.func[n], R[i - 1], s[i])
  BY <1>3, <1>7, ReducedUnfold
<1>12. \A g, es : (IF g[n] = 0 /\ n \notin es THEN g[u] = 0 ELSE g[u] = l) => AtRest(n, g, es)
  BY <1>1, <1>2, <1>3, <1>7 DEF AtRest, ReduceAtRest
<1>13. CASE h
  <2>1. PICK acc : acc = IF Top.inLoop THEN ReduceFunc(plan.func[n], Top.acc, v) ELSE v
    OBVIOUS
  <2>2. CallUpstream([Resumed EXCEPT !.inLoop = TRUE, !.acc = acc], 1)
    BY <1>1, <1>2, <1>13, <2>1 DEF ReduceNext, CallFirst
  <2>3. PICK r : r = Resumed
    OBVIOUS
  <2>4. PICK f : f = [r EXCEPT !.inLoop = TRUE, !.acc = acc]
    OBVIOUS
  <2>5. DOMAIN r = FrameFields /\ r.node = Top.node /\ r.fn = Top.fn
    BY <1>1, <2>3, TopFacts
  <2>6. /\ DOMAIN f = FrameFields /\ f.node = Top.node /\ f.fn = Top.fn /\ f.st = r.st
        /\ f.inLoop = TRUE /\ f.acc = acc
    BY <2>4, <2>5 DEF FrameFields
  <2>7. CallUpstream(f, 1)
    BY <2>2, <2>3, <2>4
  <2>8. 1 \in DOMAIN Ups(Top.node)
    BY <1>1, TopFacts, KindFacts
  <2>9. PICK y : y = [f EXCEPT !.up = 1]
    OBVIOUS
  <2>10. y.node = n /\ y.inLoop = TRUE /\ y.acc = acc
    BY <1>2, <2>6, <2>9 DEF FrameFields
  <2>11. PICK i \in 1 .. l : i = got[u] /\ Seen[u] = i - 1 /\ v = s[i]
    BY <1>5, <1>7, <1>13
  <2>12. got[n] = 0 /\ acc = R[i]
    <3>1. CASE Top.inLoop
      <4>1. got[n] = 0 /\ i \in 2 .. l /\ Top.acc = R[i - 1]
        BY <1>10, <2>11, <3>1
      <4> QED
        BY <1>11, <2>1, <2>11, <3>1, <4>1
    <3>2. CASE ~ Top.inLoop
      <4>1. got[n] = 0 /\ i = 1
        BY <1>10, <2>11, <3>2
      <4>2. acc = v /\ l > 0
        BY <2>1, <2>11, <3>2
      <4> QED
        BY <1>11, <2>11, <4>1, <4>2
    <3> QED
      BY <3>1, <3>2
  <2>13. got[u] > 0 /\ acc = Reduced(n)[got[u]]
    BY <1>2, <1>3, <2>11, <2>12 DEF Reduced
  <2>14. InCall(y, got, ended)
    <3>1. Kind(n) = "reduce" /\ u = Ups(n)[1]
      BY <1>1, <1>2
    <3> QED
      BY <2>10, <2>12, <2>13, <3>1 DEF InCall
  <2> QED
    BY <1>1, <2>3, <2>6, <2>7, <2>8, <2>9, <2>14, MeansPush
<1>14. CASE ~ h /\ Top.inLoop
  <2>1. Return(t, TRUE, Top.acc)
    BY <1>1, <1>2, <1>14 DEF ReduceNext, CallFirst
  <2>2. got[n] = 0 /\ l # 0 /\ Top.acc = x[1] /\ got[u] = l
    BY <1>5, <1>7, <1>8, <1>10, <1>14
  <2>3. Len(x) = 1
    BY <1>8, <2>2
  <2>4. Answers(n, TRUE, Top.acc)
    BY <1>3, <2>2, <2>3 DEF Answers
  <2>5. PICK g, es : g = GotAfter(n, TRUE) /\ es = EndedAfter(n, TRUE)
    OBVIOUS
  <2>6. AtRest(n, g, es)
    <3>1. g[n] = got[n] + 1 /\ g[u] = got[u]
      BY <1>6, <2>5
    <3>2. g[n] # 0 /\ g[u] = l
      BY <2>2, <3>1
    <3> QED
      BY <1>12, <3>2
  <2> QED
    BY <1>1, <1>2, <1>4, <2>1, <2>4, <2>5, <2>6, MeansReturn
<1>15. CASE ~ h /\ ~ Top.inLoop
  <2>1. Return(t, FALSE, v)
    BY <1>1, <1>2, <1>15 DEF ReduceNext, CallFirst
  <2>2. got[u] = l /\ Seen[u] = l
    BY <1>5, <1>7, <1>15
  <2>3. got[n] = Len(x)
    <3>1. got[n] = 0 /\ n \notin ended => l = 0
      BY <1>10, <1>15, <2>2
    <3>2. Len(x) = 0 \/ Len(x) = 1
      BY <1>8
    <3>3. PICK a \in Nat : a = got[n]
      BY <1>5
    <3>4. CASE n \in ended
      BY <1>9, <3>4
    <3>5. CASE n \notin ended
      <4>1. a <= Len(x) /\ (a = 0 => l = 0)
        BY <1>9, <3>1, <3>3, <3>5
      <4>2. (l = 0 => Len(x) = 0) /\ (l # 0 => Len(x) = 1)
        BY <1>8
      <4>3. PICK b \in Nat : b = Len(x)
        BY <1>5 DEF IsSeq
      <4>4. a = b
        BY ONLY a \in Nat, b \in Nat, <3>2, <4>1, <4>2, <4>3
      <4> QED
        BY <3>3, <4>3, <4>4
    <3> QED
      BY <3>4, <3>5
  <2>4. Answers(n, FALSE, v)
    BY <1>3, <2>3 DEF Answers
  <2>5. GotAfter(n, FALSE)[u] = l /\ n \in EndedAfter(n, FALSE)
    BY <1>6, <2>2
  <2>6. AtRest(n, GotAfter(n, FALSE), EndedAfter(n, FALSE))
    BY <1>12, <2>5
  <2> QED
    BY <1>1, <1>2, <1>4, <2>1, <2>4, <2>6, MeansReturn
<1> QED
  BY <1>5, <1>13, <1>14, <1>15

(* A zip that has one more answer.                                         *)
LEMMA ZipAnswered ==
  ASSUME TypeOK, CallsNest, FinalInv, MeansInv, driver.pc = "next", stack # << >>, ctl = "ret",
         Kind(Top.node) = "zip", NEW y, y.node = Top.node, y.up = Top.up + 1,
         y.elements = Append(Top.elements, ret.element)
  PROVE  InCall(y, got, ended)
<1>1. PICK f, n : f = Top /\ n = Top.node
  OBVIOUS
<1>2. PICK u : u = Ups(n)[Top.up]
  OBVIOUS
<1>3. PICK s : s = StreamOf(u)
  OBVIOUS
<1>4. /\ plan \in Plans /\ n \in plan.nodes /\ u \in plan.nodes /\ u # n
      /\ Top.up \in DOMAIN Ups(n) /\ IsSeq(s)
      /\ \A m \in plan.nodes : got[m] \in Nat
      /\ ret.hasNext \in BOOLEAN /\ (ret.hasNext <=> u \notin ended)
      /\ ret.hasNext => /\ got[u] > 0 /\ ret.element = s[got[u]]
                        /\ Seen[u] = got[u] - 1
      /\ ~ ret.hasNext => Seen = got /\ got[u] = Len(s)
      /\ \A m \in plan.nodes \ {u} : Seen[m] = got[m]
      /\ InCall(Top, Seen, ended)
  BY <1>1, <1>2, <1>3, UpstreamSaid
<1>5. PICK l \in Nat : DOMAIN Ups(n) = 1 .. l /\ \A k \in 1 .. l : Ups(n)[k] \in plan.nodes
  BY <1>4, BelowFacts
<1>6. PICK i \in 1 .. l : i = Top.up
  BY <1>4, <1>5
<1>7. \A k \in 1 .. l : Ups(n)[k] = u => k = i
  <2> SUFFICES ASSUME NEW k \in 1 .. l, Ups(n)[k] = u, k # i PROVE FALSE
    OBVIOUS
  <2>1. Below(Ups(n)[k]) \cap Below(Ups(n)[i]) = {}
    BY <1>4, <1>5, BelowFacts
  <2>2. u \in Below(u) /\ Ups(n)[i] = u
    BY <1>2, <1>4, <1>6, BelowFacts
  <2> QED
    BY <2>1, <2>2
<1>8. /\ IsSeq(f.elements) /\ Len(f.elements) = i - 1
      /\ IF n \in ended THEN ZipEnded(n, Seen, ended) ELSE ZipSoFar(f, Seen, ended)
  <2>1. /\ IsSeq(f.elements) /\ Len(f.elements) = IF f.up = 0 THEN 0 ELSE f.up - 1
        /\ IF f.node \in ended THEN ZipEnded(f.node, Seen, ended) ELSE ZipSoFar(f, Seen, ended)
    BY <1>1, <1>4, Zenon DEF InCall
  <2> QED
    BY <1>1, <1>6, <2>1
<1>9. PICK e, z : e = f.elements /\ z = Append(e, ret.element) /\ y.elements = z
  BY <1>1
<1>10. /\ IsSeq(z) /\ Len(z) = i /\ z[i] = ret.element
       /\ \A k \in 1 .. i - 1 : z[k] = e[k]
  <2>1. PICK S : S = {e[k] : k \in 1 .. Len(e)} \cup {ret.element}
    OBVIOUS
  <2>2. PICK v \in S : v = ret.element
    BY <2>1
  <2>3. PICK d \in Seq(S) : d = e
    <3>1. e \in Seq({e[k] : k \in 1 .. Len(e)})
      BY <1>8, <1>9, SeqOverRange
    <3>2. e \in Seq(S)
      BY <2>1, <3>1
    <3> QED
      BY <3>2
  <2>4. z = Append(d, v) /\ Len(d) = i - 1
    BY <1>8, <1>9, <2>2, <2>3
  <2>5. z \in Seq(S) /\ Len(z) = Len(d) + 1 /\ z[Len(d) + 1] = v /\ \A k \in 1 .. Len(d) : z[k] = d[k]
    BY <2>4
  <2>6. IsSeq(z)
    BY <2>5, SeqIsSeq
  <2> QED
    BY <2>2, <2>3, <2>4, <2>5, <2>6
<1>11. y.node = n /\ y.up = i + 1
  BY <1>1, <1>6
<1>12. ASSUME n \in ended PROVE ZipEnded(n, got, ended)
  <2>1. ZipEnded(n, Seen, ended)
    BY <1>8, <1>12
  <2>2. \A k \in 1 .. l : got[Ups(n)[k]] >= got[n]
    <3> SUFFICES ASSUME NEW k \in 1 .. l PROVE got[Ups(n)[k]] >= got[n]
      OBVIOUS
    <3>1. PICK a, b \in Nat : a = got[Ups(n)[k]] /\ b = got[n]
      BY <1>4, <1>5
    <3>2. Seen[Ups(n)[k]] >= b
      BY <1>4, <1>5, <2>1, <3>1 DEF ZipEnded
    <3>3. Seen[Ups(n)[k]] = a \/ Seen[Ups(n)[k]] = a - 1
      BY <1>4, <1>5, <3>1
    <3> QED
      BY <3>1, <3>2, <3>3
  <2>3. PICK k \in 1 .. l : Ups(n)[k] \in ended /\ Seen[Ups(n)[k]] = Seen[n]
    BY <1>5, <2>1 DEF ZipEnded
  <2>4. got[Ups(n)[k]] = got[n]
    BY <1>4, <1>5, <2>3
  <2> QED
    BY <1>5, <2>2, <2>3, <2>4 DEF ZipEnded
<1>13. ASSUME n \notin ended PROVE ZipSoFar(y, got, ended)
  <2> SUFFICES ASSUME NEW k \in 1 .. l
               PROVE  IF k < i + 1 /\ Ups(n)[k] \notin ended
                        THEN /\ got[Ups(n)[k]] = got[n] + 1
                             /\ z[k] = StreamOf(Ups(n)[k])[got[n] + 1]
                        ELSE got[Ups(n)[k]] = got[n]
    BY <1>5, <1>9, <1>11 DEF ZipSoFar
  <2>1. IF k < i /\ Ups(n)[k] \notin ended
          THEN /\ Seen[Ups(n)[k]] = got[n] + 1
               /\ e[k] = StreamOf(Ups(n)[k])[got[n] + 1]
          ELSE Seen[Ups(n)[k]] = got[n]
    <3>1. ZipSoFar(f, Seen, ended) /\ Seen[n] = got[n]
      BY <1>4, <1>8, <1>13
    <3> QED
      BY <1>1, <1>5, <1>6, <1>9, <3>1 DEF ZipSoFar
  <2>2. CASE k = i
    <3>1. Ups(n)[k] = u /\ k < i + 1 /\ ~ (k < i)
      BY <1>2, <1>6, <2>2
    <3>2. PICK a, b \in Nat : a = got[u] /\ b = got[n]
      BY <1>4
    <3>3. Seen[u] = b
      BY <2>1, <3>1, <3>2
    <3>4. u \notin ended => a = b + 1 /\ z[k] = s[b + 1]
      BY <1>4, <1>10, <2>2, <3>2, <3>3
    <3>5. u \in ended => a = b
      BY <1>4, <3>2, <3>3
    <3> QED
      BY <1>3, <3>1, <3>2, <3>4, <3>5
  <2>3. CASE k # i
    <3>1. Seen[Ups(n)[k]] = got[Ups(n)[k]]
      BY <1>4, <1>5, <1>7, <2>3
    <3>2. (k < i + 1 <=> k < i) /\ (k < i => k \in 1 .. i - 1)
      BY <2>3
    <3>3. k < i => z[k] = e[k]
      BY <1>10, <3>2
    <3> QED
      BY <2>1, <3>1, <3>2, <3>3
  <2> QED
    BY <2>2, <2>3
<1>14. IsSeq(y.elements) /\ Len(y.elements) = IF y.up = 0 THEN 0 ELSE y.up - 1
  BY <1>9, <1>10, <1>11
<1>15. Kind(n) = "zip"
  BY <1>1
<1> QED
  BY <1>11, <1>12, <1>13, <1>14, <1>15 DEF InCall

(* A zip whose upstreams have all answered.                                *)
LEMMA ZipAnswers ==
  ASSUME TypeOK, CallsNest, FinalInv, MeansInv, driver.pc = "next", stack # << >>,
         Kind(Top.node) = "zip", NEW n, n = Top.node, NEW y, y.node = n,
         y.up = Len(Ups(n)) + 1, InCall(y, got, ended), NEW h \in BOOLEAN,
         h <=> \A k \in DOMAIN Ups(n) : Ups(n)[k] \notin ended
  PROVE  Answers(n, h, y.elements) /\ AtRest(n, GotAfter(n, h), EndedAfter(n, h))
<1>1. plan \in Plans /\ n \in plan.nodes /\ phase[n] = "open"
  BY TopIsOpen DEF TypeOK
<1>2. PICK l \in Nat : /\ l = Len(Ups(n)) /\ DOMAIN Ups(n) = 1 .. l
                       /\ \A k \in 1 .. l : Ups(n)[k] \in plan.nodes /\ Ups(n)[k] # n
  <2>1. \A k \in DOMAIN Ups(n) : Ups(n)[k] \in plan.nodes /\ n \notin Below(Ups(n)[k])
    BY <1>1, BelowFacts
  <2>2. n \in Below(n)
    BY <1>1, BelowFacts
  <2> QED
    BY <1>1, <2>1, <2>2, BelowFacts
<1>3. PICK x : x = StreamOf(n) /\ IsSeq(x)
  BY <1>1, StreamOfKind
<1>4. /\ \A k \in 1 .. l : Len(x) <= Len(StreamOf(Ups(n)[k]))
      /\ \E k \in 1 .. l : Len(x) = Len(StreamOf(Ups(n)[k]))
      /\ \A i \in 1 .. Len(x) : x[i] = [k \in 1 .. l |-> StreamOf(Ups(n)[k])[i]]
      /\ \A k \in 1 .. l : IsSeq(StreamOf(Ups(n)[k]))
  <2>1. PICK s : s = StreamOf(Ups(n)[1])
    OBVIOUS
  <2>2. Kind(n) = "zip" /\ x = StreamOf(n)
    BY <1>3
  <2>3. /\ \A k \in DOMAIN Ups(n) : Len(x) <= Len(StreamOf(Ups(n)[k]))
        /\ \E k \in DOMAIN Ups(n) : Len(x) = Len(StreamOf(Ups(n)[k]))
        /\ \A i \in 1 .. Len(x) : x[i] = [k \in DOMAIN Ups(n) |-> StreamOf(Ups(n)[k])[i]]
        /\ \A k \in DOMAIN Ups(n) : IsSeq(StreamOf(Ups(n)[k]))
    BY <1>1, <2>1, <2>2, StreamOfKind
  <2> QED
    BY <1>2, <2>3
<1>5. \A m \in plan.nodes : got[m] \in Nat
  BY DEF TypeOK
<1>6. PICK b, lx \in Nat : /\ b = got[n] /\ lx = Len(x) /\ b <= lx
                           /\ n \in ended => b = lx
  <2>1. Counted(n, got, ended)
    BY <1>1 DEF MeansInv, MeansNext
  <2> QED
    BY <1>1, <1>3, <1>5, <2>1 DEF Counted, IsSeq
<1>7. \A k \in 1 .. l : /\ got[Ups(n)[k]] <= Len(StreamOf(Ups(n)[k]))
                        /\ Ups(n)[k] \in ended => got[Ups(n)[k]] = Len(StreamOf(Ups(n)[k]))
  <2> SUFFICES ASSUME NEW k \in 1 .. l PROVE Counted(Ups(n)[k], got, ended)
    BY DEF Counted
  <2>1. phase[Ups(n)[k]] = "open"
    <3>1. PICK L \in 1 .. Len(stack) : L = Len(stack)
      <4>1. IsSeq(stack)
        BY DEF TypeOK, IsSeq
      <4> QED
        BY <4>1, EmptyIffLen0 DEF IsSeq
    <3>2. FrameVisited(L) /\ stack[L] = Top /\ Top.fn = "next" /\ Top.up \in Nat
      BY <3>1, TopIsOpen, TopFacts DEF CallsNest, Visited, Top
    <3>3. Ups(n)[k] \in Below(Ups(n)[k])
      BY <1>1, <1>2, BelowFacts
    <3>4. k < Top.up \/ k > Top.up \/ k = Top.up
      BY <3>2
    <3>5. k = Top.up => ctl = "ret"
      <4>1. ctl = "call" => Top.up = 0
        BY DEF CallsNest, Nesting
      <4>2. ctl \in {"call", "ret"}
        BY DEF CallsNest, Nesting, TypeOK
      <4> QED
        BY <4>1, <4>2
    <3> QED
      BY <1>2, <3>1, <3>2, <3>3, <3>4, <3>5 DEF FrameVisited, Before, After
  <2> QED
    BY <1>2, <2>1 DEF MeansInv, MeansNext
<1>8. PICK e : e = y.elements /\ IsSeq(e) /\ Len(e) = l
  <2>1. IsSeq(y.elements) /\ Len(y.elements) = IF y.up = 0 THEN 0 ELSE y.up - 1
    BY Zenon DEF InCall
  <2> QED
    BY <1>2, <2>1
<1>9. IF n \in ended THEN ZipEnded(n, got, ended) ELSE ZipSoFar(y, got, ended)
  BY Zenon DEF InCall
<1>10. n \notin ended =>
         \A k \in 1 .. l : IF Ups(n)[k] \notin ended
                             THEN /\ got[Ups(n)[k]] = b + 1
                                  /\ e[k] = StreamOf(Ups(n)[k])[b + 1]
                             ELSE got[Ups(n)[k]] = b
  <2>1. \A k \in 1 .. l : k < y.up
    BY <1>2
  <2> QED
    BY <1>2, <1>6, <1>8, <1>9, <2>1 DEF ZipSoFar
<1>11. CASE h
  <2>1. n \notin ended
    BY <1>2, <1>9, <1>11 DEF ZipEnded
  <2>2. \A k \in 1 .. l : got[Ups(n)[k]] = b + 1 /\ e[k] = StreamOf(Ups(n)[k])[b + 1]
    BY <1>2, <1>10, <1>11, <2>1
  <2>3. b + 1 \in 1 .. lx
    <3>1. PICK k \in 1 .. l : Len(x) = Len(StreamOf(Ups(n)[k]))
      BY <1>4
    <3>2. b + 1 <= lx
      BY <1>6, <1>7, <2>2, <3>1
    <3> QED
      BY <3>2
  <2>4. e = x[b + 1]
    <3>1. x[b + 1] = [k \in 1 .. l |-> StreamOf(Ups(n)[k])[b + 1]]
      BY <1>4, <1>6, <2>3
    <3>2. e = [k \in 1 .. l |-> e[k]]
      BY <1>8 DEF IsSeq
    <3> QED
      BY <2>2, <3>1, <3>2
  <2>5. Answers(n, h, y.elements)
    BY <1>3, <1>6, <1>8, <1>11, <2>3, <2>4 DEF Answers
  <2>6. PICK g, es : g = GotAfter(n, h) /\ es = EndedAfter(n, h)
    OBVIOUS
  <2>7. /\ g[n] = b + 1 /\ n \notin es
        /\ \A k \in DOMAIN Ups(n) : g[Ups(n)[k]] = b + 1
    BY <1>1, <1>2, <1>6, <1>11, <2>1, <2>2, <2>6 DEF GotAfter, EndedAfter, TypeOK
  <2>8. AtRest(n, g, es)
    BY <2>7 DEF AtRest
  <2> QED
    BY <2>5, <2>6, <2>8
<1>12. CASE ~ h
  <2>1. /\ \A k \in 1 .. l : got[Ups(n)[k]] >= b
        /\ \E k \in 1 .. l : Ups(n)[k] \in ended /\ got[Ups(n)[k]] = b
    <3>1. CASE n \in ended
      BY <1>2, <1>6, <1>9, <3>1 DEF ZipEnded
    <3>2. CASE n \notin ended
      <4>1. PICK k \in 1 .. l : Ups(n)[k] \in ended
        BY <1>2, <1>12
      <4> QED
        BY <1>6, <1>10, <3>2, <4>1
    <3> QED
      BY <3>1, <3>2
  <2>2. b = lx
    <3>1. PICK k \in 1 .. l : Ups(n)[k] \in ended /\ got[Ups(n)[k]] = b
      BY <2>1
    <3>2. b = Len(StreamOf(Ups(n)[k])) /\ lx <= Len(StreamOf(Ups(n)[k]))
      BY <1>4, <1>6, <1>7, <3>1
    <3> QED
      BY <1>6, <3>2
  <2>3. Answers(n, h, y.elements)
    BY <1>3, <1>6, <1>12, <2>2 DEF Answers
  <2>4. PICK g, es : g = GotAfter(n, h) /\ es = EndedAfter(n, h)
    OBVIOUS
  <2>5. g = got /\ n \in es /\ \A m : m \in ended => m \in es
    BY <1>12, <2>4 DEF GotAfter, EndedAfter
  <2>6. ZipEnded(n, g, es)
    BY <1>2, <1>6, <2>1, <2>5 DEF ZipEnded
  <2>7. AtRest(n, g, es)
    BY <2>5, <2>6 DEF AtRest
  <2> QED
    BY <2>3, <2>4, <2>7
<1> QED
  BY <1>11, <1>12

LEMMA MeansZip ==
  ASSUME TypeOK, CallsNest, FinalInv, MeansInv, driver.pc = "next", ZipNext, ~ CallFirst
  PROVE  MeansInv'
<1>1. stack # << >> /\ ctl = "ret" /\ Kind(Top.node) = "zip"
  BY DEF ZipNext, At
<1>2. PICK n \in plan.nodes : n = Top.node
  BY <1>1, TopFacts
<1>3. PICK r, h, e : r = Resumed /\ h = (Resumed.hasNext /\ ret.hasNext)
                     /\ e = Append(Resumed.elements, ret.element)
  OBVIOUS
<1>4. PICK f : f = [r EXCEPT !.hasNext = h, !.elements = e]
  OBVIOUS
<1>5. /\ DOMAIN r = FrameFields /\ r.node = n /\ r.fn = Top.fn /\ r.up = Top.up
      /\ r.hasNext = Top.hasNext
  BY <1>1, <1>2, <1>3, TopFacts, ResumedIs DEF FinalInv
<1>6. /\ DOMAIN f = FrameFields /\ f.node = n /\ f.fn = Top.fn /\ f.up = Top.up
      /\ f.st = r.st /\ f.hasNext = h /\ f.elements = e
  BY <1>4, <1>5 DEF FrameFields
<1>7. e = Append(Top.elements, ret.element)
  <2>1. PICK t, v : t = Top /\ v = InsertValue(Top.st, Ups(Top.node)[Top.up], ret.st)
    OBVIOUS
  <2>2. DOMAIN t = FrameFields
    BY <1>1, <2>1, TopFacts
  <2>3. r = [t EXCEPT !.st = v]
    BY <1>1, <1>3, <2>1 DEF Resumed
  <2>4. r.elements = t.elements
    BY <2>2, <2>3 DEF FrameFields
  <2> QED
    BY <1>3, <2>1, <2>4
<1>8. PICK l \in Nat : l = Len(Ups(n)) /\ DOMAIN Ups(n) = 1 .. l
  BY <1>1, <1>2, TopFacts
<1>9. PICK u \in 1 .. l : u = Top.up /\ Returned = Ups(n)[u]
  BY <1>1, <1>2, <1>8, ResumedIs DEF FinalInv
<1>10. /\ Top.hasNext \in BOOLEAN
       /\ Top.hasNext <=> \A j \in 1 .. u - 1 : Ups(n)[j] \notin ended
  <2>1. FrameEnd(Top, ended)
    BY <1>1, TopIsOpen
  <2> QED
    BY <1>1, <1>2, <1>9, <2>1, Zenon DEF FrameEnd
<1>11. ret.hasNext \in BOOLEAN /\ (ret.hasNext <=> Ups(n)[u] \notin ended)
  BY <1>1, <1>9 DEF FinalInv, EndsHold
<1>12. h \in BOOLEAN /\ (h <=> \A j \in 1 .. u : Ups(n)[j] \notin ended)
  <2>1. h \in BOOLEAN /\ (h <=> Top.hasNext /\ ret.hasNext)
    BY <1>3, <1>5, <1>10, <1>11
  <2>2. \A j \in 1 .. u : j \in 1 .. u - 1 \/ j = u
    OBVIOUS
  <2>3. u \in 1 .. u /\ \A j \in 1 .. u - 1 : j \in 1 .. u
    OBVIOUS
  <2> QED
    BY <1>10, <1>11, <2>1, <2>2, <2>3, Zenon
<1>13. IF f.up < Len(Ups(n)) THEN CallUpstream(f, f.up + 1)
                             ELSE Return(f.st, f.hasNext, f.elements)
  <2>1. f = [Resumed EXCEPT !.hasNext = @ /\ ret.hasNext, !.elements = Append(@, ret.element)]
    BY <1>3, <1>4
  <2> QED
    BY <1>1, <1>2, <2>1 DEF ZipNext, CallFirst
<1>14. PICK y : y = [f EXCEPT !.up = u + 1]
  OBVIOUS
<1>15. y.node = n /\ y.up = u + 1 /\ y.elements = e
  BY <1>6, <1>14 DEF FrameFields
<1>16. InCall(y, got, ended)
  <2>1. y.node = Top.node /\ y.up = Top.up + 1 /\ y.elements = Append(Top.elements, ret.element)
    BY <1>2, <1>7, <1>9, <1>15
  <2> QED
    BY <1>1, <2>1, ZipAnswered
<1>17. CASE u < l
  <2>1. PICK k \in 1 .. l : k = u + 1
    BY <1>17
  <2>2. CallUpstream(f, k) /\ y = [f EXCEPT !.up = k]
    BY <1>6, <1>8, <1>9, <1>13, <1>14, <1>17, <2>1
  <2> QED
    BY <1>1, <1>2, <1>3, <1>6, <1>8, <1>16, <2>2, MeansPush
<1>18. CASE ~ (u < l)
  <2>1. u = l
    BY <1>18
  <2>2. PICK t : t = Resumed.st
    OBVIOUS
  <2>3. Return(t, h, e)
    BY <1>3, <1>6, <1>8, <1>9, <1>13, <1>18, <2>2
  <2>4. y.up = Len(Ups(n)) + 1 /\ (h <=> \A k \in DOMAIN Ups(n) : Ups(n)[k] \notin ended)
    BY <1>8, <1>12, <1>15, <2>1
  <2>5. Answers(n, h, y.elements) /\ AtRest(n, GotAfter(n, h), EndedAfter(n, h))
    BY <1>1, <1>2, <1>12, <1>15, <1>16, <2>4, ZipAnswers
  <2>6. Kind(Top.node) \notin Sources
    BY <1>1 DEF Sources
  <2> QED
    BY <1>1, <1>2, <1>12, <1>15, <2>2, <2>3, <2>5, <2>6, MeansReturn
<1> QED
  BY <1>17, <1>18

(* The passes of Open and Close calls.                                     *)
LEMMA MeansOpened ==
  ASSUME TypeOK, CallsNest, FinalInv, MeansInv, driver.pc = "open", stack # << >>,
         NEW s, NEW v, Return(s, FALSE, v), IsState(s), SameOutside(s, Top.st, Top.node),
         \A m \in plan.nodes \ {Top.node} : s[m] = Cur[m],
         s[Top.node].value = Cur[Top.node].value,
         SourceAt(Top.node, s, [got EXCEPT ![Top.node] = 0])
  PROVE  MeansInv'
<1>1. PICK n \in plan.nodes : n = Top.node /\ Top.fn = "open"
  BY TopFacts, TopRuns
<1>2. PICK g, c : g = [got EXCEPT ![n] = 0] /\ c = Cur
  OBVIOUS
<1>3. /\ phase' = [phase EXCEPT ![n] = "open"] /\ got' = g
      /\ UNCHANGED <<plan, driver>>
  BY <1>1, <1>2 DEF Return
<1>4. (Cur)' = s
  BY AgreePop DEF FinalInv
<1>5. g[n] = 0 /\ \A m \in plan.nodes \ {n} : g[m] = got[m]
  BY <1>2 DEF TypeOK
<1>6. \A m \in plan.nodes : phase'[m] = "open" => g[m] = 0 /\ SourceAt(m, s, g)
  <2> SUFFICES ASSUME NEW m \in plan.nodes, phase'[m] = "open", m # n
               PROVE  g[m] = 0 /\ SourceAt(m, s, g)
    BY <1>1, <1>2, <1>5
  <2>1. got[m] = 0 /\ SourceAt(m, c, got)
    BY <1>2, <1>3 DEF TypeOK, MeansInv, MeansOpen
  <2>2. s[m] = c[m] /\ g[m] = got[m]
    BY <1>1, <1>2, <1>5
  <2> QED
    BY <2>1, <2>2 DEF SourceAt
<1>7. \A m \in plan.nodes : Kind(m) = "value_to_stream" => s[m].value = plan.data[m][1]
  <2>1. \A m \in plan.nodes : Kind(m) = "value_to_stream" => c[m].value = plan.data[m][1]
    BY <1>2 DEF MeansInv, ValuesKept
  <2>2. \A m \in plan.nodes : s[m].value = c[m].value
    BY <1>1, <1>2
  <2> QED
    BY <2>1, <2>2
<1>8. MeansOpen'
  BY <1>3, <1>4, <1>6 DEF MeansOpen, SourceAt, Kind
<1>9. ValuesKept' /\ MeansNext'
  BY <1>3, <1>4, <1>7 DEF ValuesKept, MeansNext, Kind
<1> QED
  BY <1>8, <1>9 DEF MeansInv

LEMMA MeansPass ==
  ASSUME TypeOK, CallsNest, FinalInv, MeansInv, driver.pc # "next", stack # << >>,
         Kind(Top.node) \notin Sources, VisitUpstreams
  PROVE  MeansInv'
<1>1. driver' = driver
  BY DEF VisitUpstreams, CallUpstream, Return
<1>2. CASE driver.pc # "open"
  BY <1>1, <1>2 DEF MeansInv, MeansNext, MeansOpen, ValuesKept
<1>3. CASE driver.pc = "open"
  <2>1. PICK f, t : f = Resumed /\ t = Resumed.st
    OBVIOUS
  <2>2. /\ DOMAIN f = FrameFields /\ f.node = Top.node /\ f.fn = Top.fn /\ f.up = Top.up
        /\ Top.up \in 0 .. Len(Ups(Top.node)) /\ Len(Ups(Top.node)) \in Nat
        /\ DOMAIN Ups(Top.node) = 1 .. Len(Ups(Top.node)) /\ Top.node \in plan.nodes
    BY <2>1, TopFacts
  <2>3. CASE f.up < Len(Ups(Top.node))
    <3>1. PICK k \in DOMAIN Ups(Top.node) : k = f.up + 1
      BY <2>2, <2>3
    <3>2. CallUpstream(f, k)
      BY <2>1, <2>3, <3>1 DEF VisitUpstreams
    <3>3. PICK c, d : c = Cur /\ d = (Cur)' /\ \A m \in plan.nodes : d[m] = c[m]
      BY <2>1, <2>2, <3>2, AgreePush DEF FinalInv
    <3>4. UNCHANGED <<plan, driver, phase, got, ended>>
      BY <3>2 DEF CallUpstream
    <3>5. /\ \A m \in plan.nodes : phase[m] = "open" => got[m] = 0 /\ SourceAt(m, c, got)
          /\ \A m \in plan.nodes : Kind(m) = "value_to_stream" => c[m].value = plan.data[m][1]
      BY <1>3, <3>3 DEF MeansInv, MeansOpen, ValuesKept
    <3>6. \A m \in plan.nodes : phase[m] = "open" => got[m] = 0 /\ SourceAt(m, d, got)
      BY <3>3, <3>5 DEF SourceAt
    <3>7. MeansOpen'
      BY <3>3, <3>4, <3>6 DEF MeansOpen, SourceAt, Kind
    <3>8. ValuesKept' /\ MeansNext'
      BY <1>3, <3>3, <3>4, <3>5 DEF ValuesKept, MeansNext, Kind
    <3> QED
      BY <3>7, <3>8 DEF MeansInv
  <2>4. CASE ~ (f.up < Len(Ups(Top.node)))
    <3>1. Return(t, FALSE, Undef)
      BY <2>1, <2>4 DEF VisitUpstreams
    <3>2. /\ IsState(t) /\ SameOutside(t, Top.st, Top.node)
          /\ \A m \in plan.nodes : t[m] = Cur[m]
      BY <2>1, ResumedIs DEF FinalInv
    <3>3. SourceAt(Top.node, t, [got EXCEPT ![Top.node] = 0])
      BY DEF SourceAt, Sources
    <3> QED
      BY <1>3, <2>2, <3>1, <3>2, <3>3, MeansOpened
  <2> QED
    BY <2>3, <2>4
<1> QED
  BY <1>2, <1>3

(* The steps of the sources.                                               *)
LEMMA MeansSource ==
  ASSUME TypeOK, CallsNest, FinalInv, MeansInv, SourceStep
  PROVE  MeansInv'
<1>1. stack # << >> /\ ctl = "call" /\ Kind(Top.node) \in Sources
  BY DEF SourceStep, ConstantStreamOpen, ConstantStreamNext, ConstantStreamClose,
         TabularViewOpen, TabularViewNext, TabularViewClose,
         ValueToStreamOpen, ValueToStreamNext, ValueToStreamClose,
         AtEntry, At, Sources
<1>2. Top.fn = driver.pc
  BY <1>1, TopRuns
<1>3. PICK n, c, q : n = Top.node /\ c = Top.st /\ q = c[n]
  OBVIOUS
<1>4. /\ plan \in Plans /\ n \in plan.nodes /\ IsState(c) /\ Cur = c
      /\ DOMAIN q = Fields /\ q.hasReturned \in BOOLEAN
  BY <1>1, <1>3, EntryIs DEF FinalInv
<1>5. CASE ConstantStreamNext \/ TabularViewNext
  <2>1. /\ driver.pc = "next" /\ NextByIndex
        /\ Kind(Top.node) \in Sources \ {"value_to_stream"}
    BY <1>2, <1>5 DEF ConstantStreamNext, TabularViewNext, AtEntry, At, Sources
  <2> QED
    BY <1>1, <2>1, MeansByIndex
<1>6. CASE ValueToStreamNext
  <2>1. driver.pc = "next"
    BY <1>2, <1>6 DEF ValueToStreamNext, AtEntry, At
  <2> QED
    BY <1>6, <2>1, MeansByFlag
<1>7. CASE ConstantStreamOpen \/ TabularViewOpen \/ ValueToStreamOpen
  <2>1. PICK r : /\ \/ /\ r = [q EXCEPT !.currentIndex = 0]
                       /\ Kind(n) # "value_to_stream"
                    \/ /\ r = [q EXCEPT !.hasReturned = FALSE]
                       /\ Kind(n) = "value_to_stream"
                 /\ Return(SetField(c, n, r), FALSE, Undef)
    BY <1>3, <1>7 DEF ConstantStreamOpen, TabularViewOpen, ValueToStreamOpen, AtEntry, At
  <2>2. driver.pc = "open"
    BY <1>2, <1>7 DEF ConstantStreamOpen, TabularViewOpen, ValueToStreamOpen, AtEntry, At
  <2>3. /\ DOMAIN r = Fields /\ r.hasReturned \in BOOLEAN /\ r.value = q.value
        /\ Kind(n) # "value_to_stream" => r.currentIndex = 0
        /\ Kind(n) = "value_to_stream" => r.hasReturned = FALSE
    BY <1>4, <2>1 DEF Fields
  <2>4. PICK t : t = SetField(c, n, r)
    OBVIOUS
  <2>5. /\ IsState(t) /\ SameOutside(t, c, n) /\ t[n] = r
        /\ \A m \in plan.nodes \ {n} : t[m] = c[m]
    <3>1. IsState(c) /\ DOMAIN r = Fields /\ r.hasReturned \in BOOLEAN
      BY <1>4, <2>3
    <3> QED
      BY <1>4, <2>4, <3>1, SetFieldIs
  <2>6. Return(t, FALSE, Undef)
    BY <2>1, <2>4
  <2>7. PICK g : g = [got EXCEPT ![n] = 0] /\ g[n] = 0
    <3>1. n \in DOMAIN got
      BY <1>4 DEF TypeOK
    <3>2. [got EXCEPT ![n] = 0][n] = 0
      BY <3>1
    <3> QED
      BY <3>2
  <2>8. SourceAt(n, t, g)
    <3>1. Kind(n) = "value_to_stream" => (t[n].hasReturned <=> g[n] = 1)
      BY <2>3, <2>5, <2>7
    <3>2. Kind(n) \in Sources \ {"value_to_stream"} => t[n].currentIndex = g[n]
      BY <2>3, <2>5, <2>7
    <3> QED
      BY <3>1, <3>2, Zenon DEF SourceAt
  <2>9. /\ SameOutside(t, Top.st, Top.node) /\ SourceAt(Top.node, t, [got EXCEPT ![Top.node] = 0])
        /\ t[Top.node].value = Cur[Top.node].value
        /\ \A m \in plan.nodes \ {Top.node} : t[m] = Cur[m]
    BY <1>3, <1>4, <2>3, <2>5, <2>7, <2>8
  <2> QED
    BY <1>1, <2>2, <2>5, <2>6, <2>9, MeansOpened
<1>8. CASE ConstantStreamClose \/ TabularViewClose \/ ValueToStreamClose
  <2>1. driver.pc = "close" /\ driver' = driver
    BY <1>2, <1>8 DEF ConstantStreamClose, TabularViewClose, ValueToStreamClose, AtEntry, At, Return
  <2> QED
    BY <2>1 DEF MeansInv, MeansNext, MeansOpen, ValuesKept
<1> QED
  BY <1>5, <1>6, <1>7, <1>8 DEF SourceStep

(* The steps of the ops with upstreams.                                    *)
LEMMA MeansOperator ==
  ASSUME TypeOK, CallsNest, FinalInv, MeansInv, OperatorStep
  PROVE  MeansInv'
<1>1. stack # << >> /\ Kind(Top.node) \in {"filter", "map", "reduce", "zip"}
  BY DEF OperatorStep, FilterOpen, FilterNext, FilterClose, MapOpen, MapNext, MapClose,
         ReduceOpen, ReduceNext, ReduceClose, ZipOpen, ZipNext, ZipClose, At
<1>2. Top.fn = driver.pc /\ Kind(Top.node) \notin Sources
  BY <1>1, TopRuns DEF Sources
<1>3. CASE FilterNext \/ MapNext \/ ReduceNext \/ ZipNext
  <2>1. driver.pc = "next"
    BY <1>2, <1>3 DEF FilterNext, MapNext, ReduceNext, ZipNext, At
  <2>2. CASE CallFirst
    BY <1>1, <2>1, <2>2, MeansFirst
  <2> QED
    BY <1>3, <2>1, <2>2, MeansFilter, MeansMap, MeansReduce, MeansZip
<1>4. CASE VisitUpstreams /\ driver.pc # "next"
  BY <1>1, <1>2, <1>4, MeansPass
<1> QED
  BY <1>2, <1>3, <1>4
     DEF OperatorStep, FilterOpen, FilterClose, MapOpen, MapClose,
         ReduceOpen, ReduceClose, ZipOpen, ZipClose, At

(* A statement that calls Next of its input.                               *)
LEMMA MeansEnter ==
  ASSUME TypeOK, CallsNest, NEW s, NEW value, CallInput("next", s, value),
         plan \in Plans, Stmt.input \in plan.nodes, phase[Stmt.input] = "open",
         \A n \in plan.nodes : Kind(n) = "value_to_stream" => s[n].value = plan.data[n][1],
         \A n \in plan.nodes : phase[n] = "open" =>
           Counted(n, got, ended) /\ SourceAt(n, s, got) /\ AtRest(n, got, ended)
  PROVE  MeansInv'
<1>1. PICK f : f = Frame(Stmt.input, "next", s)
  OBVIOUS
<1>2. f.st = s
  BY <1>1 DEF Frame
<1>3. /\ stack' = <<f>> /\ ctl' = "call" /\ driver'.pc = "next"
      /\ UNCHANGED <<plan, line, ret, phase, got, ended>>
  BY <1>1 DEF CallInput
<1>4. Len(stack') = 1 /\ stack'[1] = f
  BY ONLY <1>3
<1>5. (Cur)' = s
  BY <1>2, <1>3, <1>4 DEF Top, Cur
<1>6. InCall(f, got, ended)
  BY <1>1, BeginsAtRest
<1>7. (\A n \in plan.nodes : phase[n] = "open" => Counted(n, got, ended) /\ SourceAt(n, Cur, got))'
  BY <1>3, <1>5 DEF Counted, SourceAt, StreamOf, Kind
<1>8. (\A n \in plan.nodes : phase[n] = "open" /\ ~ OnStack(n) => AtRest(n, got, ended))'
  <2>1. \A n : AtRest(n, got, ended)' <=> AtRest(n, got, ended)
    BY <1>3 DEF AtRest, ReduceAtRest, ZipEnded, Selected, StreamOf, Kind, Ups
  <2> QED
    BY <1>3, <2>1
<1>9. (\A i \in 1 .. Len(stack) : InCall(stack[i], SeenBy(i), ended))'
  <2> SUFFICES ASSUME NEW i \in 1 .. 1 PROVE InCall(stack[i], SeenBy(i), ended)'
    BY <1>4
  <2>1. stack'[i] = f /\ plan' = plan /\ ended' = ended /\ SeenBy(i)' = got
    BY <1>3, <1>4 DEF SeenBy
  <2>2. InCall(f, SeenBy(i), ended)'
    BY <1>6, <2>1, Zenon DEF InCall, ReduceAtRest, ZipEnded, ZipSoFar, Selected, Reduced,
                             StreamOf, Kind, Ups
  <2> QED
    BY <2>1, <2>2, Zenon DEF InCall, ReduceAtRest, ZipEnded, ZipSoFar
<1>10. MeansNext'
  BY <1>3, <1>7, <1>8, <1>9 DEF MeansNext
<1>11. MeansOpen' /\ ValuesKept'
  BY <1>3, <1>5 DEF MeansOpen, ValuesKept, Kind
<1> QED
  BY <1>10, <1>11 DEF MeansInv

(* A statement's input is open, with all iterators below it, when Open or  *)
(* Next of it has returned.                                                *)
LEMMA InputIsOpen ==
  ASSUME TypeOK, CallsNest, ctl = "ret", stack = << >>, driver.pc \in {"open", "next"}
  PROVE  /\ plan \in Plans /\ Stmt.input \in plan.nodes /\ phase[Stmt.input] = "open"
         /\ \A m \in plan.nodes : phase[m] = "open" =>
              \A k \in DOMAIN Ups(m) : phase[Ups(m)[k]] = "open" /\ Ups(m)[k] \in plan.nodes
<1>1. PICK n \in plan.nodes : n = Stmt.input /\ plan \in Plans
  <2>1. line \in 1 .. Len(plan.stmts) /\ plan \in Plans
    <3>1. line \in 1 .. Len(plan.stmts) + 1 /\ line <= Len(plan.stmts) /\ plan \in Plans
      BY DEF TypeOK, CallsNest, Nesting
    <3>2. Len(plan.stmts) \in Nat
      BY <3>1, PlansAssumption DEF PlanOK
    <3> QED
      BY <3>1, <3>2
  <2> QED
    BY <2>1, StmtFacts
<1>2. \A m \in Below(n) : phase[m] = "open"
  BY <1>1 DEF CallsNest, Visited, After
<1>3. \A m \in plan.nodes : phase[m] = "open" => m \in Below(n)
  BY <1>1 DEF CallsNest, Visited
<1>4. ASSUME NEW m \in plan.nodes, phase[m] = "open", NEW k \in DOMAIN Ups(m)
      PROVE  phase[Ups(m)[k]] = "open" /\ Ups(m)[k] \in plan.nodes
  <2>1. m \in Below(n) /\ Ups(m)[k] \in plan.nodes /\ Below(Ups(m)[k]) \subseteq Below(m)
    BY <1>1, <1>3, <1>4, BelowFacts
  <2>2. Ups(m)[k] \in Below(Ups(m)[k]) /\ Below(m) \subseteq Below(n)
    BY <1>1, <2>1, BelowFacts
  <2> QED
    BY <1>2, <2>1, <2>2
<1>5. phase[n] = "open"
  BY <1>1, <1>2, BelowFacts
<1> QED
  BY <1>1, <1>4, <1>5

(* An iterator that has just been opened is at rest.                       *)
LEMMA OpenedAtRest ==
  ASSUME plan \in Plans, NEW n \in plan.nodes, n \notin ended, got[n] = 0,
         \A k \in DOMAIN Ups(n) : got[Ups(n)[k]] = 0
  PROVE  AtRest(n, got, ended)
<1>1. Kind(n) \in {"map", "filter", "reduce"} => got[Ups(n)[1]] = 0
  BY KindFacts
<1>2. Kind(n) = "filter" => Len(Selected(n)[0]) = 0
  <2> SUFFICES ASSUME Kind(n) = "filter" PROVE Len(Selected(n)[0]) = 0
    OBVIOUS
  <2>1. PICK s, f : s = StreamOf(Ups(n)[1]) /\ f = plan.func[n]
    OBVIOUS
  <2>2. IsSeq(s)
    BY <2>1, KindFacts, StreamOfKind
  <2>3. PICK l \in Nat : l = Len(s)
    BY <2>2 DEF IsSeq
  <2>4. MatchingUpTo(f, s)[0] = << >>
    BY <2>3, MatchingUnfold
  <2> QED
    BY <2>1, <2>4 DEF Selected
<1> QED
  BY <1>1, <1>2 DEF AtRest, ReduceAtRest

LEMMA MeansStatement ==
  ASSUME TypeOK, CallsNest, FinalInv, MeansInv, StartStatement \/ SinkLoop \/ StreamToValue
  PROVE  MeansInv'
<1>1. CASE StartStatement
  <2>1. PICK s : s = [n \in plan.nodes |-> StateCreation(n)]
    OBVIOUS
  <2>2. ctl = "stmt" /\ CallInput("open", s, << >>)
    BY <1>1, <2>1 DEF StartStatement
  <2>3. PICK f : f = Frame(Stmt.input, "open", s)
    OBVIOUS
  <2>4. /\ stack' = <<f>> /\ ctl' = "call" /\ driver'.pc = "open"
        /\ UNCHANGED <<plan, line, ret, phase, got, ended>>
    BY <2>2, <2>3 DEF CallInput
  <2>5. Len(stack') = 1 /\ stack'[1] = f
    BY ONLY <2>4
  <2>6. (Cur)' = s
    BY <2>3, <2>4, <2>5 DEF Top, Cur, Frame
  <2>7. \A n \in plan.nodes : phase[n] # "open"
    BY <2>2 DEF CallsNest, Visited
  <2>8. \A n \in plan.nodes : Kind(n) = "value_to_stream" => s[n].value = plan.data[n][1]
    BY <2>1 DEF StateCreation, ValueToStreamState, NoFields
  <2>9. MeansOpen' /\ MeansNext'
    BY <2>4, <2>7 DEF MeansOpen, MeansNext
  <2>10. ValuesKept'
    BY <2>4, <2>6, <2>8 DEF ValuesKept, Kind
  <2> QED
    BY <2>9, <2>10 DEF MeansInv
<1>2. CASE SinkLoop \/ StreamToValue
  <2>1. ctl = "ret" /\ stack = << >> /\ driver.pc \in {"open", "next", "close"}
    BY <1>2 DEF SinkLoop, StreamToValue, Back
  <2>2. PICK s : s = ret.st /\ Cur = s
    BY <2>1 DEF Cur
  <2>3. \/ driver'.pc \notin {"open", "next"}
        \/ driver.pc \in {"open", "next"} /\ \E value : CallInput("next", s, value)
    BY <1>2, <2>2 DEF SinkLoop, StreamToValue, Back, EndStatement, CallInput
  <2>4. CASE driver'.pc \notin {"open", "next"}
    BY <2>4 DEF MeansInv, MeansNext, MeansOpen, ValuesKept
  <2>5. ASSUME NEW value, CallInput("next", s, value), driver.pc \in {"open", "next"}
        PROVE  MeansInv'
    <3>1. /\ plan \in Plans /\ Stmt.input \in plan.nodes /\ phase[Stmt.input] = "open"
          /\ \A m \in plan.nodes : phase[m] = "open" =>
               \A k \in DOMAIN Ups(m) : phase[Ups(m)[k]] = "open" /\ Ups(m)[k] \in plan.nodes
      BY <2>1, <2>5, InputIsOpen
    <3>2. \A n \in plan.nodes : Kind(n) = "value_to_stream" => s[n].value = plan.data[n][1]
      BY <2>2, <2>5 DEF MeansInv, ValuesKept
    <3>3. \A n \in plan.nodes : phase[n] = "open" =>
            Counted(n, got, ended) /\ SourceAt(n, s, got) /\ AtRest(n, got, ended)
      <4> SUFFICES ASSUME NEW n \in plan.nodes, phase[n] = "open"
                   PROVE  Counted(n, got, ended) /\ SourceAt(n, s, got) /\ AtRest(n, got, ended)
        OBVIOUS
      <4>1. CASE driver.pc = "open"
        <5>1. \A m \in plan.nodes : phase[m] = "open" => got[m] = 0
          BY <4>1 DEF MeansInv, MeansOpen
        <5>2. n \notin ended /\ SourceAt(n, s, got)
          BY <2>2, <4>1 DEF MeansInv, MeansOpen, FinalInv, Opening
        <5>3. AtRest(n, got, ended)
          BY <3>1, <5>1, <5>2, OpenedAtRest
        <5>4. Counted(n, got, ended)
          <6>1. IsSeq(StreamOf(n))
            BY <3>1, StreamOfKind
          <6>2. PICK l \in Nat : l = Len(StreamOf(n))
            BY <6>1 DEF IsSeq
          <6>3. 0 <= l /\ got[n] = 0
            BY <5>1, <6>2
          <6> QED
            BY <5>2, <6>2, <6>3 DEF Counted
        <5> QED
          BY <5>2, <5>3, <5>4
      <4>2. CASE driver.pc = "next"
        <5>1. ~ OnStack(n)
          BY <2>1, EmptyIffLen0 DEF OnStack, TypeOK, IsSeq
        <5> QED
          BY <2>2, <4>2, <5>1 DEF MeansInv, MeansNext
      <4> QED
        BY <2>5, <4>1, <4>2
    <3> QED
      BY <2>5, <3>1, <3>2, <3>3, MeansEnter
  <2> QED
    BY <2>3, <2>4, <2>5
<1> QED
  BY <1>1, <1>2

(* The inductive invariant holds of every reachable state.                 *)
LEMMA MeansStep ==
  ASSUME TypeOK, CallsNest, FinalInv, MeansInv, [Next]_vars
  PROVE  MeansInv'
<1>1. CASE UNCHANGED vars
  <2>1. /\ plan' = plan /\ line' = line /\ driver' = driver /\ stack' = stack
        /\ ctl' = ctl /\ ret' = ret /\ phase' = phase
        /\ got' = got /\ ended' = ended
    BY <1>1 DEF vars
  <2>2. (Cur)' = Cur /\ (Returned)' = Returned
    BY <2>1 DEF Cur, Returned, Called, Top, Ups, Stmt
  <2>3. (\A n \in plan.nodes : phase[n] = "open" => Counted(n, got, ended) /\ SourceAt(n, Cur, got))'
          <=> (\A n \in plan.nodes : phase[n] = "open" => Counted(n, got, ended) /\ SourceAt(n, Cur, got))
    BY <2>1, <2>2 DEF Counted, SourceAt, StreamOf, Kind
  <2>4. (\A n \in plan.nodes : phase[n] = "open" /\ ~ OnStack(n) => AtRest(n, got, ended))'
          <=> (\A n \in plan.nodes : phase[n] = "open" /\ ~ OnStack(n) => AtRest(n, got, ended))
    <3>1. \A n : AtRest(n, got, ended)' <=> AtRest(n, got, ended)
      BY <2>1 DEF AtRest, ReduceAtRest, ZipEnded, Selected, StreamOf, Kind, Ups
    <3>2. \A n : (OnStack(n))' <=> OnStack(n)
      BY <2>1 DEF OnStack
    <3> QED
      BY <2>1, <3>1, <3>2
  <2>5. ASSUME NEW i \in 1 .. Len(stack), InCall(stack[i], SeenBy(i), ended)
        PROVE  InCall(stack[i], SeenBy(i), ended)'
    <3>1. PICK z, h : z = stack[i] /\ h = SeenBy(i)
      OBVIOUS
    <3>2. InCall(z, h, ended)
      BY <2>5, <3>1, Zenon
    <3>3. plan' = plan /\ ended' = ended /\ stack'[i] = z
      BY <2>1, <3>1, Zenon
    <3>4. SeenBy(i)' = h
      BY <2>1, <3>1 DEF SeenBy, Called, Ups
    <3>5. InCall(z, SeenBy(i), ended)'
      BY <3>2, <3>3, <3>4, Zenon DEF InCall, ReduceAtRest, ZipEnded, ZipSoFar, Selected, Reduced,
                                     StreamOf, Kind, Ups
    <3> QED
      BY <3>3, <3>5, Zenon DEF InCall, ReduceAtRest, ZipEnded, ZipSoFar
  <2>6. (ctl = "ret" /\ ret.hasNext =>
           got[Returned] > 0 /\ ret.element = StreamOf(Returned)[got[Returned]])'
          <=> (ctl = "ret" /\ ret.hasNext =>
                 got[Returned] > 0 /\ ret.element = StreamOf(Returned)[got[Returned]])
    BY <2>1, <2>2 DEF StreamOf
  <2>7. MeansNext'
    BY <2>1, <2>3, <2>4, <2>5, <2>6 DEF MeansInv, MeansNext
  <2>8. MeansOpen' /\ ValuesKept'
    BY <2>1, <2>2 DEF MeansInv, MeansOpen, ValuesKept, SourceAt, Kind
  <2> QED
    BY <2>7, <2>8 DEF MeansInv
<1>2. CASE Terminated
  BY <1>1, <1>2 DEF Terminated
<1> QED
  BY <1>1, <1>2, MeansSource, MeansOperator, MeansStatement DEF Next

(* In every reachable state, what the iterators have returned and pulled   *)
(* is what their streams demand; with the invariants this rests on.        *)
THEOREM MeansAlways == Spec => [](TypeOK /\ CallsNest /\ FinalInv /\ MeansInv)
<1>1. Init => MeansInv
  BY DEF Init, MeansInv, MeansNext, MeansOpen, ValuesKept
<1>2. TypeOK /\ CallsNest /\ FinalInv /\ MeansInv /\ [Next]_vars => MeansInv'
  BY MeansStep
<1> QED
  BY <1>1, <1>2, FinalAlways, Inductive, PTL DEF Spec

-----------------------------------------------------------------------------
(* No operator reads ahead.                                                *)

(* A step of a function is a call or a return.                            *)
LEMMA CallForms ==
  ASSUME TypeOK, CallsNest, SourceStep \/ OperatorStep
  PROVE  \/ stack # << >> /\ \E f, k : CallUpstream(f, k)
         \/ /\ stack # << >> /\ (Top.fn = "next" \/ Top.up = Len(Ups(Top.node)))
            /\ \E s, hasNext, v : Return(s, hasNext, v)
<1>1. ASSUME SourceStep
      PROVE  /\ stack # << >> /\ Top.up = Len(Ups(Top.node))
             /\ \E s, hasNext, v : Return(s, hasNext, v)
  <2>1. stack # << >> /\ ctl = "call" /\ Kind(Top.node) \in Sources
    BY <1>1 DEF SourceStep, ConstantStreamOpen, ConstantStreamNext, ConstantStreamClose,
           TabularViewOpen, TabularViewNext, TabularViewClose,
           ValueToStreamOpen, ValueToStreamNext, ValueToStreamClose,
           AtEntry, At, Sources
  <2>2. \E s, hasNext, v : Return(s, hasNext, v)
    BY <1>1 DEF SourceStep, ConstantStreamOpen, ConstantStreamNext, ConstantStreamClose,
           TabularViewOpen, TabularViewNext, TabularViewClose,
           ValueToStreamOpen, ValueToStreamNext, ValueToStreamClose, NextByIndex
  <2>3. Top.up = Len(Ups(Top.node))
    BY <2>1, TopFacts, KindFacts DEF CallsNest, Nesting
  <2> QED
    BY <2>1, <2>2, <2>3
<1>2. ASSUME stack # << >>, VisitUpstreams
      PROVE  \/ \E f, k : CallUpstream(f, k)
             \/ Top.up = Len(Ups(Top.node)) /\ \E s, hasNext, v : Return(s, hasNext, v)
  <2>1. Resumed.up = Top.up /\ Top.up \in 0 .. Len(Ups(Top.node)) /\ Len(Ups(Top.node)) \in Nat
    BY <1>2, TopFacts
  <2>2. CASE Top.up < Len(Ups(Top.node))
    BY <1>2, <2>1, <2>2 DEF VisitUpstreams
  <2>3. CASE ~ (Top.up < Len(Ups(Top.node)))
    <3>1. Top.up = Len(Ups(Top.node))
      BY <2>1, <2>3
    <3>2. Return(Resumed.st, FALSE, Undef)
      BY <1>2, <2>1, <2>3 DEF VisitUpstreams
    <3> QED
      BY <3>1, <3>2
  <2> QED
    BY <2>2, <2>3
<1>3. ASSUME FilterNext \/ MapNext \/ ReduceNext \/ ZipNext
      PROVE  /\ stack # << >> /\ Top.fn = "next"
             /\ \/ \E f, k : CallUpstream(f, k)
                \/ \E s, hasNext, v : Return(s, hasNext, v)
  <2>1. stack # << >> /\ Top.fn = "next"
    BY <1>3 DEF FilterNext, MapNext, ReduceNext, ZipNext, At
  <2>2. CASE CallFirst
    BY <2>1, <2>2 DEF CallFirst
  <2>3. CASE FilterNext /\ ~ CallFirst
    <3>1. CallUpstream(Resumed, 1) \/ Return(Resumed.st, ret.hasNext, ret.element)
      BY <2>3 DEF FilterNext
    <3> QED
      BY <2>1, <3>1
  <2>4. CASE MapNext /\ ~ CallFirst
    BY <2>1, <2>4 DEF MapNext
  <2>5. CASE ReduceNext /\ ~ CallFirst
    <3>1. PICK acc : \/ CallUpstream([Resumed EXCEPT !.inLoop = TRUE, !.acc = acc], 1)
                     \/ Return(Resumed.st, TRUE, Top.acc)
                     \/ Return(Resumed.st, FALSE, ret.element)
      BY <2>5 DEF ReduceNext
    <3> QED
      BY <2>1, <3>1
  <2>6. CASE ZipNext /\ ~ CallFirst
    <3>1. PICK r : IF r.up < Len(Ups(Top.node)) THEN CallUpstream(r, r.up + 1)
                                                ELSE Return(r.st, r.hasNext, r.elements)
      BY <2>6 DEF ZipNext
    <3> QED
      BY <2>1, <3>1
  <2> QED
    BY <1>3, <2>2, <2>3, <2>4, <2>5, <2>6
<1>4. ASSUME OperatorStep, ~ (FilterNext \/ MapNext \/ ReduceNext \/ ZipNext)
      PROVE  stack # << >> /\ VisitUpstreams
  BY <1>4 DEF OperatorStep, FilterOpen, FilterClose, MapOpen, MapClose,
              ReduceOpen, ReduceClose, ZipOpen, ZipClose, At
<1> QED
  BY <1>1, <1>2, <1>3, <1>4

(* Every step is a call, a return or one of a statement.                   *)
LEMMA StepForms ==
  ASSUME TypeOK, CallsNest, [Next]_vars
  PROVE  \/ stack # << >> /\ \E f, k : CallUpstream(f, k)
         \/ /\ stack # << >> /\ (Top.fn = "next" \/ Top.up = Len(Ups(Top.node)))
            /\ \E s, hasNext, v : Return(s, hasNext, v)
         \/ ctl = "stmt" /\ \E s : CallInput("open", s, << >>)
         \/ /\ ctl = "ret" /\ stack = << >> /\ driver.pc \in {"open", "next"}
            /\ \E s, value : CallInput("next", s, value)
         \/ /\ ctl = "ret" /\ stack = << >> /\ driver.pc = "next"
            /\ \E s, value : CallInput("close", s, value)
         \/ EndStatement
         \/ UNCHANGED vars
<1>1. ASSUME StartStatement
      PROVE  ctl = "stmt" /\ \E s : CallInput("open", s, << >>)
  BY <1>1 DEF StartStatement
<1>2. ASSUME SinkLoop \/ StreamToValue
      PROVE  /\ ctl = "ret" /\ stack = << >>
             /\ \/ driver.pc \in {"open", "next"} /\ \E s, value : CallInput("next", s, value)
                \/ driver.pc = "next" /\ \E s, value : CallInput("close", s, value)
                \/ EndStatement
  BY <1>2 DEF SinkLoop, StreamToValue, Back
<1>3. Terminated => UNCHANGED vars
  BY DEF Terminated
<1> QED
  BY <1>1, <1>2, <1>3, CallForms DEF Next

(* The upstreams of an open iterator are open until Close is called, and   *)
(* what the iterators have pulled then stays.                              *)
UpsOpen ==
  driver.pc \in {"open", "next"} =>
    \A n \in plan.nodes : phase[n] = "open" =>
      \A k \in DOMAIN Ups(n) : phase[Ups(n)[k]] = "open"
MeansClose ==
  driver.pc = "close" =>
    \A n \in plan.nodes : phase[n] = "open" =>
      /\ AtRest(n, got, ended)
      /\ \A k \in DOMAIN Ups(n) : got[Ups(n)[k]] <= Len(StreamOf(Ups(n)[k]))

(* The upstreams are open when Open returns.                               *)
LEMMA OpensLast ==
  ASSUME TypeOK, CallsNest, stack # << >>, Top.fn = "open", Top.up = Len(Ups(Top.node)),
         NEW k \in DOMAIN Ups(Top.node)
  PROVE  phase[Ups(Top.node)[k]] = "open"
<1>1. PICK L \in 1 .. Len(stack) : L = Len(stack)
  <2>1. IsSeq(stack)
    BY DEF TypeOK, IsSeq
  <2> QED
    BY <2>1, EmptyIffLen0 DEF IsSeq
<1>2. PICK n \in plan.nodes : n = Top.node /\ plan \in Plans
  BY TopFacts
<1>3. FrameVisited(L) /\ stack[L] = Top
  BY <1>1 DEF CallsNest, Visited, Top
<1>4. Ups(n)[k] \in Below(Ups(n)[k])
  BY <1>2, BelowFacts
<1>5. k \in 1 .. Top.up /\ Top.up \in Nat
  BY TopFacts
<1>6. k = Top.up => ctl = "ret"
  <2>1. ctl = "call" => Top.up = 0
    BY DEF CallsNest, Nesting
  <2>2. ctl \in {"call", "ret"}
    BY DEF CallsNest, Nesting, TypeOK
  <2> QED
    BY <1>5, <2>1, <2>2
<1>7. k < Top.up \/ k = Top.up
  BY <1>5
<1> QED
  BY <1>1, <1>2, <1>3, <1>4, <1>6, <1>7 DEF FrameVisited, After

LEMMA RestStep ==
  ASSUME TypeOK, CallsNest, MeansInv, UpsOpen, MeansClose, [Next]_vars
  PROVE  UpsOpen' /\ MeansClose'
<1>1. ASSUME driver' = driver, UNCHANGED <<plan, got, ended, phase>>
      PROVE  UpsOpen' /\ MeansClose'
  <2>1. \A n : AtRest(n, got, ended)' <=> AtRest(n, got, ended)
    BY <1>1 DEF AtRest, ReduceAtRest, ZipEnded, Selected, StreamOf, Kind, Ups
  <2>2. UpsOpen'
    BY <1>1 DEF UpsOpen, Ups
  <2>3. MeansClose'
    BY <1>1, <2>1 DEF MeansClose, Ups, StreamOf
  <2> QED
    BY <2>2, <2>3
<1>2. ASSUME NEW f, NEW k, CallUpstream(f, k)
      PROVE  UpsOpen' /\ MeansClose'
  BY <1>1, <1>2 DEF CallUpstream
<1>3. ASSUME stack # << >>, Top.fn = "next" \/ Top.up = Len(Ups(Top.node)),
             NEW s, NEW hasNext, NEW v, Return(s, hasNext, v)
      PROVE  UpsOpen' /\ MeansClose'
  <2>1. Top.fn = driver.pc /\ UNCHANGED <<plan, driver>>
    BY <1>3, TopRuns DEF Return
  <2>2. PICK n \in plan.nodes : n = Top.node /\ plan \in Plans
    BY <1>3, TopFacts
  <2>3. CASE driver.pc = "next"
    <3>1. phase' = phase
      BY <1>3, <2>1, <2>3 DEF Return
    <3> QED
      BY <2>1, <2>3, <3>1 DEF UpsOpen, MeansClose, Ups
  <2>4. CASE driver.pc = "open"
    <3>1. phase' = [phase EXCEPT ![n] = "open"]
      BY <1>3, <2>1, <2>2, <2>4 DEF Return
    <3>2. \A k \in DOMAIN Ups(n) : phase[Ups(n)[k]] = "open"
      BY <1>3, <2>1, <2>2, <2>4, OpensLast
    <3>3. \A m \in plan.nodes : \A k \in DOMAIN Ups(m) : Ups(m)[k] \in plan.nodes
      BY <2>2, BelowFacts
    <3>4. ASSUME NEW m \in plan.nodes, phase'[m] = "open", NEW k \in DOMAIN Ups(m)
          PROVE  phase'[Ups(m)[k]] = "open"
      <4>1. phase[Ups(m)[k]] = "open"
        <5>1. m # n => phase[m] = "open"
          BY <3>1, <3>4 DEF TypeOK
        <5> QED
          BY <2>4, <3>2, <3>4, <5>1 DEF UpsOpen
      <4>2. Ups(m)[k] \in plan.nodes
        BY <3>3, <3>4
      <4> QED
        BY <3>1, <4>1, <4>2 DEF TypeOK
    <3>5. UpsOpen'
      BY <2>1, <3>4 DEF UpsOpen, Ups
    <3> QED
      BY <2>1, <2>4, <3>5 DEF MeansClose
  <2>5. CASE driver.pc = "close"
    <3>1. phase' = [phase EXCEPT ![n] = "closed"] /\ got' = got /\ ended' = ended
      BY <1>3, <2>1, <2>2, <2>5 DEF Return
    <3>2. \A m \in plan.nodes : phase'[m] = "open" => phase[m] = "open"
      BY <3>1 DEF TypeOK
    <3>3. \A m : AtRest(m, got, ended)' <=> AtRest(m, got, ended)
      BY <2>1, <3>1 DEF AtRest, ReduceAtRest, ZipEnded, Selected, StreamOf, Kind, Ups
    <3>4. MeansClose'
      BY <2>1, <2>5, <3>1, <3>2, <3>3 DEF MeansClose, Ups, StreamOf
    <3> QED
      BY <2>1, <2>5, <3>4 DEF UpsOpen
  <2>6. driver.pc \in {"open", "next", "close"}
    BY <1>3 DEF TypeOK, CallsNest, Nesting
  <2> QED
    BY <2>3, <2>4, <2>5, <2>6
<1>4. ASSUME ctl = "stmt", NEW s, CallInput("open", s, << >>)
      PROVE  UpsOpen' /\ MeansClose'
  <2>1. driver'.pc = "open" /\ UNCHANGED <<plan, phase>>
    BY <1>4 DEF CallInput
  <2>2. \A n \in plan.nodes : phase[n] # "open"
    BY <1>4 DEF CallsNest, Visited
  <2> QED
    BY <2>1, <2>2 DEF UpsOpen, MeansClose
<1>5. ASSUME driver.pc \in {"open", "next"}, NEW s, NEW value, CallInput("next", s, value)
      PROVE  UpsOpen' /\ MeansClose'
  <2>1. driver'.pc = "next" /\ UNCHANGED <<plan, phase>>
    BY <1>5 DEF CallInput
  <2> QED
    BY <1>5, <2>1 DEF UpsOpen, MeansClose, Ups
<1>6. ASSUME ctl = "ret", stack = << >>, driver.pc = "next", NEW s, NEW value,
             CallInput("close", s, value)
      PROVE  UpsOpen' /\ MeansClose'
  <2>1. driver'.pc = "close" /\ UNCHANGED <<plan, phase, got, ended>>
    BY <1>6 DEF CallInput
  <2>2. ASSUME NEW n \in plan.nodes, phase[n] = "open"
        PROVE  /\ AtRest(n, got, ended)
               /\ \A k \in DOMAIN Ups(n) : got[Ups(n)[k]] <= Len(StreamOf(Ups(n)[k]))
    <3>1. ~ OnStack(n)
      BY <1>6, EmptyIffLen0 DEF OnStack, TypeOK, IsSeq
    <3>2. AtRest(n, got, ended)
      BY <1>6, <2>2, <3>1 DEF MeansInv, MeansNext
    <3>3. ASSUME NEW k \in DOMAIN Ups(n) PROVE got[Ups(n)[k]] <= Len(StreamOf(Ups(n)[k]))
      <4>1. phase[Ups(n)[k]] = "open" /\ Ups(n)[k] \in plan.nodes
        BY <1>6, <2>2, <3>3, BelowFacts DEF UpsOpen, TypeOK
      <4> QED
        BY <1>6, <4>1 DEF MeansInv, MeansNext, Counted
    <3> QED
      BY <3>2, <3>3
  <2>3. \A n : AtRest(n, got, ended)' <=> AtRest(n, got, ended)
    BY <2>1 DEF AtRest, ReduceAtRest, ZipEnded, Selected, StreamOf, Kind, Ups
  <2>4. MeansClose'
    BY <2>1, <2>2, <2>3 DEF MeansClose, Ups, StreamOf
  <2> QED
    BY <2>1, <2>4 DEF UpsOpen
<1>7. ASSUME EndStatement
      PROVE  UpsOpen' /\ MeansClose'
  <2>1. driver'.pc = "idle"
    BY <1>7 DEF EndStatement
  <2> QED
    BY <2>1 DEF UpsOpen, MeansClose
<1>8. CASE UNCHANGED vars
  BY <1>1, <1>8 DEF vars
<1> QED
  BY <1>2, <1>3, <1>4, <1>5, <1>6, <1>7, <1>8, StepForms

(* A beginning of a sequence, and what a filter selects of it.             *)
Begins(z, s, g) ==
  /\ IsSeq(z) /\ Len(z) = g /\ \A i \in 1 .. g : z[i] = s[i]
  /\ z = << >> <=> g = 0
  /\ g = Len(s) => z = s

LEMMA PrefixFacts ==
  ASSUME NEW s, IsSeq(s), NEW g \in 0 .. Len(s), NEW z, z = SubSeq(s, 1, g)
  PROVE  Begins(z, s, g)
<1>1. PICK l \in Nat : l = Len(s) /\ g \in 0 .. l
  BY DEF IsSeq
<1>2. PICK S : S = {s[i] : i \in 1 .. l}
  OBVIOUS
<1>3. \A i \in 1 .. g : s[i] \in S
  BY <1>1, <1>2
<1>4. g \in Nat /\ g \in Int /\ 1 \in Int
  BY <1>1
<1>5. /\ SubSeq(s, 1, g) \in Seq(S)
      /\ Len(SubSeq(s, 1, g)) = IF 1 <= g THEN g - 1 + 1 ELSE 0
      /\ \A i \in 1 .. g - 1 + 1 : SubSeq(s, 1, g)[i] = s[1 + i - 1]
  BY ONLY <1>3, <1>4, SubSeqProperties
<1>6. z \in Seq(S) /\ Len(z) = g
  BY <1>4, <1>5
<1>7. \A i \in 1 .. g : z[i] = s[i]
  <2>1. \A i \in 1 .. g : i \in 1 .. g - 1 + 1 /\ 1 + i - 1 = i
    BY <1>4
  <2> QED
    BY <1>5, <2>1
<1>8. IsSeq(z)
  BY <1>6, SeqIsSeq
<1>9. z = << >> <=> g = 0
  BY <1>6, <1>8, EmptyIffLen0
<1>10. ASSUME g = Len(s) PROVE z = s
  <2>1. z = [i \in 1 .. g |-> z[i]] /\ s = [i \in 1 .. g |-> s[i]]
    BY <1>6, <1>8, <1>10 DEF IsSeq
  <2>2. [i \in 1 .. g |-> z[i]] = [i \in 1 .. g |-> s[i]]
    BY <1>7
  <2> QED
    BY ONLY <2>1, <2>2, Zenon
<1> QED
  BY <1>6, <1>7, <1>8, <1>9, <1>10 DEF Begins

LEMMA MatchingPrefix ==
  ASSUME NEW f, NEW s, IsSeq(s), NEW g \in 0 .. Len(s), NEW z, z = SubSeq(s, 1, g)
  PROVE  Matching(f, z) = MatchingUpTo(f, s)[g]
<1>1. IsSeq(z) /\ Len(z) = g /\ \A i \in 1 .. g : z[i] = s[i]
  <2>1. Begins(z, s, g)
    BY PrefixFacts, Zenon
  <2> QED
    BY <2>1 DEF Begins
<1>2. PICK l \in Nat : l = Len(s) /\ g \in 0 .. l /\ g \in Nat
  BY DEF IsSeq
<1>3. PICK a, b : a = MatchingUpTo(f, z) /\ b = MatchingUpTo(f, s)
  OBVIOUS
<1>4. /\ a[0] = << >>
      /\ \A i \in 1 .. g : a[i] = IF Predicate(f, z[i]) THEN Append(a[i - 1], z[i]) ELSE a[i - 1]
  BY <1>1, <1>2, <1>3, MatchingUnfold
<1>5. /\ b[0] = << >>
      /\ \A i \in 1 .. l : b[i] = IF Predicate(f, s[i]) THEN Append(b[i - 1], s[i]) ELSE b[i - 1]
  BY <1>2, <1>3, MatchingUnfold
<1> DEFINE T == {i \in 0 .. g : a[i] # b[i]}
<1>6. T = {}
  <2> SUFFICES ASSUME T # {} PROVE FALSE
    OBVIOUS
  <2>1. PICK k \in T : \A j \in T : k <= j
    <3>1. T \in SUBSET Nat
      OBVIOUS
    <3> HIDE DEF T
    <3> QED
      BY <3>1, Least
  <2>2. k \in 0 .. g /\ a[k] # b[k]
    OBVIOUS
  <2>3. k # 0
    BY <1>4, <1>5, <2>2
  <2>4. k \in 1 .. g /\ k \in 1 .. l /\ k - 1 \in 0 .. g /\ ~ (k <= k - 1)
    <3> HIDE DEF T
    <3> QED
      BY <1>2, <2>2, <2>3
  <2>5. k - 1 \notin T
    <3> HIDE DEF T
    <3> QED
      BY <2>1, <2>4
  <2>6. a[k - 1] = b[k - 1] /\ z[k] = s[k]
    BY <1>1, <2>4, <2>5
  <2>7. a[k] = b[k]
    <3> HIDE DEF T
    <3> QED
      BY <1>4, <1>5, <2>4, <2>6
  <2> QED
    BY <2>2, <2>7
<1>7. a[g] = b[g]
  BY <1>2, <1>6
<1> QED
  BY <1>1, <1>3, <1>7 DEF Matching

(* What the iterators that are at rest have pulled, whatever the statement *)
(* is doing.                                                               *)
LEMMA RestIs ==
  ASSUME TypeOK, CallsNest, FinalInv, MeansInv, UpsOpen, MeansClose, NEW n \in Resting
  PROVE  /\ plan \in Plans /\ n \in plan.nodes /\ AtRest(n, got, ended) /\ got[n] \in Nat
         /\ \A k \in DOMAIN Ups(n) :
              /\ got[Ups(n)[k]] \in 0 .. Len(StreamOf(Ups(n)[k]))
              /\ IsSeq(StreamOf(Ups(n)[k]))
<1>1. /\ plan \in Plans /\ n \in plan.nodes /\ phase[n] = "open" /\ ~ OnStack(n)
      /\ got \in [plan.nodes -> Nat]
  BY DEF Resting, TypeOK
<1>2. \A k \in DOMAIN Ups(n) : Ups(n)[k] \in plan.nodes /\ got[Ups(n)[k]] \in Nat
  BY <1>1, BelowFacts
<1>3. \A k \in DOMAIN Ups(n) : IsSeq(StreamOf(Ups(n)[k]))
  BY <1>1, StreamOfKind
<1>4. SUFFICES /\ AtRest(n, got, ended)
               /\ \A k \in DOMAIN Ups(n) : got[Ups(n)[k]] <= Len(StreamOf(Ups(n)[k]))
  <2>1. \A k \in DOMAIN Ups(n) : Len(StreamOf(Ups(n)[k])) \in Nat
    BY <1>3 DEF IsSeq
  <2>2. ASSUME NEW k \in DOMAIN Ups(n) PROVE got[Ups(n)[k]] \in 0 .. Len(StreamOf(Ups(n)[k]))
    <3>1. PICK a \in Nat, b \in Nat : a = got[Ups(n)[k]] /\ b = Len(StreamOf(Ups(n)[k])) /\ a <= b
      BY <1>2, <1>4, <2>1
    <3>2. a \in 0 .. b
      BY <3>1
    <3> QED
      BY <3>1, <3>2
  <2> QED
    BY <1>1, <1>3, <1>4, <2>2
<1>5. CASE driver.pc = "next"
  <2>1. AtRest(n, got, ended)
    BY <1>1, <1>5 DEF MeansInv, MeansNext
  <2>2. \A k \in DOMAIN Ups(n) : Counted(Ups(n)[k], got, ended)
    BY <1>1, <1>2, <1>5 DEF MeansInv, MeansNext, UpsOpen
  <2> QED
    BY <2>1, <2>2 DEF Counted
<1>6. CASE driver.pc = "open"
  <2>1. n \notin ended /\ got[n] = 0
    BY <1>1, <1>6 DEF FinalInv, Opening, MeansInv, MeansOpen
  <2>2. \A k \in DOMAIN Ups(n) : got[Ups(n)[k]] = 0
    BY <1>1, <1>2, <1>6 DEF UpsOpen, MeansInv, MeansOpen
  <2>3. \A k \in DOMAIN Ups(n) : 0 <= Len(StreamOf(Ups(n)[k]))
    BY <1>3 DEF IsSeq
  <2> QED
    BY <1>1, <2>1, <2>2, <2>3, OpenedAtRest
<1>7. CASE driver.pc = "close"
  BY <1>1, <1>7 DEF MeansClose
<1>8. driver.pc # "idle"
  BY <1>1 DEF CallsNest, Nesting, Visited
<1> QED
  BY <1>5, <1>6, <1>7, <1>8 DEF TypeOK

LEMMA RestMeans ==
  ASSUME TypeOK, CallsNest, FinalInv, MeansInv, UpsOpen, MeansClose
  PROVE  PulledOnDemand
<1> SUFFICES ASSUME NEW n \in Resting, NEW z, z = Pulled(n, 1)
             PROVE  /\ Kind(n) = "map" => Len(z) = got[n]
                    /\ Kind(n) = "filter" =>
                         /\ Len(Matching(plan.func[n], z)) = got[n]
                         /\ \/ z = << >> \/ n \in ended
                            \/ Predicate(plan.func[n], z[Len(z)])
                    /\ Kind(n) = "reduce" =>
                         IF got[n] = 0 /\ n \notin ended THEN z = << >>
                                                         ELSE z = StreamOf(Ups(n)[1])
                    /\ Kind(n) = "zip" =>
                         IF n \in ended
                           THEN \E k \in DOMAIN Ups(n) :
                                  Ups(n)[k] \in ended /\ Len(Pulled(n, k)) = got[n]
                           ELSE \A k \in DOMAIN Ups(n) : Len(Pulled(n, k)) = got[n]
  BY DEF PulledOnDemand
<1>1. /\ plan \in Plans /\ n \in plan.nodes /\ AtRest(n, got, ended) /\ got[n] \in Nat
      /\ \A k \in DOMAIN Ups(n) : /\ got[Ups(n)[k]] \in 0 .. Len(StreamOf(Ups(n)[k]))
                                  /\ IsSeq(StreamOf(Ups(n)[k]))
  BY RestIs
<1>2. \A k \in DOMAIN Ups(n) : Len(Pulled(n, k)) = got[Ups(n)[k]]
  <2> SUFFICES ASSUME NEW k \in DOMAIN Ups(n) PROVE Len(Pulled(n, k)) = got[Ups(n)[k]]
    OBVIOUS
  <2>1. PICK s, g, y : s = StreamOf(Ups(n)[k]) /\ g = got[Ups(n)[k]] /\ y = Pulled(n, k)
    OBVIOUS
  <2>2. IsSeq(s) /\ g \in 0 .. Len(s) /\ y = SubSeq(s, 1, g)
    BY <1>1, <2>1, Zenon DEF Pulled
  <2>3. Begins(y, s, g)
    BY <2>2, PrefixFacts, Zenon
  <2> QED
    BY <2>1, <2>3 DEF Begins
<1>3. Kind(n) \in {"map", "filter", "reduce", "zip"} => 1 \in DOMAIN Ups(n)
  BY <1>1, KindFacts
<1>4. PICK s, g : s = StreamOf(Ups(n)[1]) /\ g = got[Ups(n)[1]] /\ z = SubSeq(s, 1, g)
  BY DEF Pulled
<1>5. ASSUME 1 \in DOMAIN Ups(n)
      PROVE  /\ g \in 0 .. Len(s) /\ Len(z) = g /\ \A i \in 1 .. g : z[i] = s[i]
             /\ (z = << >> <=> g = 0) /\ (g = Len(s) => z = s)
             /\ Matching(plan.func[n], z) = MatchingUpTo(plan.func[n], s)[g]
  <2>1. IsSeq(s) /\ g \in 0 .. Len(s)
    BY <1>1, <1>4, <1>5
  <2>2. Begins(z, s, g)
    BY <1>4, <2>1, PrefixFacts, Zenon
  <2>3. PICK f : f = plan.func[n]
    OBVIOUS
  <2>4. Matching(f, z) = MatchingUpTo(f, s)[g]
    <3>1. z = SubSeq(s, 1, g)
      BY <1>4
    <3> QED
      BY <2>1, <3>1, MatchingPrefix, Zenon
  <2> QED
    BY <2>1, <2>2, <2>3, <2>4 DEF Begins
<1>6. Kind(n) = "map" => Len(z) = got[n]
  BY <1>1, <1>3, <1>4, <1>5 DEF AtRest
<1>7. ASSUME Kind(n) = "filter"
      PROVE  /\ Len(Matching(plan.func[n], z)) = got[n]
             /\ z = << >> \/ n \in ended \/ Predicate(plan.func[n], z[Len(z)])
  <2>1. /\ g \in 0 .. Len(s) /\ Len(z) = g /\ \A i \in 1 .. g : z[i] = s[i]
        /\ z = << >> <=> g = 0
        /\ Matching(plan.func[n], z) = MatchingUpTo(plan.func[n], s)[g]
    BY <1>3, <1>5, <1>7
  <2>2. /\ Len(MatchingUpTo(plan.func[n], s)[g]) = got[n]
        /\ g = 0 \/ n \in ended \/ Predicate(plan.func[n], s[g])
    BY <1>1, <1>4, <1>7 DEF AtRest, Selected
  <2>3. g # 0 => z[g] = s[g]
    <3>1. g # 0 => g \in 1 .. g
      BY <2>1
    <3> QED
      BY <2>1, <3>1
  <2> QED
    BY <2>1, <2>2, <2>3
<1>8. ASSUME Kind(n) = "reduce"
      PROVE  IF got[n] = 0 /\ n \notin ended THEN z = << >> ELSE z = StreamOf(Ups(n)[1])
  BY <1>1, <1>3, <1>4, <1>5, <1>8 DEF AtRest, ReduceAtRest
<1>9. ASSUME Kind(n) = "zip"
      PROVE  IF n \in ended
               THEN \E k \in DOMAIN Ups(n) : Ups(n)[k] \in ended /\ Len(Pulled(n, k)) = got[n]
               ELSE \A k \in DOMAIN Ups(n) : Len(Pulled(n, k)) = got[n]
  BY <1>1, <1>2, <1>9 DEF AtRest, ZipEnded
<1> QED
  BY <1>6, <1>7, <1>8, <1>9

(* No operator reads ahead: between two calls of its Next function, a map, *)
(* a filter, a reduce or a zip that has not ended has pulled from its      *)
(* upstreams just what the elements it has returned need, and a zip ends   *)
(* because one of its inputs has, for every plan.                          *)
THEOREM PulledOnDemandAlways == Spec => []PulledOnDemand
<1>1. Init => UpsOpen /\ MeansClose
  BY DEF Init, UpsOpen, MeansClose
<1>2. TypeOK /\ CallsNest /\ MeansInv /\ UpsOpen /\ MeansClose /\ [Next]_vars
        => UpsOpen' /\ MeansClose'
  BY RestStep
<1>3. TypeOK /\ CallsNest /\ FinalInv /\ MeansInv /\ UpsOpen /\ MeansClose => PulledOnDemand
  BY RestMeans
<1> QED
  BY <1>1, <1>2, <1>3, MeansAlways, PTL DEF Spec

-----------------------------------------------------------------------------
(* The program prints what it promises.                                    *)

LEMMA SameStreams ==
  ASSUME NEW p
  PROVE  Program!Streams(p) = Streams(p)
BY DEF Program!Streams, Streams, Program!StreamOfNode, StreamOfNode, Program!Matching, Matching,
       Program!MatchingUpTo, MatchingUpTo, Program!Reduction, Reduction,
       Program!ReducedUpTo, ReducedUpTo, Program!Zipped, Zipped, Program!Shortest, Shortest

InputStream == StreamOf(Stmt.input)

(* An element has been returned to the statement, which has yet to use it. *)
Delivered == ctl = "ret" /\ stack = << >> /\ driver.pc = "next" /\ ret.hasNext
Used == IF Delivered THEN got[Stmt.input] - 1 ELSE got[Stmt.input]

Printed ==
  /\ \A l \in DOMAIN out : l > line => out[l] = << >>
  /\ ctl = "stmt" /\ line \in DOMAIN out => out[line] = << >>
  /\ ctl # "stmt" /\ Stmt.op = "stream_to_value" => out[line] = << >>
  /\ ctl # "stmt" /\ Stmt.op = "sink" =>
       /\ driver.pc = "open" => out[line] = << >>
       /\ driver.pc = "next" => out[line] = SubSeq(InputStream, 1, Used)
       /\ driver.pc = "close" => out[line] = InputStream
ValueRead ==
  ctl # "stmt" /\ Stmt.op = "stream_to_value" =>
    /\ driver.pc = "next" => Used = 0
    /\ driver.pc = "close" =>
         driver.value = SubSeq(InputStream, 1, IF InputStream = << >> THEN 0 ELSE 1)
OutInv == Printed /\ ValueRead

(* Within the calls nothing is printed, and the statement's input has      *)
(* returned what the statement has used until the first call returns.      *)
LEMMA OutWithin ==
  ASSUME TypeOK, CallsNest, OutInv, ctl # "stmt", ctl' # "stmt",
         UNCHANGED <<plan, line, driver, out>>, driver.pc = "next" => (Used)' = Used
  PROVE  OutInv'
<1>1. (InputStream)' = InputStream /\ (Stmt)' = Stmt
  BY DEF InputStream, Stmt, StreamOf
<1>2. Printed'
  BY <1>1 DEF OutInv, Printed
<1>3. ValueRead'
  BY <1>1 DEF OutInv, ValueRead
<1> QED
  BY <1>2, <1>3 DEF OutInv

LEMMA OutCall ==
  ASSUME TypeOK, CallsNest, OutInv, stack # << >>, NEW f, NEW k, CallUpstream(f, k)
  PROVE  OutInv' /\ UNCHANGED Program!vars
<1>1. stack' # << >> /\ ctl' # "stmt" /\ ctl # "stmt"
  <2>1. IsSeq(stack) /\ Len(stack) > 0
    BY EmptyIffLen0 DEF TypeOK, IsSeq
  <2>2. ctl' = "call" /\ ctl # "stmt"
    BY DEF CallUpstream, CallsNest, Nesting
  <2>3. PICK S, u, x : /\ S = {stack[i] : i \in 1 .. Len(stack)} \cup {[f EXCEPT !.up = k]}
                       /\ u = [stack EXCEPT ![Len(stack)] = [f EXCEPT !.up = k]]
                       /\ x = Frame(Ups(f.node)[k], f.fn, f.st)
    OBVIOUS
  <2>4. PICK w, L : w = [f EXCEPT !.up = k] /\ L = Len(stack)
    OBVIOUS
  <2>5. stack \in Seq(S) /\ L > 0 /\ w \in S /\ L \in Nat
    <3>1. \A i \in 1 .. Len(stack) : stack[i] \in S
      BY <2>3
    <3> QED
      BY <2>1, <2>3, <2>4, <3>1, SeqOverRange DEF IsSeq
  <2>6. u \in Seq(S) /\ Len(u) = L
    BY <2>3, <2>4, <2>5, ReplaceLast
  <2>7. stack' = Append(u, x)
    BY <2>3 DEF CallUpstream
  <2>8. stack' # << >>
    BY <2>6, <2>7
  <2> QED
    BY <2>2, <2>8
<1>2. UNCHANGED <<plan, line, driver, out, got>>
  BY DEF CallUpstream
<1>3. (Used)' = Used
  <2>1. ~ (Delivered)' /\ ~ Delivered
    BY <1>1 DEF Delivered
  <2> QED
    BY <1>2, <2>1 DEF Used, Stmt
<1>4. OutInv'
  BY <1>1, <1>2, <1>3, OutWithin
<1> QED
  BY <1>2, <1>4 DEF Program!vars

LEMMA OutReturn ==
  ASSUME TypeOK, CallsNest, OutInv, stack # << >>, NEW s, NEW hasNext, NEW v,
         Return(s, hasNext, v)
  PROVE  OutInv' /\ UNCHANGED Program!vars
<1>1. ctl' # "stmt" /\ ctl # "stmt" /\ UNCHANGED <<plan, line, driver, out>>
  BY DEF Return, CallsNest, Nesting
<1>2. ASSUME driver.pc = "next" PROVE (Used)' = Used
  <2>1. PICK L \in Nat : L = Len(stack) /\ L > 0
    <3>1. IsSeq(stack)
      BY DEF TypeOK, IsSeq
    <3> QED
      BY <3>1, EmptyIffLen0 DEF IsSeq
  <2>2. PICK t \in plan.nodes : t = Top.node /\ plan \in Plans /\ Top.fn = "next"
    BY <1>2, TopFacts, TopRuns
  <2>3. ~ Delivered
    BY DEF Delivered
  <2>4. stack' = SubSeq(stack, 1, L - 1) /\ ctl' = "ret" /\ (ret').hasNext = hasNext
    BY <2>1 DEF Return
  <2>5. Len(stack') = L - 1 /\ (stack' = << >> <=> L = 1)
    <3>1. PICK S : S = {stack[i] : i \in 1 .. L}
      OBVIOUS
    <3>2. stack \in Seq(S)
      BY <2>1, <3>1, SeqOverRange DEF TypeOK, IsSeq
    <3>3. PICK z : z = SubSeq(stack, 1, Len(stack) - 1)
      OBVIOUS
    <3>4. z \in Seq(S) /\ Len(z) = Len(stack) - 1
      BY <2>1, <3>2, <3>3, FrontFacts
    <3>5. z = << >> <=> Len(z) = 0
      BY <3>4
    <3> QED
      BY <2>1, <2>4, <3>3, <3>4, <3>5
  <2>6. IF hasNext THEN got' = [got EXCEPT ![t] = @ + 1] ELSE got' = got
    BY <2>2 DEF Return
  <2>7. PICK i \in plan.nodes : i = Stmt.input /\ (Stmt.input)' = i /\ i = stack[1].node
    <3>1. Stmt.input = stack[1].node /\ stack[1].node \in plan.nodes
      <4>1. 1 \in 1 .. Len(stack)
        BY <2>1
      <4> QED
        BY <4>1 DEF TypeOK, CallsNest, Nesting
    <3> QED
      BY <1>1, <3>1 DEF Stmt
  <2>8. got \in [plan.nodes -> Nat]
    BY DEF TypeOK
  <2>9. CASE L = 1
    <3>1. t = i
      BY <2>1, <2>2, <2>7, <2>9 DEF Top
    <3>2. (Delivered)' <=> hasNext
      BY <1>1, <1>2, <2>4, <2>5, <2>9 DEF Delivered
    <3>3. CASE hasNext
      BY <2>3, <2>6, <2>7, <2>8, <3>1, <3>2, <3>3 DEF Used
    <3>4. CASE ~ hasNext
      BY <2>3, <2>6, <2>7, <2>8, <3>1, <3>2, <3>4 DEF Used
    <3> QED
      BY <3>3, <3>4
  <2>10. CASE L # 1
    <3>1. t # i
      <4>1. /\ 1 \in 1 .. Len(stack) - 1 /\ L \in 1 + 1 .. Len(stack) /\ t = stack[L].node
            /\ 1 \in 1 .. Len(stack)
        BY <2>1, <2>2, <2>10 DEF Top
      <4>2. t \in Below(Called(1)) /\ stack[1].up > 0 /\ stack[1].up \in 0 .. Len(Ups(i))
        BY <2>7, <4>1 DEF TypeOK, CallsNest, Nesting
      <4>3. Called(1) = Ups(i)[stack[1].up] /\ stack[1].up \in DOMAIN Ups(i)
        <5>1. Len(Ups(i)) \in Nat /\ DOMAIN Ups(i) = 1 .. Len(Ups(i))
          BY <2>2, BelowFacts
        <5> QED
          BY <2>7, <4>2, <5>1 DEF Called
      <4>4. i \notin Below(Called(1))
        BY <2>2, <4>3, BelowFacts
      <4> QED
        BY <4>2, <4>4
    <3>2. ~ (Delivered)'
      BY <2>5, <2>10 DEF Delivered
    <3> QED
      BY <2>3, <2>6, <2>7, <2>8, <3>1, <3>2 DEF Used
  <2> QED
    BY <2>9, <2>10
<1>3. OutInv'
  BY <1>1, <1>2, OutWithin
<1> QED
  BY <1>1, <1>3 DEF Program!vars

(* What a statement that resumes finds.                                    *)
LEMMA BackFacts ==
  ASSUME TypeOK, CallsNest, FinalInv, MeansInv, ctl = "ret", stack = << >>
  PROVE  /\ line \in 1 .. Len(plan.stmts) /\ line \in DOMAIN out /\ Len(plan.stmts) \in Nat
         /\ IsSeq(InputStream) /\ got[Stmt.input] \in Nat
         /\ driver.pc = "open" => got[Stmt.input] = 0
         /\ driver.pc = "next" =>
              IF ret.hasNext
                THEN /\ got[Stmt.input] \in 1 .. Len(InputStream)
                     /\ ret.element = InputStream[got[Stmt.input]]
                ELSE got[Stmt.input] = Len(InputStream)
<1>1. /\ line \in 1 .. Len(plan.stmts) /\ line \in DOMAIN out /\ plan \in Plans
      /\ Len(plan.stmts) \in Nat
  <2>1. /\ line \in 1 .. Len(plan.stmts) + 1 /\ line <= Len(plan.stmts) /\ plan \in Plans
        /\ DOMAIN out = 1 .. Len(plan.stmts)
    BY DEF TypeOK, CallsNest, Nesting
  <2>2. Len(plan.stmts) \in Nat
    BY <2>1, PlansAssumption DEF PlanOK
  <2> QED
    BY <2>1, <2>2
<1>2. PICK i \in plan.nodes : i = Stmt.input
  BY <1>1, StmtFacts
<1>3. IsSeq(InputStream) /\ InputStream = StreamOf(i)
  BY <1>1, <1>2, StreamOfKind DEF InputStream
<1>4. got[i] \in Nat
  BY DEF TypeOK
<1>5. driver.pc \in {"open", "next"} => phase[i] = "open"
  BY <1>2, InputIsOpen
<1>6. driver.pc = "open" => got[i] = 0
  BY <1>5 DEF MeansInv, MeansOpen
<1>7. ASSUME driver.pc = "next"
      PROVE  IF ret.hasNext THEN got[i] \in 1 .. Len(InputStream) /\ ret.element = InputStream[got[i]]
                            ELSE got[i] = Len(InputStream)
  <2>1. Returned = i
    BY <1>2 DEF Returned
  <2>2. Counted(i, got, ended)
    BY <1>5, <1>7 DEF MeansInv, MeansNext
  <2>3. PICK l \in Nat, g \in Nat : l = Len(InputStream) /\ g = got[i]
    BY <1>3, <1>4 DEF IsSeq
  <2>4. CASE ret.hasNext
    <3>1. got[i] > 0 /\ ret.element = StreamOf(i)[got[i]]
      BY <1>7, <2>1, <2>4 DEF MeansInv, MeansNext
    <3>2. g > 0 /\ g <= l
      BY <1>3, <2>2, <2>3, <3>1 DEF Counted
    <3>3. g \in 1 .. l
      BY <3>2
    <3> QED
      BY <1>3, <2>3, <2>4, <3>1, <3>3
  <2>5. CASE ~ ret.hasNext
    <3>1. i \in ended
      BY <1>7, <2>1, <2>5 DEF FinalInv, EndsHold
    <3> QED
      BY <1>3, <2>2, <2>5, <3>1 DEF Counted
  <2> QED
    BY <2>4, <2>5
<1> QED
  BY <1>1, <1>2, <1>3, <1>4, <1>6, <1>7

(* A beginning of a stream with one more element, and the two shortest.    *)
LEMMA LongerBeginning ==
  ASSUME NEW s, IsSeq(s), NEW g \in 1 .. Len(s)
  PROVE  /\ Len(SubSeq(s, 1, g - 1)) = g - 1
         /\ Append(SubSeq(s, 1, g - 1), s[g]) = SubSeq(s, 1, g)
<1>1. PICK l \in Nat : l = Len(s) /\ g \in 1 .. l
  BY DEF IsSeq
<1>2. PICK S : S = {s[i] : i \in 1 .. l}
  OBVIOUS
<1>3. PICK x, z : x = SubSeq(s, 1, g - 1) /\ z = SubSeq(s, 1, g)
  OBVIOUS
<1>4. g - 1 \in 0 .. Len(s) /\ g \in 0 .. Len(s) /\ g \in Nat /\ g - 1 \in Nat
  BY <1>1
<1>5. PICK h : h = g - 1 /\ h \in 0 .. Len(s) /\ x = SubSeq(s, 1, h)
  BY <1>3, <1>4, Zenon
<1>6. Begins(x, s, h) /\ Begins(z, s, g)
  BY <1>3, <1>4, <1>5, PrefixFacts, Zenon
<1>7. x \in Seq(S) /\ s[g] \in S
  <2>1. IsSeq(x) /\ Len(x) = g - 1 /\ \A i \in 1 .. g - 1 : x[i] = s[i]
    BY <1>5, <1>6 DEF Begins
  <2>2. \A i \in 1 .. Len(x) : x[i] \in S
    BY <1>1, <1>2, <2>1
  <2> QED
    BY <1>1, <1>2, <2>1, <2>2, SeqOverRange
<1>8. PICK y, w : y = s[g] /\ y \in S /\ w = Append(x, y)
  BY <1>7
<1>9. /\ w \in Seq(S) /\ Len(w) = Len(x) + 1 /\ w[Len(x) + 1] = y
      /\ \A i \in 1 .. Len(x) : w[i] = x[i]
  BY ONLY <1>7, <1>8
<1>10. /\ Len(w) = g /\ w[g] = s[g] /\ \A i \in 1 .. g - 1 : w[i] = s[i]
  <2>1. Len(x) = g - 1 /\ \A i \in 1 .. g - 1 : x[i] = s[i]
    BY <1>5, <1>6 DEF Begins
  <2> QED
    BY <1>4, <1>8, <1>9, <2>1
<1>11. \A i \in 1 .. g : w[i] = z[i]
  <2>1. \A i \in 1 .. g : z[i] = s[i]
    BY <1>6 DEF Begins
  <2>2. \A i \in 1 .. g : i \in 1 .. g - 1 \/ i = g
    BY <1>4
  <2> QED
    BY <1>10, <2>1, <2>2
<1>12. w = z
  <2>1. IsSeq(w) /\ IsSeq(z) /\ Len(z) = g
    BY <1>6, <1>9, SeqIsSeq DEF Begins
  <2>2. w = [i \in 1 .. g |-> w[i]] /\ z = [i \in 1 .. g |-> z[i]]
    BY <1>10, <2>1 DEF IsSeq
  <2>3. [i \in 1 .. g |-> w[i]] = [i \in 1 .. g |-> z[i]]
    BY <1>11
  <2> QED
    BY ONLY <2>2, <2>3, Zenon
<1> QED
  BY <1>3, <1>5, <1>6, <1>8, <1>12 DEF Begins

LEMMA EmptyBeginning ==
  ASSUME NEW s, IsSeq(s)
  PROVE  SubSeq(s, 1, 0) = << >> /\ SubSeq(s, 1, Len(s)) = s
<1>1. PICK l : l = Len(s) /\ l \in 0 .. Len(s) /\ 0 \in 0 .. Len(s)
  BY DEF IsSeq
<1>2. PICK x, z : x = SubSeq(s, 1, 0) /\ z = SubSeq(s, 1, l)
  OBVIOUS
<1>3. Begins(x, s, 0) /\ Begins(z, s, l)
  BY <1>1, <1>2, PrefixFacts, Zenon
<1> QED
  BY <1>1, <1>2, <1>3 DEF Begins

(* The code of a sink prints the next element, or ends once all of them    *)
(* are printed.                                                            *)
LEMMA OutSink ==
  ASSUME TypeOK, CallsNest, FinalInv, MeansInv, OutInv, SinkLoop
  PROVE  OutInv' /\ [Program!Next]_(Program!vars)
<1>1. ctl = "ret" /\ stack = << >> /\ Stmt.op = "sink" /\ plan' = plan
  BY DEF SinkLoop, Back, CallInput, EndStatement
<1>2. /\ line \in 1 .. Len(plan.stmts) /\ line \in DOMAIN out /\ Len(plan.stmts) \in Nat
      /\ IsSeq(InputStream) /\ got[Stmt.input] \in Nat
      /\ driver.pc = "open" => got[Stmt.input] = 0
      /\ driver.pc = "next" =>
           IF ret.hasNext
             THEN /\ got[Stmt.input] \in 1 .. Len(InputStream)
                  /\ ret.element = InputStream[got[Stmt.input]]
             ELSE got[Stmt.input] = Len(InputStream)
  BY <1>1, BackFacts
<1>3. Program!Input = InputStream /\ Program!Running("sink")
  BY <1>1, <1>2, SameStreams DEF Program!Input, Program!Running, InputStream, StreamOf, Stmt
<1>4. PICK s, g : s = InputStream /\ g = got[Stmt.input]
  OBVIOUS
<1>5. ASSUME NEW fn \in {"next", "close"}, NEW x, NEW value, CallInput(fn, x, value)
      PROVE  /\ ctl' = "call" /\ driver'.pc = fn /\ line' = line
             /\ (InputStream)' = s /\ (Stmt)' = Stmt /\ (Used)' = g
  <2>1. /\ ctl' = "call" /\ driver'.pc = fn /\ UNCHANGED <<plan, line, got>>
    BY <1>5 DEF CallInput
  <2> QED
    BY <1>4, <2>1 DEF InputStream, Stmt, StreamOf, Used, Delivered
<1>6. CASE Back("sink", "open") /\ CallInput("next", ret.st, << >>) /\ UNCHANGED out
  <2>1. driver.pc = "open"
    BY <1>6 DEF Back
  <2>2. out[line] = << >> /\ g = 0 /\ SubSeq(s, 1, 0) = << >>
    BY <1>1, <1>2, <1>4, <2>1, EmptyBeginning DEF OutInv, Printed
  <2>3. Printed' /\ ValueRead'
    BY <1>1, <1>5, <1>6, <2>2 DEF OutInv, Printed, ValueRead
  <2>4. UNCHANGED Program!vars
    BY <1>1, <1>5, <1>6 DEF Program!vars
  <2> QED
    BY <2>3, <2>4 DEF OutInv
<1>7. CASE /\ Back("sink", "next") /\ ret.hasNext
           /\ out' = [out EXCEPT ![line] = Append(@, ret.element)]
           /\ CallInput("next", ret.st, << >>)
  <2>1. driver.pc = "next" /\ Delivered
    BY <1>1, <1>7 DEF Back, Delivered
  <2>2. IsSeq(s) /\ g \in 1 .. Len(s) /\ ret.element = s[g] /\ Used = g - 1
    BY <1>2, <1>4, <1>7, <2>1 DEF Used
  <2>3. out[line] = SubSeq(s, 1, g - 1)
    BY <1>1, <1>4, <2>1, <2>2 DEF OutInv, Printed
  <2>4. Len(out[line]) = g - 1 /\ Append(out[line], s[g]) = SubSeq(s, 1, g)
    BY <2>2, <2>3, LongerBeginning
  <2>5. out'[line] = SubSeq(s, 1, g) /\ \A l \in DOMAIN out : l # line => out'[l] = out[l]
    BY <1>2, <1>7, <2>2, <2>4
  <2>6. DOMAIN out' = DOMAIN out /\ \A l \in DOMAIN out : l > line => l # line
    <3>1. \A l \in DOMAIN out : l \in Nat
      BY DEF TypeOK
    <3> QED
      BY <1>2, <1>7, <3>1
  <2>7. Printed' /\ ValueRead'
    BY <1>1, <1>5, <1>7, <2>5, <2>6 DEF OutInv, Printed, ValueRead
  <2>8. PICK l \in Nat : l = Len(s) /\ g \in 1 .. l
    BY <2>2 DEF IsSeq
  <2>9. Len(out[line]) < Len(s) /\ s[Len(out[line]) + 1] = ret.element
    BY <2>2, <2>4, <2>8
  <2>10. Program!PrintElement
    BY <1>1, <1>3, <1>4, <1>5, <1>7, <2>9 DEF Program!PrintElement
  <2> QED
    BY <2>7, <2>10 DEF OutInv, Program!Next
<1>8. CASE Back("sink", "next") /\ ~ ret.hasNext /\ CallInput("close", ret.st, << >>) /\ UNCHANGED out
  <2>1. driver.pc = "next" /\ ~ Delivered
    BY <1>8 DEF Back, Delivered
  <2>2. out[line] = SubSeq(s, 1, g) /\ g = Len(s) /\ IsSeq(s)
    BY <1>1, <1>2, <1>4, <1>8, <2>1 DEF OutInv, Printed, Used
  <2>3. out[line] = s
    BY <2>2, EmptyBeginning
  <2>4. Printed' /\ ValueRead'
    BY <1>1, <1>5, <1>8, <2>3 DEF OutInv, Printed, ValueRead
  <2>5. UNCHANGED Program!vars
    BY <1>1, <1>5, <1>8 DEF Program!vars
  <2> QED
    BY <2>4, <2>5 DEF OutInv
<1>9. CASE Back("sink", "close") /\ EndStatement /\ UNCHANGED out
  <2>1. driver.pc = "close" /\ line' = line + 1 /\ ctl' = "stmt"
    BY <1>9 DEF Back, EndStatement
  <2>2. out[line] = s
    BY <1>1, <1>4, <2>1 DEF OutInv, Printed
  <2>3. Printed' /\ ValueRead'
    <3>1. \A l \in DOMAIN out : l >= line + 1 => l > line
      <4>1. \A l \in DOMAIN out : l \in Nat
        BY DEF TypeOK
      <4> QED
        BY <1>2, <4>1
    <3>2. \A l \in DOMAIN out : (l > line + 1 \/ l = line + 1) => l >= line + 1
      <4>1. \A l \in DOMAIN out : l \in Nat
        BY DEF TypeOK
      <4> QED
        BY <1>2, <4>1
    <3> QED
      BY <1>9, <2>1, <3>1, <3>2 DEF OutInv, Printed, ValueRead
  <2>4. Program!EndOfStream
    BY <1>1, <1>3, <1>4, <1>9, <2>1, <2>2 DEF Program!EndOfStream
  <2> QED
    BY <2>3, <2>4 DEF OutInv, Program!Next
<1> QED
  BY <1>6, <1>7, <1>8, <1>9 DEF SinkLoop

(* The code of stream_to_value yields the first element.                   *)
LEMMA OutValue ==
  ASSUME TypeOK, CallsNest, FinalInv, MeansInv, OutInv, StreamToValue
  PROVE  OutInv' /\ [Program!Next]_(Program!vars)
<1>1. ctl = "ret" /\ stack = << >> /\ Stmt.op = "stream_to_value" /\ plan' = plan
  BY DEF StreamToValue, Back, CallInput, EndStatement
<1>2. /\ line \in 1 .. Len(plan.stmts) /\ line \in DOMAIN out /\ Len(plan.stmts) \in Nat
      /\ IsSeq(InputStream) /\ got[Stmt.input] \in Nat
      /\ driver.pc = "open" => got[Stmt.input] = 0
      /\ driver.pc = "next" =>
           IF ret.hasNext
             THEN /\ got[Stmt.input] \in 1 .. Len(InputStream)
                  /\ ret.element = InputStream[got[Stmt.input]]
             ELSE got[Stmt.input] = Len(InputStream)
  BY <1>1, BackFacts
<1>3. Program!Input = InputStream /\ Program!Running("stream_to_value")
  BY <1>1, <1>2, SameStreams DEF Program!Input, Program!Running, InputStream, StreamOf, Stmt
<1>4. PICK s, g : s = InputStream /\ g = got[Stmt.input]
  OBVIOUS
<1>5. ASSUME NEW fn \in {"next", "close"}, NEW x, NEW value, CallInput(fn, x, value)
      PROVE  /\ ctl' = "call" /\ driver'.pc = fn /\ driver'.value = value /\ line' = line
             /\ (InputStream)' = s /\ (Stmt)' = Stmt /\ (Used)' = g
  <2>1. /\ ctl' = "call" /\ driver' = [pc |-> fn, value |-> value]
        /\ UNCHANGED <<plan, line, got>>
    BY <1>5 DEF CallInput
  <2> QED
    BY <1>4, <2>1 DEF InputStream, Stmt, StreamOf, Used, Delivered
<1>6. out[line] = << >>
  BY <1>1 DEF OutInv, Printed
<1>7. CASE Back("stream_to_value", "open") /\ CallInput("next", ret.st, << >>) /\ UNCHANGED out
  <2>1. g = 0
    BY <1>2, <1>4, <1>7 DEF Back
  <2>2. Printed' /\ ValueRead'
    BY <1>1, <1>5, <1>6, <1>7, <2>1 DEF OutInv, Printed, ValueRead
  <2>3. UNCHANGED Program!vars
    BY <1>1, <1>5, <1>7 DEF Program!vars
  <2> QED
    BY <2>2, <2>3 DEF OutInv
<1>8. CASE /\ Back("stream_to_value", "next") /\ UNCHANGED out
           /\ CallInput("close", ret.st, IF ret.hasNext THEN <<ret.element>> ELSE << >>)
  <2>1. PICK value : /\ value = IF ret.hasNext THEN <<ret.element>> ELSE << >>
                     /\ CallInput("close", ret.st, value)
    BY <1>8
  <2>2. driver.pc = "next" /\ Used = 0
    BY <1>1, <1>8 DEF Back, OutInv, ValueRead
  <2>3. value = SubSeq(s, 1, IF s = << >> THEN 0 ELSE 1)
    <3>1. CASE ret.hasNext
      <4>1. Delivered
        BY <1>1, <2>2, <3>1 DEF Delivered
      <4>2. g \in Nat /\ g \in 1 .. Len(s) /\ ret.element = s[g] /\ g - 1 = 0 /\ IsSeq(s)
        BY <1>2, <1>4, <2>2, <3>1, <4>1 DEF Used
      <4>3. g = 1
        BY <4>2
      <4>4. 1 \in 1 .. Len(s) /\ value = <<s[1]>> /\ s # << >>
        <5>1. s = << >> <=> Len(s) = 0
          BY <4>2, EmptyIffLen0
        <5> QED
          BY <2>1, <3>1, <4>2, <4>3, <5>1
      <4>5. Append(SubSeq(s, 1, 1 - 1), s[1]) = SubSeq(s, 1, 1)
        BY <4>2, <4>4, LongerBeginning
      <4>6. SubSeq(s, 1, 1 - 1) = << >>
        BY <4>2, EmptyBeginning
      <4>7. \A y : Append(<< >>, y) = <<y>>
        OBVIOUS
      <4> QED
        BY <4>4, <4>5, <4>6, <4>7
    <3>2. CASE ~ ret.hasNext
      <4>1. g = 0 /\ g = Len(s) /\ IsSeq(s) /\ value = << >>
        BY <1>2, <1>4, <2>1, <2>2, <3>2 DEF Used, Delivered
      <4>2. s = << >> /\ SubSeq(s, 1, 0) = << >>
        BY <4>1, EmptyIffLen0, EmptyBeginning
      <4> QED
        BY <4>1, <4>2
    <3> QED
      BY <3>1, <3>2
  <2>4. Printed' /\ ValueRead'
    BY <1>1, <1>5, <1>6, <1>8, <2>1, <2>3 DEF OutInv, Printed, ValueRead
  <2>5. UNCHANGED Program!vars
    BY <1>1, <1>5, <1>8, <2>1 DEF Program!vars
  <2> QED
    BY <2>4, <2>5 DEF OutInv
<1>9. CASE /\ Back("stream_to_value", "close") /\ EndStatement
           /\ out' = [out EXCEPT ![line] = driver.value]
  <2>1. driver.pc = "close" /\ line' = line + 1 /\ ctl' = "stmt"
    BY <1>9 DEF Back, EndStatement
  <2>2. driver.value = SubSeq(s, 1, IF s = << >> THEN 0 ELSE 1)
    BY <1>1, <1>4, <2>1 DEF OutInv, ValueRead
  <2>3. \A l \in DOMAIN out : l \in Nat
    BY DEF TypeOK
  <2>4. /\ DOMAIN out' = DOMAIN out
        /\ \A l \in DOMAIN out : l > line => out'[l] = << >>
    BY <1>2, <1>9, <2>3 DEF OutInv, Printed
  <2>5. \A l \in DOMAIN out : (l > line + 1 \/ l = line + 1) => l > line
    BY <1>2, <2>3
  <2>6. Printed' /\ ValueRead'
    BY <2>1, <2>4, <2>5 DEF Printed, ValueRead
  <2>7. Program!FirstElement
    BY <1>1, <1>3, <1>4, <1>9, <2>1, <2>2 DEF Program!FirstElement
  <2> QED
    BY <2>6, <2>7 DEF OutInv, Program!Next
<1> QED
  BY <1>7, <1>8, <1>9 DEF StreamToValue

LEMMA OutStart ==
  ASSUME TypeOK, CallsNest, OutInv, StartStatement
  PROVE  OutInv' /\ UNCHANGED Program!vars
<1>1. /\ ctl = "stmt" /\ ctl' = "call" /\ driver'.pc = "open" /\ line <= Len(plan.stmts)
      /\ UNCHANGED <<plan, line, out>>
  BY DEF StartStatement, CallInput
<1>2. line \in DOMAIN out
  <2>1. plan \in Plans /\ line \in 1 .. Len(plan.stmts) + 1 /\ DOMAIN out = 1 .. Len(plan.stmts)
    BY DEF TypeOK
  <2>2. Len(plan.stmts) \in Nat
    BY <2>1, PlansAssumption DEF PlanOK
  <2> QED
    BY <1>1, <2>1, <2>2
<1>3. Printed' /\ ValueRead'
  BY <1>1, <1>2 DEF OutInv, Printed, ValueRead
<1> QED
  BY <1>1, <1>3 DEF OutInv, Program!vars

LEMMA OutStep ==
  ASSUME TypeOK, CallsNest, FinalInv, MeansInv, OutInv, [Next]_vars
  PROVE  OutInv' /\ [Program!Next]_(Program!vars)
<1>1. CASE StartStatement \/ SinkLoop \/ StreamToValue
  BY <1>1, OutStart, OutSink, OutValue
<1>2. CASE UNCHANGED vars
  <2>1. /\ ctl' = ctl /\ UNCHANGED <<plan, line, driver, out, stack, ret, got>>
    BY <1>2 DEF vars
  <2>2. (InputStream)' = InputStream /\ (Stmt)' = Stmt /\ (Used)' = Used
    BY <2>1 DEF InputStream, Stmt, StreamOf, Used, Delivered
  <2>3. Printed' /\ ValueRead'
    BY <2>1, <2>2 DEF OutInv, Printed, ValueRead
  <2> QED
    BY <2>1, <2>3 DEF OutInv, Program!vars
<1>3. CASE SourceStep \/ OperatorStep
  <2>1. \/ stack # << >> /\ \E f, k : CallUpstream(f, k)
        \/ stack # << >> /\ \E s, hasNext, v : Return(s, hasNext, v)
    BY <1>3, CallForms
  <2> QED
    BY <2>1, OutCall, OutReturn
<1>4. CASE Terminated
  BY <1>2, <1>4 DEF Terminated
<1> QED
  BY <1>1, <1>2, <1>3, <1>4 DEF Next

(* The detailed specification implements StreamProgram, step by step: a    *)
(* sink prints the elements of its input stream in order, and goes on when *)
(* all are printed; stream_to_value yields the first element.              *)
THEOREM ProgramImplemented == Spec => Program!Init /\ [][Program!Next]_(Program!vars)
<1>1. Init => OutInv
  BY DEF Init, OutInv, Printed, ValueRead
<1>2. Init => Program!Init
  BY DEF Init, Program!Init
<1>3. TypeOK /\ CallsNest /\ FinalInv /\ MeansInv /\ OutInv /\ [Next]_vars
        => OutInv' /\ [Program!Next]_(Program!vars)
  BY OutStep
<1> QED
  BY <1>1, <1>2, <1>3, MeansAlways, PTL DEF Spec

-----------------------------------------------------------------------------
(* The elements of every stream are defined.                               *)

AllDefined(s) == \A i \in 1 .. Len(s) : Defined(s[i])

LEMMA MatchingDefined ==
  ASSUME NEW f, NEW s, IsSeq(s), AllDefined(s)
  PROVE  AllDefined(MatchingUpTo(f, s)[Len(s)])
<1>1. PICK l \in Nat : l = Len(s)
  BY DEF IsSeq
<1>2. PICK m : m = MatchingUpTo(f, s)
  OBVIOUS
<1>3. MatchesGrow(f, s, m)
  BY <1>2, MatchingFacts
<1>4. \A i \in 0 .. l : Len(m[i]) \in Nat
  BY <1>1, <1>3 DEF MatchesGrow, IsSeq
<1> DEFINE T == {i \in 0 .. l : ~ AllDefined(m[i])}
<1>5. T = {}
  <2> SUFFICES ASSUME T # {} PROVE FALSE
    OBVIOUS
  <2>1. PICK k \in T : \A j \in T : k <= j
    <3>1. T \in SUBSET Nat
      OBVIOUS
    <3> HIDE DEF T
    <3> QED
      BY <3>1, Least
  <2>2. k \in 0 .. l /\ ~ AllDefined(m[k])
    OBVIOUS
  <2> HIDE DEF T
  <2>3. AllDefined(m[0])
    <3>1. Len(m[0]) = 0
      BY <1>3 DEF MatchesGrow
    <3> QED
      BY <3>1 DEF AllDefined
  <2>4. k \in 1 .. l /\ k - 1 \in 0 .. l /\ ~ (k <= k - 1) /\ k \in (k - 1) .. l
    BY <2>2, <2>3
  <2>5. k - 1 \notin T
    BY <2>1, <2>4
  <2>6. AllDefined(m[k - 1])
    BY <2>4, <2>5 DEF T
  <2>7. CASE ~ Predicate(f, s[k])
    BY <1>1, <1>3, <2>2, <2>4, <2>6, <2>7 DEF MatchesGrow
  <2>8. CASE Predicate(f, s[k])
    <3>1. /\ Len(m[k]) = Len(m[k - 1]) + 1 /\ m[k][Len(m[k])] = s[k]
          /\ \A j \in 1 .. Len(m[k - 1]) : m[k][j] = m[k - 1][j]
      BY <1>1, <1>3, <2>4, <2>8 DEF MatchesGrow
    <3>2. Defined(s[k])
      BY <1>1, <2>4 DEF AllDefined
    <3>3. PICK a \in Nat : a = Len(m[k - 1]) /\ Len(m[k]) = a + 1
      BY <1>4, <2>4, <3>1
    <3>4. \A j \in 1 .. a + 1 : j \in 1 .. a \/ j = a + 1
      OBVIOUS
    <3>5. \A j \in 1 .. Len(m[k]) : Defined(m[k][j])
      BY <2>6, <3>1, <3>2, <3>3, <3>4 DEF AllDefined
    <3> QED
      BY <2>2, <3>5 DEF AllDefined
  <2> QED
    BY <2>7, <2>8
<1>6. l \in 0 .. l
  OBVIOUS
<1> QED
  BY <1>1, <1>2, <1>5, <1>6

LEMMA ReducedDefined ==
  ASSUME NEW f, NEW s, IsSeq(s), AllDefined(s), NEW r, r = ReducedUpTo(f, s),
         \A i \in 2 .. Len(s) :
           Defined(r[i - 1]) /\ Defined(s[i]) => Defined(ReduceFunc(f, r[i - 1], s[i]))
  PROVE  Len(s) # 0 => Defined(r[Len(s)])
<1>1. PICK l \in Nat : l = Len(s)
  BY DEF IsSeq
<1>2. /\ l > 0 => r[1] = s[1]
      /\ \A i \in 2 .. l : r[i] = ReduceFunc(f, r[i - 1], s[i])
  BY <1>1, ReducedUnfold
<1> DEFINE T == {i \in 1 .. l : ~ Defined(r[i])}
<1>3. T = {}
  <2> SUFFICES ASSUME T # {} PROVE FALSE
    OBVIOUS
  <2>1. PICK k \in T : \A j \in T : k <= j
    <3>1. T \in SUBSET Nat
      OBVIOUS
    <3> HIDE DEF T
    <3> QED
      BY <3>1, Least
  <2>2. k \in 1 .. l /\ ~ Defined(r[k])
    OBVIOUS
  <2> HIDE DEF T
  <2>3. Defined(s[k])
    BY <1>1, <2>2 DEF AllDefined
  <2>4. k # 1
    BY <1>2, <2>2, <2>3
  <2>5. k \in 2 .. l /\ k - 1 \in 1 .. l /\ ~ (k <= k - 1)
    BY <2>2, <2>4
  <2>6. k - 1 \notin T
    BY <2>1, <2>5
  <2>7. Defined(r[k - 1])
    BY <2>5, <2>6 DEF T
  <2> QED
    BY <1>1, <1>2, <2>2, <2>3, <2>5, <2>7
<1>4. l # 0 => l \in 1 .. l
  OBVIOUS
<1> QED
  BY <1>1, <1>3, <1>4

LEMMA StreamsDefined ==
  ASSUME plan \in Plans, NEW n \in plan.nodes
  PROVE  AllDefined(StreamOf(n))
<1>1. PICK l \in Nat : plan.nodes = 1 .. l
  BY PlansAssumption DEF PlanOK
<1> DEFINE T == {i \in plan.nodes : ~ AllDefined(StreamOf(i))}
<1> SUFFICES ASSUME T # {} PROVE FALSE
  OBVIOUS
<1>2. PICK k \in T : \A j \in T : k <= j
  <2>1. T \in SUBSET Nat
    BY <1>1
  <2> HIDE DEF T
  <2> QED
    BY <2>1, Least
<1>3. k \in plan.nodes /\ ~ AllDefined(StreamOf(k))
  OBVIOUS
<1>4. ASSUME NEW j \in DOMAIN Ups(k) PROVE AllDefined(StreamOf(Ups(k)[j]))
  <2>1. Ups(k)[j] \in plan.nodes /\ Ups(k)[j] < k
    BY <1>3, <1>4, PlansAssumption DEF PlanOK, TreeOK, Ups
  <2>2. PICK u \in plan.nodes : u = Ups(k)[j] /\ u < k
    BY <2>1
  <2>3. ~ (k <= u)
    BY <1>1, <1>3, <2>2
  <2>4. u \notin T
    <3> HIDE DEF T
    <3> QED
      BY <1>2, <2>3
  <2> QED
    BY <2>2, <2>4
<1> HIDE DEF T
<1>5. PICK x, s, f : x = StreamOf(k) /\ s = StreamOf(Ups(k)[1]) /\ f = plan.func[k]
  OBVIOUS
<1>6. /\ Kind(k) \in Sources => x = plan.data[k]
      /\ Kind(k) = "filter" => x = MatchingUpTo(f, s)[Len(s)]
      /\ Kind(k) = "map" => /\ Len(x) = Len(s)
                            /\ \A i \in 1 .. Len(s) : x[i] = MapFunc(f, s[i])
      /\ Kind(k) = "reduce" =>
           /\ Len(s) = 0 => Len(x) = 0
           /\ Len(s) # 0 => Len(x) = 1 /\ x[1] = ReducedUpTo(f, s)[Len(s)]
      /\ Kind(k) = "zip" =>
           /\ \A j \in DOMAIN Ups(k) : Len(x) <= Len(StreamOf(Ups(k)[j]))
           /\ \A i \in 1 .. Len(x) : x[i] = [j \in DOMAIN Ups(k) |-> StreamOf(Ups(k)[j])[i]]
      /\ IsSeq(x) /\ \A j \in DOMAIN Ups(k) : IsSeq(StreamOf(Ups(k)[j]))
  BY <1>3, <1>5, StreamOfKind
<1>7. /\ Kind(k) \in Sources => \A i \in 1 .. Len(plan.data[k]) : Defined(plan.data[k][i])
      /\ Kind(k) = "map" => \A i \in 1 .. Len(s) : Defined(s[i]) => Defined(MapFunc(f, s[i]))
      /\ Kind(k) = "reduce" =>
           \A i \in 2 .. Len(s) :
             Defined(ReducedUpTo(f, s)[i - 1]) /\ Defined(s[i])
               => Defined(ReduceFunc(f, ReducedUpTo(f, s)[i - 1], s[i]))
      /\ Kind(k) = "zip" => \A i \in 1 .. Len(x) : x[i] # Undef
  BY <1>3, <1>5, DefinedAssumption DEF DefinedOp, Kind, StreamOf, Ups
<1>8. Kind(k) \in {"filter", "map", "reduce", "zip"} => IsSeq(s) /\ AllDefined(s)
  BY <1>3, <1>4, <1>5, <1>6, KindFacts
<1>9. AllDefined(x)
  <2>1. CASE Kind(k) \in Sources
    BY <1>6, <1>7, <2>1 DEF AllDefined
  <2>2. CASE Kind(k) = "filter"
    BY <1>6, <1>8, <2>2, MatchingDefined
  <2>3. CASE Kind(k) = "map"
    BY <1>6, <1>7, <1>8, <2>3 DEF AllDefined
  <2>4. CASE Kind(k) = "reduce"
    <3>1. PICK r : r = ReducedUpTo(f, s)
      OBVIOUS
    <3>2. IsSeq(s) /\ AllDefined(s)
      BY <1>8, <2>4
    <3>3. \A i \in 2 .. Len(s) :
            Defined(r[i - 1]) /\ Defined(s[i]) => Defined(ReduceFunc(f, r[i - 1], s[i]))
      BY <1>7, <2>4, <3>1
    <3>4. Len(s) # 0 => Defined(r[Len(s)])
      BY <3>1, <3>2, <3>3, ReducedDefined
    <3>5. CASE Len(s) = 0
      BY <1>6, <2>4, <3>5 DEF AllDefined
    <3>6. CASE Len(s) # 0
      <4>1. Len(x) = 1 /\ Defined(x[1])
        BY <1>6, <2>4, <3>1, <3>4, <3>6
      <4>2. \A i \in 1 .. 1 : i = 1
        OBVIOUS
      <4> QED
        BY <4>1, <4>2 DEF AllDefined
    <3> QED
      BY <3>5, <3>6
  <2>5. CASE Kind(k) = "zip"
    <3> SUFFICES ASSUME NEW i \in 1 .. Len(x) PROVE Defined(x[i])
      BY DEF AllDefined
    <3>1. x[i] # Undef /\ x[i] = [j \in DOMAIN Ups(k) |-> StreamOf(Ups(k)[j])[i]]
      BY <1>6, <1>7, <2>5
    <3>2. ASSUME NEW j \in DOMAIN Ups(k) PROVE x[i][j] # Undef
      <4>1. i \in 1 .. Len(StreamOf(Ups(k)[j]))
        <5>1. PICK a \in Nat, b \in Nat : a = Len(x) /\ b = Len(StreamOf(Ups(k)[j])) /\ a <= b
          BY <1>6, <2>5, <3>2 DEF IsSeq
        <5> QED
          BY <5>1
      <4>2. Defined(StreamOf(Ups(k)[j])[i])
        BY <1>4, <4>1 DEF AllDefined
      <4> QED
        BY <3>1, <4>2 DEF Defined
    <3>3. DOMAIN x[i] = DOMAIN Ups(k)
      BY <3>1
    <3> QED
      BY <3>1, <3>2, <3>3 DEF Defined
  <2>6. Kind(k) \in Kinds
    BY <1>3, PlansAssumption DEF PlanOK, Kind
  <2> QED
    BY <2>1, <2>2, <2>3, <2>4, <2>5, <2>6 DEF Kinds, Sources
<1> QED
  BY <1>3, <1>5, <1>9

(* The Open and the Close functions announce no element.                   *)
NoneAnnounced == ctl = "ret" /\ driver.pc # "next" => ~ ret.hasNext

LEMMA AnnouncedStep ==
  ASSUME TypeOK, CallsNest, NoneAnnounced, [Next]_vars
  PROVE  NoneAnnounced'
<1>1. ASSUME NEW s, NEW v, Return(s, FALSE, v)
      PROVE  NoneAnnounced'
  <2>1. (ret').hasNext = FALSE
    BY <1>1 DEF Return
  <2> QED
    BY <2>1 DEF NoneAnnounced
<1>2. ASSUME VisitUpstreams
      PROVE  NoneAnnounced'
  <2>1. CASE Return(Resumed.st, FALSE, Undef)
    BY <1>1, <2>1
  <2>2. CASE CallUpstream(Resumed, Resumed.up + 1)
    <3>1. ctl' = "call"
      BY <2>2 DEF CallUpstream
    <3> QED
      BY <3>1 DEF NoneAnnounced
  <2> QED
    BY <1>2, <2>1, <2>2 DEF VisitUpstreams
<1>3. ASSUME stack # << >>, Top.fn = "next", SourceStep \/ OperatorStep
      PROVE  NoneAnnounced'
  <2>1. driver' = driver
    <3>1. \/ \E f, k : CallUpstream(f, k)
          \/ \E s, hasNext, v : Return(s, hasNext, v)
      BY <1>3, CallForms
    <3> QED
      BY <3>1 DEF CallUpstream, Return
  <2>2. driver.pc = "next"
    BY <1>3, TopRuns
  <2> QED
    BY <2>1, <2>2 DEF NoneAnnounced
<1>4. CASE SourceStep
  <2>1. CASE ConstantStreamNext \/ TabularViewNext \/ ValueToStreamNext
    BY <1>3, <1>4, <2>1 DEF ConstantStreamNext, TabularViewNext, ValueToStreamNext, AtEntry, At
  <2>2. CASE \/ ConstantStreamOpen \/ ConstantStreamClose \/ TabularViewOpen
             \/ TabularViewClose \/ ValueToStreamOpen \/ ValueToStreamClose
    BY <1>1, <2>2 DEF ConstantStreamOpen, ConstantStreamClose, TabularViewOpen,
                      TabularViewClose, ValueToStreamOpen, ValueToStreamClose
  <2> QED
    BY <1>4, <2>1, <2>2 DEF SourceStep
<1>5. CASE OperatorStep
  <2>1. CASE FilterNext \/ MapNext \/ ReduceNext \/ ZipNext
    BY <1>3, <1>5, <2>1 DEF FilterNext, MapNext, ReduceNext, ZipNext, At
  <2>2. CASE ~ (FilterNext \/ MapNext \/ ReduceNext \/ ZipNext)
    <3>1. VisitUpstreams
      BY <1>5, <2>2 DEF OperatorStep, FilterOpen, FilterClose, MapOpen, MapClose,
                        ReduceOpen, ReduceClose, ZipOpen, ZipClose
    <3> QED
      BY <1>2, <3>1
  <2> QED
    BY <2>1, <2>2
<1>6. CASE StartStatement \/ SinkLoop \/ StreamToValue
  <2>1. ctl' # "ret"
    BY <1>6 DEF StartStatement, SinkLoop, StreamToValue, CallInput, EndStatement
  <2> QED
    BY <2>1 DEF NoneAnnounced
<1>7. CASE UNCHANGED vars
  BY <1>7 DEF vars, NoneAnnounced
<1>8. CASE Terminated
  BY <1>7, <1>8 DEF Terminated
<1> QED
  BY <1>4, <1>5, <1>6, <1>7, <1>8 DEF Next

(* The iterator that has returned to its caller is open.                   *)
LEMMA ReturnedOpen ==
  ASSUME TypeOK, CallsNest, ctl = "ret", driver.pc = "next"
  PROVE  plan \in Plans /\ Returned \in plan.nodes /\ phase[Returned] = "open"
<1>1. CASE stack = << >>
  BY <1>1, InputIsOpen DEF Returned
<1>2. CASE stack # << >>
  <2>1. PICK L \in 1 .. Len(stack) : L = Len(stack)
    <3>1. IsSeq(stack)
      BY DEF TypeOK, IsSeq
    <3> QED
      BY <1>2, <3>1, EmptyIffLen0 DEF IsSeq
  <2>2. PICK n \in plan.nodes : n = Top.node /\ n = stack[L].node /\ plan \in Plans /\ stack[L] = Top
    BY <1>2, <2>1, TopFacts DEF Top
  <2>3. Top.up \in DOMAIN Ups(n)
    <3>1. Top.up > 0
      BY <1>2 DEF CallsNest, Nesting
    <3> QED
      BY <1>2, <2>2, <3>1, TopFacts
  <2>4. PICK k \in DOMAIN Ups(n) : k = Top.up /\ Returned = Ups(n)[k]
    BY <1>2, <2>1, <2>2, <2>3 DEF Returned, Called
  <2>5. Ups(n)[k] \in plan.nodes /\ Ups(n)[k] \in Below(Ups(n)[k])
    BY <2>2, <2>4, BelowFacts
  <2>6. FrameVisited(L) /\ Top.fn = "next"
    BY <1>2, TopRuns DEF CallsNest, Visited
  <2>7. After("next", Ups(n)[k])
    BY <2>1, <2>2, <2>4, <2>5, <2>6 DEF FrameVisited
  <2> QED
    BY <2>2, <2>4, <2>5, <2>7 DEF After
<1> QED
  BY <1>1, <1>2

(* What an announced element is: the element of a stream that the iterator *)
(* that returned it stands for.                                            *)
LEMMA AnnouncedDefined ==
  ASSUME TypeOK, CallsNest, MeansInv, NoneAnnounced
  PROVE  NoUndefElement
<1> SUFFICES ASSUME ctl = "ret", ret.hasNext PROVE Defined(ret.element)
  BY DEF NoUndefElement, Defined
<1>1. driver.pc = "next"
  BY DEF NoneAnnounced
<1>2. got[Returned] > 0 /\ ret.element = StreamOf(Returned)[got[Returned]]
  BY <1>1 DEF MeansInv, MeansNext
<1>3. plan \in Plans /\ Returned \in plan.nodes /\ phase[Returned] = "open"
  BY <1>1, ReturnedOpen
<1>4. Counted(Returned, got, ended) /\ got[Returned] \in Nat
  BY <1>1, <1>3 DEF MeansInv, MeansNext, TypeOK
<1>5. PICK g \in Nat, l \in Nat : g = got[Returned] /\ l = Len(StreamOf(Returned)) /\ g <= l
  <2>1. IsSeq(StreamOf(Returned))
    BY <1>3, StreamOfKind
  <2> QED
    BY <1>4, <2>1 DEF Counted, IsSeq
<1>6. g \in 1 .. l
  BY <1>2, <1>5
<1>7. AllDefined(StreamOf(Returned))
  BY <1>3, StreamsDefined
<1> QED
  BY <1>2, <1>5, <1>6, <1>7 DEF AllDefined

(* An element that a Next function announces is defined, and so is each of *)
(* its components, whatever the plan: no user function and no print ever   *)
(* gets an undef value, though the code returns undef with every end.      *)
THEOREM NoUndefElementAlways == Spec => []NoUndefElement
<1>1. Init => NoneAnnounced
  BY DEF Init, NoneAnnounced
<1>2. TypeOK /\ CallsNest /\ NoneAnnounced /\ [Next]_vars => NoneAnnounced'
  BY AnnouncedStep
<1>3. TypeOK /\ CallsNest /\ MeansInv /\ NoneAnnounced => NoUndefElement
  BY AnnouncedDefined
<1> QED
  BY <1>1, <1>2, <1>3, MeansAlways, PTL DEF Spec

=============================================================================
