--------------------------- MODULE IndexingProofs ---------------------------
(***************************************************************************)
(* Proofs about the Python frontend of the Indexing dialect, for every     *)
(* function body.                                                          *)
(*                                                                         *)
(* AliasInv is inductive: an object wraps one value and stands for one     *)
(* array, and an array that was never written to is in one object.  So a   *)
(* write to it reaches all its variables, each then in an object of its    *)
(* own, which is why a second write may miss some.                         *)
(***************************************************************************)
EXTENDS IndexingProperties, TLAPS, FiniteSetTheorems, NaturalsInduction,
        WellFoundedInduction, SequenceTheorems

Arrays == 1 .. Cardinality(Names) + MaxStatements

AliasTypes ==
  /\ steps \in 0 .. MaxStatements /\ objects \in Nat
  /\ array \in [Names -> 1 .. Cardinality(Names) + steps]
  /\ writes \in [Arrays -> Nat]
  /\ DOMAIN frame = Names /\ \A n \in Names : frame[n].obj \in 1 .. objects

\* An array that is still to be made was not written to.
Unwritten == \A a \in Arrays : a > Cardinality(Names) + steps => writes[a] = 0
ObjectWrapsOne ==
  \A m, n \in Names : frame[m].obj = frame[n].obj => frame[m].v = frame[n].v /\ array[m] = array[n]
UnwrittenInOne ==
  \A m, n \in Names : array[m] = array[n] /\ writes[array[m]] = 0 => frame[m].obj = frame[n].obj

AliasInv == AliasTypes /\ Unwritten /\ ObjectWrapsOne /\ UnwrittenInOne /\ AliasesAgree

(* The variables are finitely many.                                        *)
LEMMA NamesCount == Cardinality(Names) \in Nat /\ MaxStatements \in Nat
  BY BoundAssumption, FS_CardinalityType

(* What SetToSeq makes of the names of one object tells them apart.        *)
LEMMA OrderIs ==
  ASSUME NEW S \in SUBSET Names
  PROVE  /\ Cardinality(S) \in Nat
         /\ \E order : /\ order = SetToSeq(S) /\ DOMAIN order = 1 .. Cardinality(S)
                       /\ \A n \in S : \E i \in DOMAIN order : order[i] = n
<1>1. IsFiniteSet(S) /\ Cardinality(S) \in Nat
  BY BoundAssumption, FS_Subset, FS_CardinalityType
<1>2. \E f \in [1 .. Cardinality(S) -> S] : IsInjective(f)
  <2>1. ExistsBijection(1 .. Cardinality(S), S)
    BY <1>1, FS_CountingElements, FS_NatBijection
  <2> QED
    BY <2>1 DEF ExistsBijection, Bijection, Injection, Surjection, IsInjective
<1>3. SetToSeq(S) \in [1 .. Cardinality(S) -> S] /\ IsInjective(SetToSeq(S))
  BY <1>2 DEF SetToSeq
<1>4. SetToSeq(S) \in Surjection(1 .. Cardinality(S), S)
  <2>1. IsFiniteSet(1 .. Cardinality(S)) /\ Cardinality(1 .. Cardinality(S)) = Cardinality(S)
    BY <1>1, FS_Interval
  <2>2. SetToSeq(S) \in Injection(1 .. Cardinality(S), S)
    BY <1>3 DEF Injection
  <2> QED
    BY <1>1, <2>1, <2>2, FS_Injection
<1> QED
  BY <1>1, <1>3, <1>4 DEF Surjection

(* A step that changes frame, array and writes in one of the three ways    *)
(* below keeps AliasInv.                                                   *)
Stays == steps' \in steps .. MaxStatements /\ steps < MaxStatements

LEMMA ExecutedStays ==
  ASSUME AliasTypes, steps < MaxStatements, NEW v, Executed(v)
  PROVE  Stays /\ (v # Raised => steps' = steps + 1)
  BY NamesCount DEF AliasTypes, Executed, Stays

(* Nothing is assigned.                                                    *)
LEMMA NothingAssigned ==
  ASSUME AliasInv, Stays, UNCHANGED <<frame, objects, array>>,
         \/ UNCHANGED writes
         \/ \E x \in Names : writes' = [writes EXCEPT ![array[x]] = @ + 1]
  PROVE  AliasInv'
<1>1. \A n \in Names : array[n] \in Arrays
  BY NamesCount DEF AliasInv, AliasTypes, Arrays
<1>2. writes' \in [Arrays -> Nat] /\ \A a \in Arrays : writes'[a] >= writes[a]
  BY <1>1, NamesCount DEF AliasInv, AliasTypes
<1>3. AliasTypes'
  BY <1>2, NamesCount DEF AliasInv, AliasTypes, Stays, Arrays
<1>4. Unwritten'
  BY <1>1, NamesCount DEF AliasInv, AliasTypes, Unwritten, Stays, Arrays
<1>5. ObjectWrapsOne'
  BY DEF AliasInv, ObjectWrapsOne
<1>6. UnwrittenInOne' /\ AliasesAgree'
  BY <1>1, <1>2 DEF AliasInv, AliasTypes, UnwrittenInOne, AliasesAgree
<1> QED
  BY <1>3, <1>4, <1>5, <1>6 DEF AliasInv

(* y is given a new object with a new array.                               *)
LEMMA NewAssigned ==
  ASSUME AliasInv, NEW y \in Names, NEW v, steps < MaxStatements, steps' = steps + 1,
         frame' = [frame EXCEPT ![y] = [obj |-> objects + 1, v |-> v]],
         objects' = objects + 1,
         array' = [array EXCEPT ![y] = Cardinality(Names) + steps + 1],
         UNCHANGED writes
  PROVE  AliasInv'
<1>1. PICK a : a = Cardinality(Names) + steps + 1 /\ a \in Arrays /\ writes[a] = 0
  BY NamesCount DEF AliasInv, AliasTypes, Unwritten, Arrays
<1>2. \A n \in Names :
        /\ n = y => frame'[n].obj = objects + 1 /\ array'[n] = a
        /\ n # y => /\ frame'[n] = frame[n] /\ array'[n] = array[n]
                    /\ array[n] # a /\ frame[n].obj # objects + 1
  BY <1>1, NamesCount DEF AliasInv, AliasTypes
<1>3. AliasTypes'
  BY <1>1, <1>2, NamesCount DEF AliasInv, AliasTypes, Arrays
<1>4. Unwritten'
  BY NamesCount DEF AliasInv, AliasTypes, Unwritten, Arrays
<1>5. ASSUME NEW m \in Names, NEW n \in Names
      PROVE  /\ frame'[m].obj = frame'[n].obj => frame'[m].v = frame'[n].v /\ array'[m] = array'[n]
             /\ array'[m] = array'[n] => frame'[m] = frame'[n] \/ (m # y /\ n # y)
  <2>1. CASE m = n
    BY <2>1
  <2>2. CASE (m = y /\ n # y) \/ (n = y /\ m # y)
    <3>1. frame'[m].obj # frame'[n].obj
      BY <1>2, <2>2
    <3>2. array'[m] # array'[n]
      BY <1>2, <2>2
    <3> QED
      BY <3>1, <3>2
  <2>3. CASE m # y /\ n # y
    BY <1>2, <2>3 DEF AliasInv, ObjectWrapsOne
  <2> QED
    BY <2>1, <2>2, <2>3
<1>6. ObjectWrapsOne'
  BY <1>5 DEF ObjectWrapsOne
<1>7. UnwrittenInOne' /\ AliasesAgree'
  BY <1>2, <1>5 DEF AliasInv, UnwrittenInOne, AliasesAgree
<1> QED
  BY <1>3, <1>4, <1>6, <1>7 DEF AliasInv

(* y is given the object and the array of x.                               *)
LEMMA SameAssigned ==
  ASSUME AliasInv, NEW x \in Names, NEW y \in Names, Stays,
         frame' = [frame EXCEPT ![y] = frame[x]], array' = [array EXCEPT ![y] = array[x]],
         UNCHANGED <<objects, writes>>
  PROVE  AliasInv'
<1>1. PICK src \in [Names -> Names] : src = [n \in Names |-> IF n = y THEN x ELSE n]
  OBVIOUS
<1>2. \A n \in Names : frame'[n] = frame[src[n]] /\ array'[n] = array[src[n]]
  BY <1>1 DEF AliasInv, AliasTypes
<1>3. AliasTypes'
  BY <1>2, NamesCount DEF AliasInv, AliasTypes, Stays, Arrays
<1>4. Unwritten'
  BY NamesCount DEF AliasInv, AliasTypes, Unwritten, Stays, Arrays
<1>5. ObjectWrapsOne'
  BY <1>2 DEF AliasInv, ObjectWrapsOne
<1>6. UnwrittenInOne' /\ AliasesAgree'
  BY <1>2 DEF AliasInv, UnwrittenInOne, AliasesAgree
<1> QED
  BY <1>3, <1>4, <1>5, <1>6 DEF AliasInv

(* x is written to, in every variable that holds its object.               *)
LEMMA WriteUpdates ==
  ASSUME AliasInv, NEW x \in Names, NEW v, Stays, update_caller_vars(x, v),
         writes' = [writes EXCEPT ![array[x]] = @ + 1], UNCHANGED array
  PROVE  AliasInv'
<1>1. PICK same \in SUBSET Names : same = {n \in Names : frame[n].obj = frame[x].obj}
  OBVIOUS
<1>2. PICK order : /\ order = SetToSeq(same) /\ DOMAIN order = 1 .. Cardinality(same)
                   /\ \A n \in same : \E i \in DOMAIN order : order[i] = n
  BY OrderIs
<1>3. PICK at : at = [n \in same |-> CHOOSE i \in DOMAIN order : order[i] = n]
  OBVIOUS
<1>4. \A n \in same : at[n] \in 1 .. Cardinality(same) /\ order[at[n]] = n
  BY <1>2, <1>3
<1>5. /\ frame' = [n \in Names |-> IF n \in same THEN [obj |-> objects + at[n], v |-> v] ELSE frame[n]]
      /\ objects' = objects + Cardinality(same) /\ Cardinality(same) \in Nat
  <2>1. Cardinality(same) \in Nat
    BY <1>1, OrderIs
  <2> QED
    BY <1>1, <1>2, <1>3, <2>1 DEF update_caller_vars
<1>6. \A n \in Names :
        /\ n \in same => frame'[n].obj = objects + at[n] /\ frame'[n].v = v
        /\ n \notin same => frame'[n] = frame[n]
  BY <1>5
<1>7. \A m, n \in same : at[m] = at[n] => m = n
  BY <1>4
<1>8. \A n \in Names : array[n] \in Arrays
  BY NamesCount DEF AliasInv, AliasTypes, Arrays
<1>9. /\ writes' \in [Arrays -> Nat]
      /\ \A a \in Arrays : writes'[a] = IF a = array[x] THEN writes[a] + 1 ELSE writes[a]
  BY <1>8 DEF AliasInv, AliasTypes
<1>10. AliasTypes'
  <2>1. ASSUME NEW n \in Names PROVE frame'[n].obj \in 1 .. objects'
    <3>1. CASE n \in same
      BY <1>4, <1>5, <1>6, <3>1 DEF AliasInv, AliasTypes
    <3>2. CASE n \notin same
      BY <1>5, <1>6, <3>2 DEF AliasInv, AliasTypes
    <3> QED
      BY <3>1, <3>2
  <2> QED
    BY <1>5, <1>9, <2>1, NamesCount DEF AliasInv, AliasTypes, Stays, Arrays
<1>11. Unwritten'
  BY <1>8, <1>9, NamesCount DEF AliasInv, AliasTypes, Unwritten, Stays, Arrays
<1>12. \A n \in Names : n \in same => array[n] = array[x]
  BY <1>1 DEF AliasInv, ObjectWrapsOne
<1>13. ObjectWrapsOne'
  <2> SUFFICES ASSUME NEW m \in Names, NEW n \in Names, frame'[m].obj = frame'[n].obj
               PROVE  frame'[m].v = frame'[n].v /\ array[m] = array[n]
    BY DEF ObjectWrapsOne
  <2>1. (m \in same <=> n \in same)
    BY <1>4, <1>6 DEF AliasInv, AliasTypes
  <2> QED
    BY <1>6, <1>12, <2>1 DEF AliasInv, ObjectWrapsOne
<1>14. writes[array[x]] = 0 => \A n \in Names : array[n] = array[x] => n \in same
  BY <1>1 DEF AliasInv, UnwrittenInOne
<1>15. UnwrittenInOne'
  <2> SUFFICES ASSUME NEW m \in Names, NEW n \in Names, array[m] = array[n], writes'[array[m]] = 0
               PROVE  frame'[m].obj = frame'[n].obj
    BY DEF UnwrittenInOne
  <2>1. array[m] # array[x] /\ writes[array[m]] = 0
    BY <1>8, <1>9 DEF AliasInv, AliasTypes
  <2> QED
    BY <1>6, <1>12, <2>1 DEF AliasInv, UnwrittenInOne
<1>16. AliasesAgree'
  <2> SUFFICES ASSUME NEW m \in Names, NEW n \in Names, array[m] = array[n], writes'[array[m]] <= 1
               PROVE  frame'[m].v = frame'[n].v
    BY DEF AliasesAgree
  <2>1. CASE array[m] = array[x]
    <3>1. writes[array[x]] = 0
      BY <1>8, <1>9, <2>1 DEF AliasInv, AliasTypes
    <3>2. m \in same /\ n \in same
      BY <1>14, <2>1, <3>1
    <3> QED
      BY <1>6, <3>2
  <2>2. CASE array[m] # array[x]
    BY <1>6, <1>8, <1>9, <1>12, <2>2 DEF AliasInv, AliasesAgree
  <2> QED
    BY <2>1, <2>2
<1> QED
  BY <1>10, <1>11, <1>13, <1>15, <1>16 DEF AliasInv

LEMMA AssignedKeeps ==
  ASSUME AliasInv, NEW y \in Names, NEW v, steps < MaxStatements, Assigned(y, v), Executed(v),
         UNCHANGED writes
  PROVE  AliasInv'
<1>1. Stays /\ (v # Raised => steps' = steps + 1)
  BY ExecutedStays DEF AliasInv
<1>2. CASE v = Raised
  BY <1>1, <1>2, NothingAssigned DEF Assigned
<1>3. CASE v # Raised
  BY <1>1, <1>3, NewAssigned DEF Assigned
<1> QED
  BY <1>2, <1>3

LEMMA AliasStep ==
  ASSUME AliasInv, Next
  PROVE  AliasInv'
<1>1. PICK x \in Names, y \in Targets :
        \/ \E idx \in Reads[steps + 1] : Get(y, x, idx)
        \/ \E idx \in Writes[steps + 1], z \in Names : Set(x, idx, z)
        \/ \E op \in {"add", "sub", "mul"}, z \in Operands \cup {frame[m].v : m \in Names} :
             Compute(y, x, op, z)
        \/ \E r \in Ranges[steps + 1] : Range_(y, r)
        \/ Alias(y, x)
  BY DEF Next
<1>2. y \in Names /\ steps < MaxStatements
  BY BoundAssumption DEF Next
<1>3. ASSUME NEW idx, Get(y, x, idx) PROVE AliasInv'
  <2>1. PICK r :
          /\ IF Whole(idx)
             THEN /\ frame' = [frame EXCEPT ![y] = frame[x]] /\ array' = [array EXCEPT ![y] = array[x]]
                  /\ UNCHANGED objects
             ELSE Assigned(y, r.v)
          /\ Executed(r.v)
    BY <1>3, Zenon DEF Get
  <2>2. UNCHANGED writes
    BY <1>3 DEF Get
  <2>3. CASE Whole(idx)
    <3>1. Stays
      <4>1. AliasTypes
        BY DEF AliasInv
      <4>2. Executed(r.v)
        BY <2>1
      <4> QED
        BY <1>2, <4>1, <4>2, ExecutedStays, Zenon
    <3> QED
      BY <1>2, <2>1, <2>2, <2>3, <3>1, SameAssigned
  <2>4. CASE ~Whole(idx)
    BY <1>2, <2>1, <2>2, <2>4, AssignedKeeps
  <2> QED
    BY <2>3, <2>4
<1>4. ASSUME NEW idx, NEW z, Set(x, idx, z) PROVE AliasInv'
  <2>1. PICK r :
          /\ IF r.v = Raised \/ Whole(idx)
             THEN UNCHANGED <<frame, objects>>
             ELSE update_caller_vars(x, r.v)
          /\ writes' = [writes EXCEPT ![array[x]] = @ + 1]
          /\ Executed(r.v)
    BY <1>4, Zenon DEF Set
  <2>2. UNCHANGED array /\ Stays
    BY <1>2, <1>4, <2>1, ExecutedStays DEF Set, AliasInv
  <2>3. CASE r.v = Raised \/ Whole(idx)
    <3>1. UNCHANGED <<frame, objects>> /\ array' = array /\ writes' = [writes EXCEPT ![array[x]] = @ + 1]
      BY <2>1, <2>2, <2>3
    <3> QED
      BY <2>2, <3>1, NothingAssigned
  <2>4. CASE ~(r.v = Raised \/ Whole(idx))
    <3>1. update_caller_vars(x, r.v) /\ writes' = [writes EXCEPT ![array[x]] = @ + 1]
      BY <2>1, <2>4
    <3> QED
      BY <2>2, <3>1, WriteUpdates
  <2> QED
    BY <2>3, <2>4
<1>5. ASSUME NEW op, NEW z, Compute(y, x, op, z) PROVE AliasInv'
  <2>1. PICK v : Assigned(y, v) /\ Executed(v)
    BY <1>5, Zenon DEF Compute
  <2> QED
    BY <1>2, <1>5, <2>1, AssignedKeeps DEF Compute
<1>6. ASSUME NEW r, Range_(y, r) PROVE AliasInv'
  <2>1. PICK v : Assigned(y, v) /\ Executed(v)
    BY <1>6, Zenon DEF Range_
  <2> QED
    BY <1>2, <1>6, <2>1, AssignedKeeps DEF Range_
<1>7. ASSUME Alias(y, x) PROVE AliasInv'
  <2>1. Stays
    BY <1>2, <1>7, NamesCount DEF Alias, AliasInv, AliasTypes, Stays
  <2> QED
    BY <1>2, <1>7, <2>1, SameAssigned DEF Alias
<1> QED
  BY <1>1, <1>3, <1>4, <1>5, <1>6, <1>7, Zenon

LEMMA AliasInvAlways == Spec => []AliasInv
<1>1. Init => AliasInv
  <2> SUFFICES ASSUME Init PROVE AliasInv
    OBVIOUS
  <2>1. PICK f \in Frames : /\ frame = [n \in Names |-> [obj |-> f[n].obj, v |-> f[n].v]]
                            /\ array = [n \in Names |-> f[n].obj]
    BY DEF Init
  <2>2. \A n \in Names : frame[n].obj = f[n].obj /\ frame[n].v = f[n].v /\ array[n] = f[n].obj
    BY <2>1
  <2>3. \A m, n \in Names : f[n].obj \in 1 .. Cardinality(Names) /\ (f[m].obj = f[n].obj => f[m].v = f[n].v)
    BY FramesAssumption
  <2>4. AliasTypes
    <3>1. array \in [Names -> 1 .. Cardinality(Names) + steps] /\ steps = 0
      BY <2>1, <2>3, NamesCount DEF Init
    <3>2. writes \in [Arrays -> Nat]
      BY DEF Init, Arrays
    <3>3. DOMAIN frame = Names /\ objects = Cardinality(Names)
      BY <2>1 DEF Init
    <3> QED
      BY <2>2, <2>3, <3>1, <3>2, <3>3, NamesCount DEF AliasTypes
  <2>5. Unwritten
    BY DEF Init, Unwritten, Arrays
  <2>6. ObjectWrapsOne /\ UnwrittenInOne /\ AliasesAgree
    BY <2>2, <2>3 DEF ObjectWrapsOne, UnwrittenInOne, AliasesAgree
  <2> QED
    BY <2>4, <2>5, <2>6 DEF AliasInv
<1>2. AliasInv /\ [Next]_vars => AliasInv'
  <2>1. ASSUME AliasInv, UNCHANGED vars PROVE AliasInv'
    BY <2>1 DEF vars, AliasInv, AliasTypes, Unwritten, ObjectWrapsOne, UnwrittenInOne, AliasesAgree
  <2> QED
    BY <2>1, AliasStep
<1> QED
  BY <1>1, <1>2, PTL DEF Spec

(* Variables that stand for one array hold one value until the array is    *)
(* written to a second time: _update_caller_vars finds every variable that *)
(* holds the object of a first x[idx] = z.                                 *)
THEOREM AliasesAlways == Spec => []AliasesAgree
<1>1. AliasInv => AliasesAgree
  BY DEF AliasInv
<1> QED
  BY <1>1, AliasInvAlways, PTL

-----------------------------------------------------------------------------
(* Sequences, and what the recursive definitions of the model compute.     *)

IsSeq(s) == Len(s) \in Nat /\ s = [i \in 1 .. Len(s) |-> s[i]]
IsConcat(z, s, t) ==
  /\ IsSeq(z) /\ Len(z) = Len(s) + Len(t)
  /\ \A i \in 1 .. Len(s) : z[i] = s[i]
  /\ \A i \in 1 .. Len(t) : z[Len(s) + i] = t[i]
IsPart(z, s, a, b) ==
  /\ IsSeq(z) /\ Len(z) = b - a + 1
  /\ \A i \in 1 .. b - a + 1 : z[i] = s[a + i - 1]

LEMMA SeqOverRange ==
  ASSUME NEW s, IsSeq(s), NEW S, \A i \in 1 .. Len(s) : s[i] \in S
  PROVE  s \in Seq(S)
<1>1. s \in [1 .. Len(s) -> S]
  BY DEF IsSeq
<1> QED
  BY <1>1 DEF IsSeq

LEMMA SeqIsSeq ==
  ASSUME NEW S, NEW s \in Seq(S)
  PROVE  IsSeq(s)
<1>1. s \in [1 .. Len(s) -> S] /\ Len(s) \in Nat
  OBVIOUS
<1> QED
  BY <1>1 DEF IsSeq

LEMMA FunIsSeq ==
  ASSUME NEW n \in Nat, NEW s, s = [i \in 1 .. n |-> s[i]]
  PROVE  IsSeq(s) /\ Len(s) = n
<1>1. PICK S : S = {s[i] : i \in 1 .. n}
  OBVIOUS
<1>2. s \in [1 .. n -> S]
  BY <1>1
<1>3. s \in Seq(S) /\ Len(s) = n
  BY <1>2
<1> QED
  BY <1>3, SeqIsSeq

LEMMA EmptyIsSeq == IsSeq(<< >>) /\ Len(<< >>) = 0
  BY DEF IsSeq

LEMMA OneIsSeq ==
  ASSUME NEW x
  PROVE  IsSeq(<<x>>) /\ Len(<<x>>) = 1 /\ <<x>>[1] = x
<1>1. <<x>> \in Seq({x}) /\ Len(<<x>>) = 1 /\ <<x>>[1] = x
  OBVIOUS
<1> QED
  BY <1>1, SeqIsSeq

LEMMA EmptyIffLen0 ==
  ASSUME NEW s, IsSeq(s)
  PROVE  s = << >> <=> Len(s) = 0
<1>1. PICK S : S = {s[i] : i \in 1 .. Len(s)}
  OBVIOUS
<1>2. s \in Seq(S)
  BY <1>1, SeqOverRange
<1> QED
  BY <1>2

LEMMA ConcatFacts ==
  ASSUME NEW s, NEW t, IsSeq(s), IsSeq(t), NEW z, z = s \o t
  PROVE  IsConcat(z, s, t)
<1>1. PICK S : S = {s[i] : i \in 1 .. Len(s)} \cup {t[i] : i \in 1 .. Len(t)}
  OBVIOUS
<1>2. s \in Seq(S) /\ t \in Seq(S)
  BY <1>1, SeqOverRange
<1>3. z \in Seq(S) /\ Len(z) = Len(s) + Len(t)
  BY <1>2
<1>4. \A i \in 1 .. Len(s) : z[i] = s[i]
  BY <1>2
<1>5. \A i \in 1 .. Len(t) : z[Len(s) + i] = t[i]
  BY <1>2
<1>6. IsSeq(z)
  BY <1>3, SeqIsSeq
<1> QED
  BY <1>3, <1>4, <1>5, <1>6 DEF IsConcat

LEMMA PartFacts ==
  ASSUME NEW s, IsSeq(s), NEW a \in Nat, NEW b \in Nat, 1 <= a, a <= b + 1, b <= Len(s),
         NEW z, z = SubSeq(s, a, b)
  PROVE  IsPart(z, s, a, b)
<1>1. PICK S : S = {s[i] : i \in 1 .. Len(s)}
  OBVIOUS
<1>2. \A i \in a .. b : s[i] \in S
  BY <1>1 DEF IsSeq
<1>3. /\ SubSeq(s, a, b) \in Seq(S)
      /\ Len(SubSeq(s, a, b)) = IF a <= b THEN b - a + 1 ELSE 0
      /\ \A i \in 1 .. b - a + 1 : SubSeq(s, a, b)[i] = s[a + i - 1]
  BY ONLY <1>2, SubSeqProperties, a \in Int, b \in Int
<1>4. z \in Seq(S) /\ Len(z) = b - a + 1
  BY <1>3
<1>5. IsSeq(z)
  BY <1>4, SeqIsSeq
<1> QED
  BY <1>3, <1>4, <1>5 DEF IsPart

LEMMA AppendFacts ==
  ASSUME NEW s, IsSeq(s), NEW x, NEW z, z = Append(s, x)
  PROVE  IsConcat(z, s, <<x>>)
<1>1. PICK S : S = {s[i] : i \in 1 .. Len(s)} \cup {x}
  OBVIOUS
<1>2. s \in Seq(S) /\ x \in S
  BY <1>1, SeqOverRange
<1>3. z \in Seq(S) /\ Len(z) = Len(s) + 1 /\ (\A i \in 1 .. Len(s) : z[i] = s[i]) /\ z[Len(s) + 1] = x
  BY <1>2
<1>4. IsSeq(z)
  BY <1>3, SeqIsSeq
<1> QED
  BY <1>3, <1>4, OneIsSeq DEF IsConcat

(* A set of numbers that is not empty has a least element.                 *)
LEMMA Least ==
  ASSUME NEW T \in SUBSET Nat, T # {}
  PROVE  \E x \in T : \A y \in T : x <= y
<1> DEFINE R == {ss \in Nat \X Nat : ss[1] < ss[2]}
<1>1. IsWellFoundedOn(R, Nat)
  BY NatLessThanWellFounded DEF OpToRel
<1>2. PICK x \in T : \A y \in T : ~ (<<y, x>> \in R)
  <2> HIDE DEF R
  <2> QED
    BY <1>1, WFMin
<1>3. \A y \in T : ~ (y < x)
  BY <1>2
<1> QED
  BY <1>3

LEMMA EmptyConcat ==
  ASSUME NEW s, IsSeq(s)
  PROVE  << >> \o s = s
<1>1. PICK S : S = {s[i] : i \in 1 .. Len(s)}
  OBVIOUS
<1>2. s \in Seq(S)
  BY <1>1, SeqOverRange
<1> QED
  BY <1>2

(* FlattenSeq, one sequence after the other.                               *)
IsFlat(z, seqs) ==
  \E f : /\ DOMAIN f = 0 .. Len(seqs) /\ f[0] = << >> /\ z = f[Len(seqs)]
         /\ \A i \in 1 .. Len(seqs) : f[i] = f[i - 1] \o seqs[i]

LEMMA FlattenIs ==
  ASSUME NEW seqs, IsSeq(seqs), \A i \in 1 .. Len(seqs) : IsSeq(seqs[i])
  PROVE  IsFlat(FlattenSeq(seqs), seqs)
<1>0. CASE Len(seqs) = 0
  <2>1. seqs = << >> /\ FlattenSeq(seqs) = << >>
    BY <1>0, EmptyIffLen0 DEF FlattenSeq
  <2>2. PICK f : f = [i \in 0 .. 0 |-> << >>]
    OBVIOUS
  <2>3. DOMAIN f = 0 .. Len(seqs) /\ f[0] = << >> /\ \A i \in 1 .. Len(seqs) : f[i] = f[i - 1] \o seqs[i]
    BY <1>0, <2>2
  <2> QED
    BY <1>0, <2>1, <2>3 DEF IsFlat
<1> SUFFICES ASSUME Len(seqs) # 0 PROVE IsFlat(FlattenSeq(seqs), seqs)
  BY <1>0
<1>a. PICK l \in Nat : l = Len(seqs) /\ l >= 1
  BY DEF IsSeq
<1> DEFINE Body(g, i) == IF i = 1 THEN seqs[1] ELSE g[i - 1] \o seqs[i]
           Is(g, k) == g = [i \in 1 .. k |-> Body(g, i)]
           T == {k \in 1 .. l : ~ \E g : Is(g, k)}
<1>1. T = {}
  <2> SUFFICES ASSUME T # {} PROVE FALSE
    OBVIOUS
  <2>1. PICK k \in T : \A j \in T : k <= j
    <3>1. T \in SUBSET Nat
      <4> HIDE DEF Is
      <4> QED
        BY <1>a
    <3> HIDE DEF T
    <3> QED
      BY <3>1, Least
  <2>2. k \in 1 .. l /\ ~ \E g : Is(g, k)
    OBVIOUS
  <2>3. CASE k = 1
    <3>1. PICK g : g = [i \in 1 .. 1 |-> seqs[1]]
      OBVIOUS
    <3>2. g = [i \in 1 .. 1 |-> Body(g, i)]
      BY <3>1
    <3> QED
      BY <2>2, <2>3, <3>2
  <2>4. CASE k # 1
    <3>1. k - 1 \in 1 .. l /\ ~ (k <= k - 1)
      BY <2>2, <2>4, <1>a
    <3>2. k - 1 \notin T
      BY <2>1, <3>1
    <3>3. PICK g : Is(g, k - 1)
      BY <3>1, <3>2
    <3>4. PICK h : h = [i \in 1 .. k |-> IF i < k THEN g[i] ELSE Body(g, k)]
      OBVIOUS
    <3>5. \A i \in 1 .. k - 1 : h[i] = g[i] /\ g[i] = Body(g, i)
      <4> HIDE DEF Body
      <4>1. \A i \in 1 .. k - 1 : g[i] = Body(g, i)
        BY <3>3
      <4>2. \A i \in 1 .. k - 1 : i \in 1 .. k /\ i < k
        BY <2>2
      <4>3. \A i \in 1 .. k - 1 : h[i] = g[i]
        BY <3>4, <4>2
      <4> QED
        BY <4>1, <4>3
    <3>6. \A i \in 1 .. k : h[i] = Body(h, i)
      <4> SUFFICES ASSUME NEW i \in 1 .. k PROVE h[i] = Body(h, i)
        OBVIOUS
      <4>1. i = 1 \/ h[i - 1] = g[i - 1]
        BY <2>2, <3>5
      <4>2. Body(h, i) = Body(g, i)
        BY <4>1
      <4>3. CASE i < k
        BY <2>2, <3>5, <4>2, <4>3
      <4>4. CASE i = k
        BY <2>2, <3>4, <4>2, <4>4
      <4> QED
        BY <2>2, <4>3, <4>4
    <3>7. Is(h, k)
      BY <3>4, <3>6
    <3> QED
      BY <2>2, <3>7
  <2> QED
    BY <2>3, <2>4
<1>2. \E g : Is(g, l)
  <2> HIDE DEF Is
  <2> QED
    BY <1>1, <1>a
<1>3. FlattenSeq(seqs) = (CHOOSE g : Is(g, l))[l]
  <2>1. FlattenSeq(seqs) = (CHOOSE g : g = [i \in 1 .. l |-> IF i = 1 THEN seqs[i] ELSE g[i - 1] \o seqs[i]])[l]
    BY <1>a DEF FlattenSeq
  <2>2. ASSUME NEW g
        PROVE  [i \in 1 .. l |-> IF i = 1 THEN seqs[i] ELSE g[i - 1] \o seqs[i]] = [i \in 1 .. l |-> Body(g, i)]
    OBVIOUS
  <2> QED
    BY <2>1, <2>2
<1>4. PICK m : Is(m, l) /\ FlattenSeq(seqs) = m[l]
  <2> HIDE DEF Is
  <2> QED
    BY <1>2, <1>3
<1>5. m[1] = seqs[1] /\ \A i \in 2 .. l : m[i] = m[i - 1] \o seqs[i]
  <2>1. DOMAIN m = 1 .. l /\ \A i \in 1 .. l : m[i] = Body(m, i)
    <3>1. m = [i \in 1 .. l |-> Body(m, i)]
      BY <1>4
    <3> HIDE DEF Body
    <3> QED
      BY <3>1
  <2>2. m[1] = Body(m, 1)
    <3>1. 1 \in 1 .. l
      BY <1>a
    <3> HIDE DEF Body
    <3> QED
      BY <2>1, <3>1
  <2>3. \A i \in 2 .. l : i \in 1 .. l /\ i # 1
    OBVIOUS
  <2>4. ASSUME NEW i \in 2 .. l PROVE m[i] = m[i - 1] \o seqs[i]
    BY <2>1, <2>3
  <2> QED
    BY <2>2, <2>4
<1>6. PICK f : f = [i \in 0 .. l |-> IF i = 0 THEN << >> ELSE m[i]]
  OBVIOUS
<1>7. /\ DOMAIN f = 0 .. l /\ f[0] = << >> /\ f[l] = m[l]
      /\ \A i \in 1 .. l : f[i] = m[i]
  BY <1>a, <1>6
<1>8. ASSUME NEW i \in 1 .. l PROVE f[i] = f[i - 1] \o seqs[i]
  <2>1. CASE i = 1
    <3>1. << >> \o seqs[1] = seqs[1]
      BY <1>a, EmptyConcat
    <3>2. f[1] = seqs[1] /\ f[0] = << >> /\ i - 1 = 0
      BY <1>5, <1>7, <2>1
    <3> QED
      BY <2>1, <3>1, <3>2
  <2>2. CASE i # 1
    <3>1. i \in 2 .. l /\ i - 1 \in 1 .. l
      BY <1>a, <2>2
    <3> QED
      BY <1>5, <1>7, <3>1
  <2> QED
    BY <2>1, <2>2
<1> QED
  BY <1>a, <1>4, <1>7, <1>8 DEF IsFlat

(* What holds of the elements of all the sequences holds of all elements   *)
(* of the flattened one.                                                   *)
LEMMA FlattenOver ==
  ASSUME NEW S, NEW seqs, IsSeq(seqs), \A i \in 1 .. Len(seqs) : seqs[i] \in Seq(S)
  PROVE  FlattenSeq(seqs) \in Seq(S)
<1>1. PICK f : /\ DOMAIN f = 0 .. Len(seqs) /\ f[0] = << >> /\ FlattenSeq(seqs) = f[Len(seqs)]
               /\ \A i \in 1 .. Len(seqs) : f[i] = f[i - 1] \o seqs[i]
  BY FlattenIs, SeqIsSeq DEF IsFlat
<1>2. PICK l \in Nat : l = Len(seqs)
  BY DEF IsSeq
<1> DEFINE T == {k \in 0 .. l : f[k] \notin Seq(S)}
<1>3. T = {}
  <2> SUFFICES ASSUME T # {} PROVE FALSE
    OBVIOUS
  <2>1. PICK k \in T : \A j \in T : k <= j
    <3>1. T \in SUBSET Nat
      OBVIOUS
    <3> HIDE DEF T
    <3> QED
      BY <3>1, Least
  <2>2. k # 0
    BY <1>1
  <2>3. k - 1 \in 0 .. l /\ k \in 1 .. l /\ k - 1 \notin T
    BY <2>1, <2>2
  <2>4. f[k - 1] \in Seq(S) /\ seqs[k] \in Seq(S) /\ f[k] = f[k - 1] \o seqs[k]
    BY <1>1, <1>2, <2>3
  <2>5. f[k] \in Seq(S)
    BY <2>4
  <2> QED
    BY <2>5
<1> QED
  BY <1>1, <1>2, <1>3

-----------------------------------------------------------------------------
(* Sizes and what is known of them.                                        *)
Parallel(dims, shape) ==
  /\ IsSeq(dims) /\ IsSeq(shape) /\ Len(shape) = Len(dims)
  /\ \A i \in 1 .. Len(dims) : dims[i] \in Int /\ shape[i] \in {Dyn, dims[i]}

LEMMA ParallelConcat ==
  ASSUME NEW a, NEW b, NEW c, NEW d, Parallel(a, b), Parallel(c, d)
  PROVE  Parallel(a \o c, b \o d)
<1>1. PICK y, z : y = a \o c /\ z = b \o d
  OBVIOUS
<1>2. IsConcat(y, a, c) /\ IsConcat(z, b, d)
  BY <1>1, ConcatFacts DEF Parallel
<1>3. PICK m \in Nat, n \in Nat : m = Len(a) /\ m = Len(b) /\ n = Len(c) /\ n = Len(d)
  BY DEF Parallel, IsSeq
<1>4. ASSUME NEW i \in 1 .. Len(y) PROVE y[i] \in Int /\ z[i] \in {Dyn, y[i]}
  <2>1. i \in 1 .. m + n
    BY <1>2, <1>3 DEF IsConcat
  <2>2. CASE i <= m
    BY <1>2, <1>3, <2>1, <2>2 DEF IsConcat, Parallel
  <2>3. CASE i > m
    <3>1. PICK j \in 1 .. n : i = m + j
      BY <2>1, <2>3
    <3>2. y[i] = c[j] /\ z[i] = d[j] /\ c[j] \in Int /\ d[j] \in {Dyn, c[j]}
      BY <1>2, <1>3, <3>1 DEF IsConcat, Parallel
    <3> QED
      BY <3>2
  <2> QED
    BY <2>1, <2>2, <2>3
<1> QED
  BY <1>1, <1>2, <1>3, <1>4 DEF Parallel, IsConcat

LEMMA ParallelPart ==
  ASSUME NEW s, NEW t, Parallel(s, t), NEW a \in Nat, NEW b \in Nat,
         1 <= a, a <= b + 1, b <= Len(s)
  PROVE  Parallel(SubSeq(s, a, b), SubSeq(t, a, b))
<1>1. PICK y, z : y = SubSeq(s, a, b) /\ z = SubSeq(t, a, b)
  OBVIOUS
<1>2. IsPart(y, s, a, b) /\ IsPart(z, t, a, b)
  BY <1>1, PartFacts DEF Parallel
<1>3. ASSUME NEW i \in 1 .. Len(y) PROVE y[i] \in Int /\ z[i] \in {Dyn, y[i]}
  <2>1. i \in 1 .. b - a + 1 /\ a + i - 1 \in 1 .. Len(s)
    BY <1>2 DEF IsPart, Parallel, IsSeq
  <2> QED
    BY <1>2, <2>1 DEF IsPart, Parallel
<1> QED
  BY <1>1, <1>2, <1>3 DEF Parallel, IsPart

LEMMA ParallelOne ==
  ASSUME NEW x \in Int
  PROVE  Parallel(<<x>>, <<x>>) /\ Parallel(<<x>>, <<Dyn>>)
<1>2. ASSUME NEW y, y = x \/ y = Dyn PROVE Parallel(<<x>>, <<y>>)
  <2>1. IsSeq(<<x>>) /\ Len(<<x>>) = 1 /\ <<x>>[1] = x /\ IsSeq(<<y>>) /\ Len(<<y>>) = 1 /\ <<y>>[1] = y
    BY OneIsSeq, Zenon
  <2> QED
    BY <1>2, <2>1 DEF Parallel
<1> QED
  BY <1>2, Zenon

LEMMA ParallelSelf ==
  ASSUME NEW s \in Seq(Int)
  PROVE  Parallel(s, s)
<1>1. \A i \in 1 .. Len(s) : s[i] \in Int
  OBVIOUS
<1> QED
  BY <1>1, SeqIsSeq DEF Parallel

LEMMA ParallelEmpty == Parallel(<< >>, << >>)
  BY EmptyIsSeq DEF Parallel

LEMMA ParallelFront ==
  ASSUME NEW s, NEW t, Parallel(s, t)
  PROVE  Parallel(Front(s), Front(t))
<1>1. CASE Len(s) = 0
  <2>1. s = << >> /\ t = << >>
    BY <1>1, EmptyIffLen0 DEF Parallel
  <2>2. SubSeq(<< >>, 1, Len(<< >>) - 1) = << >>
    OBVIOUS
  <2> QED
    BY <2>1, <2>2, ParallelEmpty DEF Front
<1>2. CASE Len(s) # 0
  <2>1. PICK b \in Nat : b = Len(s) - 1 /\ b = Len(t) - 1
    BY <1>2 DEF Parallel, IsSeq
  <2>2. 1 <= b + 1 /\ b <= Len(s)
    BY <2>1 DEF Parallel, IsSeq
  <2>3. Parallel(SubSeq(s, 1, b), SubSeq(t, 1, b))
    BY <2>2, ParallelPart
  <2> QED
    BY <2>1, <2>3 DEF Front
<1> QED
  BY <1>1, <1>2

LEMMA FlattenParallel ==
  ASSUME NEW a, NEW b, IsSeq(a), IsSeq(b), Len(a) = Len(b),
         \A i \in 1 .. Len(a) : Parallel(a[i], b[i])
  PROVE  Parallel(FlattenSeq(a), FlattenSeq(b))
<1>1. PICK f : /\ DOMAIN f = 0 .. Len(a) /\ f[0] = << >> /\ FlattenSeq(a) = f[Len(a)]
               /\ \A i \in 1 .. Len(a) : f[i] = f[i - 1] \o a[i]
  BY FlattenIs DEF IsFlat, Parallel
<1>2. PICK g : /\ DOMAIN g = 0 .. Len(b) /\ g[0] = << >> /\ FlattenSeq(b) = g[Len(b)]
               /\ \A i \in 1 .. Len(b) : g[i] = g[i - 1] \o b[i]
  BY FlattenIs DEF IsFlat, Parallel
<1>3. PICK l \in Nat : l = Len(a) /\ l = Len(b)
  BY DEF IsSeq
<1> DEFINE T == {k \in 0 .. l : ~Parallel(f[k], g[k])}
<1>4. T = {}
  <2> SUFFICES ASSUME T # {} PROVE FALSE
    OBVIOUS
  <2>1. PICK k \in T : \A j \in T : k <= j
    <3>1. T \in SUBSET Nat
      OBVIOUS
    <3> HIDE DEF T
    <3> QED
      BY <3>1, Least
  <2>2. k # 0
    BY <1>1, <1>2, ParallelEmpty
  <2>3. k - 1 \in 0 .. l /\ k \in 1 .. l /\ k - 1 \notin T
    BY <2>1, <2>2
  <2>4. Parallel(f[k - 1], g[k - 1]) /\ Parallel(a[k], b[k])
    BY <1>3, <2>3
  <2>5. f[k] = f[k - 1] \o a[k] /\ g[k] = g[k - 1] \o b[k]
    BY <1>1, <1>2, <1>3, <2>3
  <2>6. Parallel(f[k], g[k])
    BY <2>4, <2>5, ParallelConcat
  <2> QED
    BY <2>6
<1> QED
  BY <1>1, <1>2, <1>3, <1>4

(* How many elements a range has.                                          *)
LEMMA Quotient ==
  ASSUME NEW a \in Int, NEW s \in Nat \ {0}, NEW q \in Int, NEW r \in Nat, r < s, a = s * q + r
  PROVE  a \div s = q /\ a % s = r
<1>1. PICK p \in Int : p = a \div s
  OBVIOUS
<1>2. PICK t \in Int : t = a % s /\ 0 <= t /\ t < s
  OBVIOUS
<1>3. a = s * p + t
  BY <1>1, <1>2
<1>4. PICK d \in Int : d = q - p
  OBVIOUS
<1>5. s * d = s * q - s * p
  BY <1>4
<1>6. s * d = t - r
  BY <1>3, <1>5
<1>7. CASE d >= 1
  <2>1. s * d = s + s * (d - 1) /\ d - 1 >= 0
    BY <1>7
  <2>2. s * (d - 1) >= 0
    BY <2>1
  <2> QED
    BY <1>2, <1>6, <2>1, <2>2
<1>8. CASE d <= -1
  <2>1. s * d = - s - s * (- d - 1) /\ - d - 1 >= 0
    BY <1>8
  <2>2. s * (- d - 1) >= 0
    BY <2>1
  <2> QED
    BY <1>2, <1>6, <2>1, <2>2
<1>9. CASE d = 0
  <2>1. q = p
    BY <1>4, <1>9
  <2> QED
    BY <1>1, <1>2, <1>3, <2>1
<1> QED
  BY <1>7, <1>8, <1>9

Elems(i, stop, step) == IF i < stop THEN (stop - i - 1) \div step + 1 ELSE 0

LEMMA ElemsNext ==
  ASSUME NEW i \in Int, NEW stop \in Int, NEW step \in Nat \ {0}
  PROVE  /\ Elems(i, stop, step) \in Nat
         /\ i < stop => Elems(i, stop, step) = Elems(i + step, stop, step) + 1
<1>1. CASE i < stop
  <2>1. PICK q \in Int, r \in Nat : q = (stop - i - 1) \div step /\ r = (stop - i - 1) % step /\ r < step
    BY <1>1
  <2>2. stop - i - 1 = step * q + r
    BY <2>1
  <2>3. q >= 0
    <3>1. SUFFICES ASSUME q <= -1 PROVE FALSE
      OBVIOUS
    <3>2. step * q = - step - step * (- q - 1) /\ - q - 1 >= 0
      BY <3>1
    <3>3. step * (- q - 1) >= 0
      BY <3>2
    <3> QED
      BY <1>1, <2>1, <2>2, <3>2, <3>3
  <2>4. Elems(i, stop, step) = q + 1
    BY <1>1, <2>1 DEF Elems
  <2>5. CASE q = 0
    <3>1. ~(i + step < stop)
      BY <2>1, <2>2, <2>5
    <3> QED
      BY <2>4, <2>5, <3>1 DEF Elems
  <2>6. CASE q > 0
    <3>1. PICK p \in Int : p = q - 1
      OBVIOUS
    <3>2. step * q = step * p + step /\ step * p >= 0
      BY <2>6, <3>1
    <3>3. stop - (i + step) - 1 = step * p + r
      BY <2>2, <3>2
    <3>4. stop - (i + step) - 1 \in Int
      OBVIOUS
    <3>5. (stop - (i + step) - 1) \div step = p
      BY <2>1, <3>3, <3>4, Quotient
    <3>6. i + step < stop
      BY <3>2, <3>3
    <3> QED
      BY <2>3, <2>4, <3>1, <3>5, <3>6 DEF Elems
  <2> QED
    BY <2>3, <2>4, <2>5, <2>6
<1>2. CASE ~(i < stop)
  BY <1>2 DEF Elems
<1> QED
  BY <1>1, <1>2

(* The length of a range, as getARangeLen works it out.                    *)
LEMMA GetLen ==
  ASSUME NEW start \in Int, NEW stop \in Int, NEW step \in Nat \ {0}, start < stop
  PROVE  getARangeLen(start, stop, step) = Elems(start, stop, step)
<1>1. PICK q \in Int, r \in Nat : q = (stop - start) \div step /\ r = (stop - start) % step /\ r < step
  OBVIOUS
<1>2. stop - start = step * q + r
  BY <1>1
<1>3. CASE r = 0
  <2>1. PICK p \in Int, t \in Nat : p = q - 1 /\ t = step - 1 /\ t < step
    OBVIOUS
  <2>2. step * q = step * p + step
    BY <2>1
  <2>3. stop - start - 1 = step * p + t
    BY <1>2, <1>3, <2>1, <2>2
  <2>4. (stop - start - 1) \div step = p
    BY <2>1, <2>3, Quotient
  <2> QED
    BY <1>1, <1>3, <2>1, <2>4 DEF getARangeLen, Elems
<1>4. CASE r # 0
  <2>1. PICK t \in Nat : t = r - 1 /\ t < step
    BY <1>1, <1>4
  <2>2. stop - start - 1 = step * q + t
    BY <1>2, <2>1
  <2>3. (stop - start - 1) \div step = q
    BY <2>1, <2>2, Quotient
  <2> QED
    BY <1>1, <1>4, <2>3 DEF getARangeLen, Elems
<1> QED
  BY <1>3, <1>4

(* ... and as the loop makes it.                                           *)
Ranges_(start, stop, step) == [j \in 1 .. Elems(start, stop, step) |-> start + (j - 1) * step]

LEMMA LoopIs ==
  ASSUME NEW start \in Int, NEW stop \in Int, NEW step \in Nat \ {0}
  PROVE  /\ ARangeLoop(start, stop, step) = Ranges_(start, stop, step)
         /\ ARangeLoop(start, stop, step) \in Seq(Int)
         /\ Len(ARangeLoop(start, stop, step)) = Elems(start, stop, step)
<1> DEFINE Body(f, i) == IF i < stop THEN <<i>> \o f[i + step] ELSE << >>
           Is(f) == f = [i \in Int |-> Body(f, i)]
           N(i) == Elems(i, stop, step)
<1>0. \A i \in Int : N(i) \in Nat /\ (i < stop => N(i) = N(i + step) + 1) /\ (~(i < stop) => N(i) = 0)
  BY ElemsNext DEF Elems
<1> HIDE DEF N
<1>1. PICK f : f = [i \in Int |-> [j \in 1 .. N(i) |-> i + (j - 1) * step]]
  OBVIOUS
<1>2. ASSUME NEW i \in Int PROVE f[i] = Body(f, i)
  <2>1. CASE i < stop
    <3>1. PICK g, h, k : g = f[i + step] /\ h = f[i] /\ k = i + step
      OBVIOUS
    <3>2. PICK n \in Nat : n = N(k) /\ n + 1 = N(i)
      BY <1>0, <2>1, <3>1
    <3>3. /\ g = [j \in 1 .. n |-> k + (j - 1) * step]
          /\ h = [j \in 1 .. n + 1 |-> i + (j - 1) * step]
      BY <1>1, <3>1, <3>2
    <3>4. g = [j \in 1 .. n |-> g[j]] /\ h = [j \in 1 .. n + 1 |-> h[j]] /\ n + 1 \in Nat
      BY <3>3
    <3>5. IsSeq(g) /\ Len(g) = n /\ IsSeq(h) /\ Len(h) = n + 1
      BY <3>4, FunIsSeq
    <3>6. IsSeq(<<i>>) /\ Len(<<i>>) = 1 /\ <<i>>[1] = i
      BY OneIsSeq
    <3>7. PICK z : z = <<i>> \o g
      OBVIOUS
    <3>8. IsConcat(z, <<i>>, g)
      BY <3>5, <3>6, <3>7, ConcatFacts
    <3>9. IsSeq(z) /\ Len(z) = n + 1 /\ z[1] = i /\ \A j \in 1 .. n : z[1 + j] = g[j]
      BY <3>5, <3>6, <3>8 DEF IsConcat
    <3>10. ASSUME NEW j \in 1 .. n + 1 PROVE z[j] = h[j]
      <4>1. CASE j = 1
        BY <3>3, <3>9, <4>1
      <4>2. CASE j # 1
        <5>1. PICK p \in 1 .. n : j = 1 + p
          <6>1. j - 1 \in 1 .. n /\ j = 1 + (j - 1)
            BY <4>2
          <6> QED
            BY <6>1
        <5>2. z[j] = k + (p - 1) * step
          BY <3>3, <3>9, <5>1
        <5>3. h[j] = i + p * step
          BY <3>3, <5>1
        <5>4. p * step = (p - 1) * step + step
          OBVIOUS
        <5> QED
          BY <3>1, <5>2, <5>3, <5>4
      <4> QED
        BY <4>1, <4>2
    <3>11. z = h
      BY <3>5, <3>9, <3>10 DEF IsSeq
    <3> QED
      BY <2>1, <3>1, <3>7, <3>11
  <2>2. CASE ~(i < stop)
    <3>1. N(i) = 0
      BY <1>0, <2>2
    <3>2. PICK h : h = f[i] /\ h = [j \in 1 .. 0 |-> i + (j - 1) * step]
      BY <1>1, <3>1
    <3>3. h = [j \in 1 .. 0 |-> h[j]]
      BY <3>2
    <3>4. h = << >>
      BY <3>3, FunIsSeq, EmptyIffLen0
    <3> QED
      BY <2>2, <3>2, <3>4
  <2> QED
    BY <2>1, <2>2
<1>3. Is(f)
  <2> HIDE DEF Body
  <2>1. DOMAIN f = Int /\ f = [i \in Int |-> f[i]]
    BY <1>1
  <2> QED
    BY <1>2, <2>1
<1>4. ARangeLoop(start, stop, step) = (CHOOSE g : Is(g))[start]
  BY DEF ARangeLoop
<1>5. PICK g : Is(g) /\ ARangeLoop(start, stop, step) = g[start]
  <2> HIDE DEF Is
  <2> QED
    BY <1>3, <1>4
<1>6. \A i \in Int : g[i] = Body(g, i)
  <2>1. g = [i \in Int |-> Body(g, i)]
    BY <1>5
  <2> HIDE DEF Body
  <2> QED
    BY <2>1
<1> DEFINE T == {m \in Nat : \E i \in Int : stop - i <= m /\ g[i] # f[i]}
<1>7. T = {}
  <2> SUFFICES ASSUME T # {} PROVE FALSE
    OBVIOUS
  <2>1. PICK m \in T : \A n \in T : m <= n
    <3>1. T \in SUBSET Nat
      OBVIOUS
    <3> HIDE DEF T
    <3> QED
      BY <3>1, Least
  <2>2. PICK i \in Int : stop - i <= m /\ g[i] # f[i]
    BY <2>1
  <2>3. m \in Nat
    BY <2>1
  <2>4. CASE i < stop
    <3>1. PICK k \in Int : k = i + step
      OBVIOUS
    <3>2. m - 1 \in Nat /\ stop - k <= m - 1
      BY <2>2, <2>3, <2>4, <3>1
    <3>3. m - 1 \notin T
      <4>1. ~(m <= m - 1)
        BY <2>3
      <4> HIDE DEF T
      <4> QED
        BY <2>1, <4>1
    <3>4. g[k] = f[k]
      BY <3>2, <3>3
    <3>5. g[i] = <<i>> \o g[k] /\ f[i] = <<i>> \o f[k]
      BY <1>2, <1>6, <2>4, <3>1
    <3> QED
      BY <2>2, <3>4, <3>5
  <2>5. CASE ~(i < stop)
    BY <1>2, <1>6, <2>2, <2>5
  <2> QED
    BY <2>4, <2>5
<1>8. PICK m \in Nat : stop - start <= m
  <2>1. stop - start <= IF stop - start \in Nat THEN stop - start ELSE 0
    OBVIOUS
  <2> QED
    BY <2>1
<1>9. g[start] = f[start]
  BY <1>7, <1>8
<1>10. f[start] = [j \in 1 .. N(start) |-> start + (j - 1) * step] /\ N(start) \in Nat
  BY <1>0, <1>1
<1>11. PICK n \in Nat : n = N(start)
  BY <1>10
<1>12. \A j \in 1 .. n : start + (j - 1) * step \in Int
  OBVIOUS
<1>13. f[start] \in [1 .. n -> Int]
  BY <1>10, <1>11, <1>12
<1>14. f[start] \in Seq(Int) /\ Len(f[start]) = n
  BY <1>13
<1> QED
  BY <1>5, <1>9, <1>10, <1>11, <1>14 DEF N, Ranges_

LEMMA InsertOneParallel ==
  ASSUME NEW s, NEW t, Parallel(s, t), NEW d \in Nat
  PROVE  Parallel(InsertOne(s, d), InsertOne(t, d))
<1>1. PICK l \in Nat : l = Len(s) /\ l = Len(t)
  BY DEF Parallel, IsSeq
<1>2. PICK i \in Nat : i = (IF d > l THEN l ELSE d) /\ i <= l
  BY <1>1
<1>3. Parallel(SubSeq(s, 1, i), SubSeq(t, 1, i))
  <2>1. 1 \in Nat /\ i \in Nat /\ 1 <= 1 /\ 1 <= i + 1 /\ i <= Len(s)
    BY <1>1, <1>2
  <2> QED
    BY <2>1, ParallelPart, Zenon
<1>4. Parallel(SubSeq(s, i + 1, l), SubSeq(t, i + 1, l))
  <2>1. i + 1 \in Nat /\ l \in Nat /\ 1 <= i + 1 /\ i + 1 <= l + 1 /\ l <= Len(s)
    BY <1>1, <1>2
  <2> QED
    BY <2>1, ParallelPart, Zenon
<1>5. Parallel(<<1>>, <<1>>)
  BY ParallelOne
<1>6. Parallel(SubSeq(s, 1, i) \o <<1>>, SubSeq(t, 1, i) \o <<1>>)
  BY <1>3, <1>5, ParallelConcat
<1>7. Parallel(SubSeq(s, 1, i) \o <<1>> \o SubSeq(s, i + 1, l), SubSeq(t, 1, i) \o <<1>> \o SubSeq(t, i + 1, l))
  BY <1>4, <1>6, ParallelConcat
<1> QED
  BY <1>1, <1>2, <1>7 DEF InsertOne

Inserting(f, shape, nd, l) ==
  /\ f[0] = shape /\ InsertOnes(shape, nd) = f[l]
  /\ \A i \in 1 .. l : f[i] = InsertOne(f[i - 1], nd[l + 1 - i])

LEMMA InsertOnesIs ==
  ASSUME NEW shape, NEW nd, NEW l \in Nat, l = Len(nd)
  PROVE  \E f : Inserting(f, shape, nd, l)
<1> DEFINE Body(g, i) == IF i = 0 THEN shape ELSE InsertOne(g[i - 1], nd[l + 1 - i])
           Is(g, k) == g = [i \in 0 .. k |-> Body(g, i)]
           T == {k \in 0 .. l : ~ \E g : Is(g, k)}
<1>1. T = {}
  <2> SUFFICES ASSUME T # {} PROVE FALSE
    OBVIOUS
  <2>1. PICK k \in T : \A j \in T : k <= j
    <3>1. T \in SUBSET Nat
      <4> HIDE DEF Is
      <4> QED
        OBVIOUS
    <3> HIDE DEF T
    <3> QED
      BY <3>1, Least
  <2>2. k \in 0 .. l /\ ~ \E g : Is(g, k)
    OBVIOUS
  <2>3. CASE k = 0
    <3>1. PICK g : g = [i \in 0 .. 0 |-> shape]
      OBVIOUS
    <3>2. g = [i \in 0 .. 0 |-> Body(g, i)]
      BY <3>1
    <3> QED
      BY <2>2, <2>3, <3>2
  <2>4. CASE k # 0
    <3>1. k - 1 \in 0 .. l /\ ~ (k <= k - 1)
      BY <2>2, <2>4
    <3>2. k - 1 \notin T
      BY <2>1, <3>1
    <3>3. PICK g : Is(g, k - 1)
      BY <3>1, <3>2
    <3>4. PICK h : h = [i \in 0 .. k |-> IF i < k THEN g[i] ELSE Body(g, k)]
      OBVIOUS
    <3>5. \A i \in 0 .. k - 1 : h[i] = g[i] /\ g[i] = Body(g, i)
      <4> HIDE DEF Body
      <4>1. \A i \in 0 .. k - 1 : g[i] = Body(g, i)
        BY <3>3
      <4>2. \A i \in 0 .. k - 1 : i \in 0 .. k /\ i < k
        BY <2>2
      <4>3. \A i \in 0 .. k - 1 : h[i] = g[i]
        BY <3>4, <4>2
      <4> QED
        BY <4>1, <4>3
    <3>6. \A i \in 0 .. k : h[i] = Body(h, i)
      <4> SUFFICES ASSUME NEW i \in 0 .. k PROVE h[i] = Body(h, i)
        OBVIOUS
      <4>1. i = 0 \/ h[i - 1] = g[i - 1]
        BY <2>2, <3>5
      <4>2. Body(h, i) = Body(g, i)
        BY <4>1
      <4>3. CASE i < k
        BY <2>2, <3>5, <4>2, <4>3
      <4>4. CASE i = k
        BY <2>2, <3>4, <4>2, <4>4
      <4> QED
        BY <2>2, <4>3, <4>4
    <3>7. Is(h, k)
      BY <3>4, <3>6
    <3> QED
      BY <2>2, <3>7
  <2> QED
    BY <2>3, <2>4
<1>2. \E g : Is(g, l)
  <2> HIDE DEF Is
  <2> QED
    BY <1>1
<1>3. InsertOnes(shape, nd) = (CHOOSE g : Is(g, l))[l]
  BY DEF InsertOnes
<1>4. PICK m : Is(m, l) /\ InsertOnes(shape, nd) = m[l]
  <2> HIDE DEF Is
  <2> QED
    BY <1>2, <1>3
<1>5. \A i \in 0 .. l : m[i] = Body(m, i)
  <2>1. m = [i \in 0 .. l |-> Body(m, i)]
    BY <1>4
  <2> HIDE DEF Body
  <2> QED
    BY <2>1
<1>6. m[0] = shape
  BY <1>5
<1>7. ASSUME NEW i \in 1 .. l PROVE m[i] = InsertOne(m[i - 1], nd[l + 1 - i])
  <2>1. i \in 0 .. l /\ i # 0
    OBVIOUS
  <2> QED
    BY <1>5, <2>1
<1> QED
  BY <1>4, <1>6, <1>7 DEF Inserting

LEMMA InsertOnesParallel ==
  ASSUME NEW s, NEW t, Parallel(s, t), NEW nd, IsSeq(nd), \A i \in 1 .. Len(nd) : nd[i] \in Nat
  PROVE  Parallel(InsertOnes(s, nd), InsertOnes(t, nd))
<1>1. PICK l \in Nat : l = Len(nd)
  BY DEF IsSeq
<1>2. PICK f : Inserting(f, s, nd, l)
  BY <1>1, InsertOnesIs, Zenon
<1>3. PICK g : Inserting(g, t, nd, l)
  BY <1>1, InsertOnesIs, Zenon
<1> DEFINE T == {k \in 0 .. l : ~Parallel(f[k], g[k])}
<1>4. T = {}
  <2> SUFFICES ASSUME T # {} PROVE FALSE
    OBVIOUS
  <2>1. PICK k \in T : \A j \in T : k <= j
    <3>1. T \in SUBSET Nat
      OBVIOUS
    <3> HIDE DEF T
    <3> QED
      BY <3>1, Least
  <2>2. k # 0
    BY <1>2, <1>3 DEF Inserting
  <2>3. k - 1 \in 0 .. l /\ k \in 1 .. l /\ k - 1 \notin T
    BY <2>1, <2>2
  <2>4. Parallel(f[k - 1], g[k - 1])
    BY <2>3
  <2>5. PICK d \in Nat : d = nd[l + 1 - k]
    BY <1>1, <2>3
  <2>6. f[k] = InsertOne(f[k - 1], d) /\ g[k] = InsertOne(g[k - 1], d)
    BY <1>2, <1>3, <2>3, <2>5 DEF Inserting
  <2>7. Parallel(f[k], g[k])
    BY <2>4, <2>6, InsertOneParallel
  <2> QED
    BY <2>7
<1> QED
  BY <1>2, <1>3, <1>4 DEF Inserting

-----------------------------------------------------------------------------
(* Values: what is known of their sizes is right.                          *)
ValueFields == {"k", "dims", "shape", "data", "dtype", "const", "keep"}
Value(v) ==
  /\ DOMAIN v = ValueFields /\ v.k \in {"scalar", "tensor"} /\ Parallel(v.dims, v.shape)
  /\ v.k = "scalar" => v.dims = << >>

LEMMA IsValueValue ==
  ASSUME NEW v, IsValue(v)
  PROVE  Value(v)
<1>1. IsSeq(v.dims) /\ IsSeq(v.shape)
  BY SeqIsSeq DEF IsValue
<1>2. \A i \in 1 .. Len(v.dims) : v.dims[i] \in Int
  BY DEF IsValue
<1> QED
  BY <1>1, <1>2 DEF IsValue, Value, ValueFields, Parallel

LEMMA ParallelInts ==
  ASSUME NEW dims, NEW shape, Parallel(dims, shape)
  PROVE  dims \in Seq(Int) /\ shape \in Seq(Int)
<1>1. \A i \in 1 .. Len(dims) : dims[i] \in Int /\ shape[i] \in Int
  BY DEF Parallel, Dyn
<1> QED
  BY <1>1, SeqOverRange DEF Parallel

LEMMA RuntimeValue ==
  ASSUME NEW t, Value(t), NEW dims, NEW shape, Parallel(dims, shape), NEW data,
         t.k = "tensor" \/ dims = << >>
  PROVE  /\ Value(Runtime(t, dims, shape, data))
         /\ Runtime(t, dims, shape, data).k = t.k /\ Runtime(t, dims, shape, data).data = data
         /\ Runtime(t, dims, shape, data).dims = dims
  BY DEF Runtime, Value, ValueFields

LEMMA WrappedValue ==
  ASSUME NEW value, value.dims \in Seq(Int), NEW type, type.shape = << >> \/ value.dims # << >>, NEW keep
  PROVE  /\ Value(Wrapped(value, type, keep))
         /\ Wrapped(value, type, keep).dims = value.dims
         /\ Wrapped(value, type, keep).shape = value.dims
         /\ Wrapped(value, type, keep).data = value.data
         /\ Wrapped(value, type, keep).k = IF value.dims = << >> THEN "scalar" ELSE "tensor"
<1>1. constant(value, type).dims = value.dims /\ constant(value, type).data = value.data
  BY DEF constant
<1>2. PICK c : c = constant(value, type)
  OBVIOUS
<1> HIDE DEF constant
<1>3. Parallel(c.dims, c.dims)
  BY <1>1, <1>2, ParallelSelf
<1> QED
  BY <1>1, <1>2, <1>3 DEF Wrapped, Value, ValueFields

LEMMA AsIndexTensorValue ==
  ASSUME NEW val, val.dims \in Seq(Int)
  PROVE  /\ Value(as_index_tensor(val)) /\ as_index_tensor(val).dims = val.dims
         /\ as_index_tensor(val).shape = val.dims /\ as_index_tensor(val).data = val.data
  BY WrappedValue DEF as_index_tensor

\* An index tensor of one column whose rows are distinct.
Spread(v) ==
  /\ v.shape = <<Dyn, 1>>
  /\ \E n \in Nat : v.dims = <<n, 1>> /\ \A i, j \in 1 .. n : v.data[i] = v.data[j] => i = j

Column(v, d) == v.dims = <<Len(d), 1>>

LEMMA ARangeOpValue ==
  ASSUME NEW start \in Int, NEW stop \in Int, NEW step \in Nat \ {0}, NEW v, v = ARangeOp(start, stop, step)
  PROVE  Value(v) /\ Column(v, ARangeLoop(start, stop, step)) /\ v.k = "tensor" /\ Spread(v)
<1>1. PICK d \in Seq(Int) : d = ARangeLoop(start, stop, step) /\ d = Ranges_(start, stop, step)
                            /\ Len(d) = Elems(start, stop, step)
  BY LoopIs
<1>2. v = [IndexTensor(<<Len(d), 1>>, d, FALSE) EXCEPT !.shape = <<Dyn, 1>>]
  BY <1>1 DEF ARangeOp
<1>3. /\ DOMAIN v = ValueFields /\ v.k = "tensor" /\ v.dims = <<Len(d), 1>> /\ v.shape = <<Dyn, 1>> /\ v.data = d
  BY <1>2 DEF IndexTensor, ValueFields
<1>4. PICK n \in Nat : n = Len(d)
  OBVIOUS
<1>5. Parallel(<<n, 1>>, <<Dyn, 1>>)
  <2>1. ASSUME NEW x PROVE IsSeq(<<x, 1>>) /\ Len(<<x, 1>>) = 2 /\ <<x, 1>>[1] = x /\ <<x, 1>>[2] = 1
    <3>1. <<x, 1>> \in Seq({x, 1}) /\ Len(<<x, 1>>) = 2 /\ <<x, 1>>[1] = x /\ <<x, 1>>[2] = 1
      OBVIOUS
    <3> QED
      BY <3>1, SeqIsSeq
  <2>2. PICK y, z : y = <<n, 1>> /\ z = <<Dyn, 1>>
    OBVIOUS
  <2>3. /\ IsSeq(y) /\ Len(y) = 2 /\ y[1] = n /\ y[2] = 1
        /\ IsSeq(z) /\ Len(z) = 2 /\ z[1] = Dyn /\ z[2] = 1
    BY <2>1, <2>2, Zenon
  <2>4. \A i \in 1 .. 2 : i = 1 \/ i = 2
    OBVIOUS
  <2>5. Parallel(y, z)
    BY <2>3, <2>4 DEF Parallel
  <2> QED
    BY <2>2, <2>5
<1>6. ASSUME NEW i \in 1 .. n, NEW j \in 1 .. n, d[i] = d[j] PROVE i = j
  <2>1. d[i] = start + (i - 1) * step /\ d[j] = start + (j - 1) * step
    BY <1>1, <1>4 DEF Ranges_
  <2>2. (i - 1) * step = (j - 1) * step
    <3>1. PICK a \in Int, b \in Int : a = (i - 1) * step /\ b = (j - 1) * step
      OBVIOUS
    <3>2. start + a = start + b
      BY <1>6, <2>1, <3>1
    <3>3. a = b
      BY <3>2
    <3> QED
      BY <3>1, <3>3
  <2>3. (i - j) * step = 0
    BY <2>2
  <2> QED
    BY <2>3
<1>7. Spread(v)
  BY <1>3, <1>4, <1>6 DEF Spread
<1> QED
  BY <1>1, <1>3, <1>4, <1>5, <1>7 DEF Value, Column

(* What a gather leaves of the source's axes depends on gd only.           *)
LEMMA OmitParallel ==
  ASSUME NEW dims, NEW shape, Parallel(dims, shape), NEW gd
  PROVE  Parallel(Omit(dims, gd), Omit(shape, gd))
<1>1. PICK l \in Nat : l = Len(dims) /\ l = Len(shape)
  BY DEF Parallel, IsSeq
<1>2. DOMAIN dims = 1 .. l /\ DOMAIN shape = 1 .. l
  BY <1>1 DEF Parallel, IsSeq
<1>3. PICK G : G = ToSet(gd)
  OBVIOUS
<1>4. PICK a, b : /\ a = [i \in 1 .. l |-> IF i - 1 \in G THEN << >> ELSE <<dims[i]>>]
                  /\ b = [i \in 1 .. l |-> IF i - 1 \in G THEN << >> ELSE <<shape[i]>>]
  OBVIOUS
<1>5. Omit(dims, gd) = FlattenSeq(a) /\ Omit(shape, gd) = FlattenSeq(b)
  BY <1>2, <1>3, <1>4, Zenon DEF Omit
<1>6. a = [i \in 1 .. l |-> a[i]] /\ b = [i \in 1 .. l |-> b[i]]
  BY <1>4
<1>7. IsSeq(a) /\ Len(a) = l /\ IsSeq(b) /\ Len(b) = l
  BY <1>1, <1>6, FunIsSeq
<1>8. ASSUME NEW i \in 1 .. l PROVE Parallel(a[i], b[i])
  <2>1. CASE i - 1 \in G
    BY <1>4, <2>1, ParallelEmpty
  <2>2. CASE i - 1 \notin G
    <3>1. a[i] = <<dims[i]>> /\ b[i] = <<shape[i]>> /\ dims[i] \in Int /\ shape[i] \in {Dyn, dims[i]}
      BY <1>1, <1>4, <2>2 DEF Parallel
    <3> QED
      BY <3>1, ParallelOne
  <2> QED
    BY <2>1, <2>2
<1>9. Parallel(FlattenSeq(a), FlattenSeq(b))
  BY <1>7, <1>8, FlattenParallel
<1> QED
  BY <1>5, <1>9

LEMMA InferParallel ==
  ASSUME NEW dims, NEW shape, Parallel(dims, shape), NEW idims, NEW ishape, Parallel(Front(idims), Front(ishape)),
         NEW gd
  PROVE  Parallel(inferReturnTypes(dims, idims, gd), inferReturnTypes(shape, ishape, gd))
<1>2. Parallel(Omit(dims, gd), Omit(shape, gd))
  BY OmitParallel
<1> QED
  BY <1>2, ParallelConcat DEF inferReturnTypes

LEMMA GatherValue ==
  ASSUME NEW t, Value(t), t.k = "tensor", NEW indices,
         Parallel(Front(indices.dims), Front(indices.shape)), NEW gd
  PROVE  Value(GatherOp(t, indices, gd)) /\ GatherOp(t, indices, gd).k = "tensor"
<1>1. PICK dims, shape : /\ dims = inferReturnTypes(t.dims, indices.dims, gd)
                         /\ shape = inferReturnTypes(t.shape, indices.shape, gd)
  OBVIOUS
<1>2. Parallel(dims, shape)
  BY <1>1, InferParallel DEF Value
<1>3. \E data : GatherOp(t, indices, gd) = Runtime(t, dims, shape, data)
  BY <1>1 DEF GatherOp
<1> QED
  BY <1>2, <1>3, RuntimeValue

LEMMA ScatterValue ==
  ASSUME NEW t, NEW dest, Value(dest), dest.k = "tensor", NEW indices, NEW gd
  PROVE  Value(ScatterOp(t, dest, indices, gd)) /\ ScatterOp(t, dest, indices, gd).k = "tensor"
<1>1. \E data : ScatterOp(t, dest, indices, gd) = Runtime(dest, dest.dims, dest.shape, data)
  BY DEF ScatterOp
<1> QED
  BY <1>1, RuntimeValue DEF Value

(* Indexers side by side: only the last axis is longer.                    *)
LEMMA FrontAppend ==
  ASSUME NEW s, IsSeq(s), NEW x
  PROVE  Front(Append(s, x)) = s
<1>1. PICK S : S = {s[i] : i \in 1 .. Len(s)} \cup {x}
  OBVIOUS
<1>2. s \in Seq(S) /\ x \in S
  BY <1>1, SeqOverRange
<1>3. PICK l \in Nat : l = Len(s)
  BY <1>2
<1>4. PICK z : z = Append(s, x)
  OBVIOUS
<1>5. z \in Seq(S) /\ Len(z) = l + 1 /\ \A i \in 1 .. l : z[i] = s[i]
  BY <1>2, <1>3, <1>4
<1>6. PICK y : y = SubSeq(z, 1, l)
  OBVIOUS
<1>7. IsPart(y, z, 1, l)
  <2>1. IsSeq(z) /\ 1 \in Nat /\ l \in Nat /\ 1 <= 1 /\ 1 <= l + 1 /\ l <= Len(z)
    BY <1>3, <1>5, SeqIsSeq
  <2> QED
    BY <1>6, <2>1, PartFacts, Zenon
<1>8. IsSeq(y) /\ Len(y) = l /\ \A i \in 1 .. l : y[i] = s[i]
  BY <1>3, <1>5, <1>7 DEF IsPart
<1>9. y = s
  BY <1>3, <1>8 DEF IsSeq
<1>10. Len(z) - 1 = l
  BY <1>3, <1>5
<1> QED
  BY <1>4, <1>6, <1>9, <1>10 DEF Front

\* Indexers of equal static shape, joined along the last axis.
IsJoined(j, tens) ==
  /\ j.dims = Append(Front(tens[1].dims), Len(tens) * Last(tens[1].dims))
  /\ j.data = IF \A i \in DOMAIN tens : tens[i].dims = tens[1].dims
              THEN Filled(j.dims, LAMBDA c : At(tens[Last(c) \div Last(tens[1].dims) + 1],
                                               Append(Front(c), Last(c) % Last(tens[1].dims))))
              ELSE [k \in 1 .. Product(j.dims) |-> Junk]
  /\ Parallel(Front(j.dims), Front(j.shape))

LEMMA JoinedIs ==
  ASSUME NEW tens, Value(tens[1])
  PROVE  \/ concatenate(tens) = Raised
         \/ /\ IsJoined(concatenate(tens), tens) /\ \A i \in DOMAIN tens : tens[i].shape = tens[1].shape
            /\ concatenate(tens).k = tens[1].k
<1>1. PICK w : w = Len(tens) * Last(tens[1].dims)
  OBVIOUS
<1>2. PICK dims, shape : dims = Append(Front(tens[1].dims), w) /\ shape = Append(Front(tens[1].shape), w)
  OBVIOUS
<1>3. Parallel(Front(dims), Front(shape))
  <2>1. Parallel(Front(tens[1].dims), Front(tens[1].shape))
    BY ParallelFront DEF Value
  <2>2. Front(dims) = Front(tens[1].dims) /\ Front(shape) = Front(tens[1].shape)
    BY <1>2, <2>1, FrontAppend DEF Parallel
  <2> QED
    BY <2>1, <2>2
<1>4. PICK j : j = Joined(tens)
  OBVIOUS
<1> DEFINE D == IF \A i \in DOMAIN tens : tens[i].dims = tens[1].dims
                THEN Filled(dims, LAMBDA c : At(tens[Last(c) \div Last(tens[1].dims) + 1],
                                                Append(Front(c), Last(c) % Last(tens[1].dims))))
                ELSE [k \in 1 .. Product(dims) |-> Junk]
<1>5. j = [tens[1] EXCEPT !.dims = dims, !.shape = shape, !.data = D]
  BY <1>1, <1>2, <1>4 DEF Joined, Filled
<1>6. DOMAIN j = ValueFields /\ j.dims = dims /\ j.shape = shape /\ j.data = D /\ j.k = tens[1].k
  <2> HIDE DEF D
  <2> QED
    BY <1>5 DEF Value, ValueFields
<1>7. \/ concatenate(tens) = Raised
      \/ /\ concatenate(tens) \in {j, [j EXCEPT !.const = FALSE, !.keep = TRUE]}
         /\ \A i \in DOMAIN tens : tens[i].shape = tens[1].shape
  BY <1>4 DEF concatenate
<1>8. \A c : c = [j EXCEPT !.const = FALSE, !.keep = TRUE] =>
               c.dims = j.dims /\ c.shape = j.shape /\ c.data = j.data /\ c.k = j.k
  BY <1>6 DEF ValueFields
<1>9. PICK c : c = concatenate(tens)
  OBVIOUS
<1>10. c = Raised \/ (c.dims = dims /\ c.shape = shape /\ c.data = D /\ c.k = tens[1].k)
  <2> HIDE DEF D
  <2> QED
    BY <1>6, <1>7, <1>8, <1>9
<1>11. c = Raised \/ IsJoined(c, tens)
  BY <1>1, <1>2, <1>3, <1>10 DEF IsJoined, Filled
<1> QED
  BY <1>7, <1>9, <1>10, <1>11

(* New axes of size one.                                                   *)
NatSeq(s) == IsSeq(s) /\ \A i \in 1 .. Len(s) : s[i] \in Nat

LEMMA ExpandValue ==
  ASSUME NEW inp, Value(inp), NEW nd, NatSeq(nd)
  PROVE  LET r == expand_dims(inp, nd)
         IN r = Raised \/ Value(r)
<1>1. CASE nd = << >>
  BY <1>1 DEF expand_dims
<1>2. CASE nd # << >> /\ inp.k = "scalar"
  <2>1. PICK l \in Nat : l = Len(nd) /\ DOMAIN nd = 1 .. l
    BY DEF NatSeq, IsSeq
  <2>2. PICK ones : ones = [i \in 1 .. l |-> 1]
    OBVIOUS
  <2>3. IsSeq(ones) /\ Len(ones) = l
    BY <2>1, <2>2, FunIsSeq
  <2>5. CASE fold(inp)
    <3>1. PICK val : val = [dims |-> ones, data |-> inp.data]
      OBVIOUS
    <3>2. expand_dims(inp, nd) = as_index_tensor(val)
      BY <1>2, <2>1, <2>2, <2>5, <3>1 DEF expand_dims
    <3>3. val.dims \in Seq(Int)
      BY <2>1, <2>2, <3>1
    <3> QED
      BY <3>2, <3>3, AsIndexTensorValue
  <2>6. CASE ~fold(inp)
    <3>1. PICK r : r = [Runtime(inp, ones, ones, inp.data) EXCEPT !.k = "tensor"]
      OBVIOUS
    <3>2. expand_dims(inp, nd) = r
      BY <1>2, <2>1, <2>2, <2>6, <3>1 DEF expand_dims
    <3>3. Parallel(ones, ones)
      <4>1. ones \in Seq(Int)
        BY <2>1, <2>2
      <4> QED
        BY <4>1, ParallelSelf
    <3>4. DOMAIN r = ValueFields /\ r.k = "tensor" /\ r.dims = ones /\ r.shape = ones
      BY <3>1 DEF Runtime, Value, ValueFields
    <3> QED
      BY <3>2, <3>3, <3>4 DEF Value
  <2> QED
    BY <2>5, <2>6
<1>3. CASE nd # << >> /\ inp.k = "tensor"
  <2>1. PICK dims, shape : dims = InsertOnes(inp.dims, nd) /\ shape = InsertOnes(inp.shape, nd)
    OBVIOUS
  <2>2. Parallel(dims, shape)
    BY <2>1, InsertOnesParallel DEF Value, NatSeq
  <2>3. CASE fold(inp)
    <3>1. PICK val : val = [dims |-> shape, data |-> inp.data]
      OBVIOUS
    <3>2. expand_dims(inp, nd) = as_index_tensor(val)
      BY <1>3, <2>1, <2>3, <3>1 DEF expand_dims
    <3>3. val.dims \in Seq(Int)
      BY <2>2, <3>1, ParallelInts
    <3> QED
      BY <3>2, <3>3, AsIndexTensorValue
  <2>4. CASE ~fold(inp)
    <3>1. PICK groups : groups = Reassociate(Len(inp.shape), nd)
      OBVIOUS
    <3>2. CASE groups = << >>
      BY <1>3, <2>4, <3>1, <3>2 DEF expand_dims
    <3>3. CASE groups # << >>
      <4>1. expand_dims(inp, nd) = ExpandShapeOp(inp, dims, shape, groups)
        BY <1>3, <2>1, <2>4, <3>1, <3>3 DEF expand_dims
      <4>2. \E data : ExpandShapeOp(inp, dims, shape, groups) = Runtime(inp, dims, shape, data)
        BY DEF ExpandShapeOp
      <4> QED
        BY <1>3, <2>2, <4>1, <4>2, RuntimeValue
    <3> QED
      BY <3>2, <3>3
  <2> QED
    BY <2>3, <2>4
<1> QED
  BY <1>1, <1>2, <1>3 DEF Value

(* The elements of an index tuple.                                         *)
GoodSlice(e) ==
  /\ e.start \in Int /\ e.stop \in Int /\ e.step \in Int /\ e.dyn \in BOOLEAN
  /\ e.step >= 1 \/ (e.step = -1 /\ e.start = Absent /\ e.stop = Absent)
GoodElem(e) ==
  /\ e.k \in {"scalar", "tensor"} => Value(e)
  /\ e.k = "tensor" => Last(e.shape) \in Nat
  /\ e.k = "list" => e.dims \in Seq(Nat) /\ e.dims # << >>
  /\ e.k = "slice" => GoodSlice(e)
GoodTuple(idx) == IsSeq(idx) /\ \A i \in 1 .. Len(idx) : GoodElem(idx[i])

LEMMA GoodConcat ==
  ASSUME NEW s, NEW t, GoodTuple(s), GoodTuple(t)
  PROVE  GoodTuple(s \o t)
<1>1. PICK z : z = s \o t
  OBVIOUS
<1>2. IsConcat(z, s, t)
  BY <1>1, ConcatFacts DEF GoodTuple
<1>3. PICK m \in Nat, n \in Nat : m = Len(s) /\ n = Len(t)
  BY DEF GoodTuple, IsSeq
<1>4. ASSUME NEW i \in 1 .. Len(z) PROVE GoodElem(z[i])
  <2>1. i \in 1 .. m \/ (i - m \in 1 .. n /\ i = m + (i - m))
    BY <1>2, <1>3 DEF IsConcat
  <2>2. CASE i \in 1 .. m
    BY <1>2, <1>3, <2>2 DEF IsConcat, GoodTuple
  <2>3. CASE i - m \in 1 .. n /\ i = m + (i - m)
    <3>1. PICK j \in 1 .. n : j = i - m
      BY <2>3
    <3>2. i = m + j
      BY <2>3, <3>1
    <3> QED
      BY <1>2, <1>3, <3>2 DEF IsConcat, GoodTuple
  <2> QED
    BY <2>1, <2>2, <2>3
<1> QED
  BY <1>1, <1>2, <1>4 DEF IsConcat, GoodTuple

LEMMA GoodPart ==
  ASSUME NEW s, GoodTuple(s), NEW a \in Nat, NEW b \in Nat, 1 <= a, a <= b + 1, b <= Len(s)
  PROVE  GoodTuple(SubSeq(s, a, b))
<1>1. PICK z : z = SubSeq(s, a, b)
  OBVIOUS
<1>2. IsPart(z, s, a, b)
  BY <1>1, PartFacts DEF GoodTuple
<1>3. PICK l \in Nat : l = Len(s)
  BY DEF GoodTuple, IsSeq
<1>4. ASSUME NEW i \in 1 .. Len(z) PROVE GoodElem(z[i])
  <2>1. i \in 1 .. b - a + 1 /\ a + i - 1 \in 1 .. l
    BY <1>2, <1>3 DEF IsPart
  <2> QED
    BY <1>2, <1>3, <2>1 DEF IsPart, GoodTuple
<1> QED
  BY <1>1, <1>2, <1>4 DEF IsPart, GoodTuple

LEMMA GoodOthers == GoodElem(FullSlice) /\ GoodElem(Raised)
  BY DEF GoodElem, GoodSlice, FullSlice, Slice, Raised, Absent

LEMMA AsScalarsGood ==
  ASSUME NEW elems, GoodTuple(elems)
  PROVE  GoodTuple(AsScalars(elems))
<1>1. PICK l \in Nat : l = Len(elems) /\ DOMAIN elems = 1 .. l
  BY DEF GoodTuple, IsSeq
<1>2. PICK z : z = AsScalars(elems)
  OBVIOUS
<1>3. z = [i \in 1 .. l |-> IF elems[i].k = "int" THEN IndexScalar(elems[i].v) ELSE elems[i]]
  BY <1>1, <1>2 DEF AsScalars
<1>4. z = [i \in 1 .. l |-> z[i]]
  BY <1>3
<1>5. IsSeq(z) /\ Len(z) = l
  BY <1>4, FunIsSeq
<1>6. ASSUME NEW i \in 1 .. l PROVE GoodElem(z[i])
  <2>1. CASE elems[i].k = "int"
    <3>1. PICK d : d = elems[i].v
      OBVIOUS
    <3>2. z[i] = IndexScalar(d)
      BY <1>3, <2>1, <3>1
    <3>3. PICK val, type : val = [dims |-> << >>, data |-> <<d>>] /\ type = [shape |-> << >>, dtype |-> "index"]
      OBVIOUS
    <3>4. val.dims = << >> /\ val.dims \in Seq(Int) /\ type.shape = << >>
      BY <3>3
    <3>5. Value(Wrapped(val, type, TRUE)) /\ Wrapped(val, type, TRUE).k = "scalar"
      BY <3>4, WrappedValue
    <3>6. Value(z[i]) /\ z[i].k = "scalar"
      BY <3>2, <3>3, <3>5 DEF IndexScalar
    <3> QED
      BY <3>6 DEF Value, GoodElem
  <2>2. CASE elems[i].k # "int"
    BY <1>1, <1>3, <2>2 DEF GoodTuple
  <2> QED
    BY <2>1, <2>2
<1> QED
  BY <1>2, <1>5, <1>6 DEF GoodTuple

LEMMA CanonicalGood ==
  ASSUME NEW idx, GoodTuple(idx), NEW rank \in Nat
  PROVE  GoodTuple(canonicalize_tuple_index(idx, rank))
<1>1. PICK l \in Nat : l = Len(idx) /\ DOMAIN idx = 1 .. l
  BY DEF GoodTuple, IsSeq
<1>2. PICK c : c = [i \in DOMAIN idx |-> IF is_advanced_int_indexer(idx) /\ idx[i].k = "list"
                                         THEN as_index_tensor(idx[i]) ELSE idx[i]]
  OBVIOUS
<1>3. PICK m : m = Cardinality({i \in DOMAIN idx : idx[i].k \notin {"None", "Ellipsis"}})
  OBVIOUS
<1>4. m \in Nat
  <2>1. {i \in DOMAIN idx : idx[i].k \notin {"None", "Ellipsis"}} \subseteq 1 .. l /\ IsFiniteSet(1 .. l)
    BY <1>1, FS_Interval
  <2> QED
    BY <1>3, <2>1, FS_Subset, FS_CardinalityType
<1>5. PICK colons : colons = [i \in 1 .. rank - m |-> FullSlice]
  OBVIOUS
<1>6. PICK E : E = {i \in DOMAIN idx : idx[i].k = "Ellipsis"}
  OBVIOUS
<1>7. canonicalize_tuple_index(idx, rank) =
        IF m > rank \/ Cardinality(E) > 1 THEN <<Raised>>
        ELSE IF E = {} THEN c \o colons
        ELSE LET d == CHOOSE i \in E : TRUE IN SubSeq(c, 1, d - 1) \o colons \o SubSeq(c, d + 1, Len(idx))
  BY <1>2, <1>3, <1>5, <1>6 DEF canonicalize_tuple_index
<1>8. GoodTuple(c) /\ Len(c) = l
  <2>1. c = [i \in 1 .. l |-> c[i]]
    BY <1>1, <1>2
  <2>2. IsSeq(c) /\ Len(c) = l
    BY <2>1, FunIsSeq
  <2>3. ASSUME NEW i \in 1 .. l PROVE GoodElem(c[i])
    <3>1. GoodElem(idx[i])
      BY <1>1 DEF GoodTuple
    <3>2. CASE is_advanced_int_indexer(idx) /\ idx[i].k = "list"
      <4>1. PICK d \in Seq(Nat) : c[i] = as_index_tensor(idx[i]) /\ d = idx[i].dims /\ d # << >>
        BY <1>1, <1>2, <3>1, <3>2 DEF GoodElem
      <4>2. d \in Seq(Int) /\ Len(d) \in 1 .. Len(d) /\ Last(d) \in Nat
        BY <4>1 DEF Last
      <4>3. Value(c[i]) /\ c[i].shape = d /\ c[i].dims = d
        BY <4>1, <4>2, AsIndexTensorValue
      <4> QED
        BY <4>2, <4>3 DEF Value, GoodElem
    <3>3. CASE ~(is_advanced_int_indexer(idx) /\ idx[i].k = "list")
      BY <1>1, <1>2, <3>1, <3>3
    <3> QED
      BY <3>2, <3>3
  <2> QED
    BY <2>2, <2>3 DEF GoodTuple
<1>9. CASE m > rank \/ Cardinality(E) > 1
  <2>1. PICK r : r = Raised
    OBVIOUS
  <2>2. IsSeq(<<r>>) /\ Len(<<r>>) = 1 /\ <<r>>[1] = r
    BY OneIsSeq
  <2>3. GoodTuple(<<r>>)
    BY <2>1, <2>2, GoodOthers DEF GoodTuple
  <2> QED
    BY <1>7, <1>9, <2>1, <2>3
<1>10. CASE ~(m > rank \/ Cardinality(E) > 1)
  <2>1. PICK n \in Nat : n = rank - m
    BY <1>4, <1>10
  <2>2. colons = [i \in 1 .. n |-> colons[i]] /\ \A i \in 1 .. n : colons[i] = FullSlice
    BY <1>5, <2>1
  <2>3. GoodTuple(colons)
    BY <2>2, FunIsSeq, GoodOthers DEF GoodTuple
  <2>4. CASE E = {}
    BY <1>7, <1>8, <1>10, <2>3, <2>4, GoodConcat
  <2>5. CASE E # {}
    <3>1. PICK d : d = CHOOSE i \in E : TRUE
      OBVIOUS
    <3>2. d \in 1 .. l
      BY <1>1, <1>6, <2>5, <3>1
    <3>3. canonicalize_tuple_index(idx, rank) = SubSeq(c, 1, d - 1) \o colons \o SubSeq(c, d + 1, l)
      BY <1>1, <1>7, <1>10, <2>5, <3>1
    <3>4. /\ 1 \in Nat /\ d - 1 \in Nat /\ 1 <= 1 /\ 1 <= d - 1 + 1 /\ d - 1 <= Len(c)
          /\ d + 1 \in Nat /\ l \in Nat /\ 1 <= d + 1 /\ d + 1 <= l + 1 /\ l <= Len(c)
      BY <1>8, <3>2
    <3>5. GoodTuple(SubSeq(c, 1, d - 1)) /\ GoodTuple(SubSeq(c, d + 1, l))
      BY <1>8, <3>4, GoodPart, Zenon
    <3>6. GoodTuple(SubSeq(c, 1, d - 1) \o colons)
      BY <2>3, <3>5, GoodConcat
    <3> QED
      BY <3>3, <3>5, <3>6, GoodConcat
  <2> QED
    BY <2>4, <2>5
<1> QED
  BY <1>9, <1>10

LEMMA IndexTensorsAre ==
  ASSUME NEW idx, GoodTuple(idx)
  PROVE  /\ IsSeq(IndexTensors(idx))
         /\ \A i \in 1 .. Len(IndexTensors(idx)) : Value(IndexTensors(idx)[i])
<1>1. PICK l \in Nat : l = Len(idx) /\ DOMAIN idx = 1 .. l
  BY DEF GoodTuple, IsSeq
<1>2. PICK S : S = {idx[i] : i \in {j \in 1 .. l : IsIndexTensor(idx[j])}}
  OBVIOUS
<1>3. PICK a : a = [i \in 1 .. l |-> IF IsIndexTensor(idx[i]) THEN <<idx[i]>> ELSE << >>]
  OBVIOUS
<1>4. IndexTensors(idx) = FlattenSeq(a)
  BY <1>1, <1>3 DEF IndexTensors
<1>5. a = [i \in 1 .. l |-> a[i]]
  BY <1>3
<1>6. IsSeq(a) /\ Len(a) = l
  BY <1>5, FunIsSeq
<1>7. ASSUME NEW i \in 1 .. l PROVE a[i] \in Seq(S)
  <2>1. CASE IsIndexTensor(idx[i])
    <3>1. PICK e \in S : e = idx[i]
      BY <1>2, <2>1
    <3> QED
      BY <1>3, <2>1, <3>1
  <2>2. CASE ~IsIndexTensor(idx[i])
    BY <1>3, <2>2
  <2> QED
    BY <2>1, <2>2
<1>8. PICK z \in Seq(S) : z = IndexTensors(idx)
  BY <1>4, <1>6, <1>7, FlattenOver
<1>9. \A e \in S : Value(e)
  BY <1>1, <1>2 DEF GoodTuple, GoodElem, IsIndexTensor
<1> QED
  BY <1>8, <1>9, SeqIsSeq

VisitFields == {"in_axis", "out_axis", "collapsed_dims", "indices", "newaxis_dims", "ok"}
ValueSeq(s) == IsSeq(s) /\ \A i \in 1 .. Len(s) : Value(s[i])
\* The loop over the elements of an index tuple.
Visiting(s) ==
  /\ DOMAIN s = VisitFields /\ s.in_axis \in Nat /\ s.out_axis \in Nat
  /\ NatSeq(s.newaxis_dims) /\ ValueSeq(s.indices)

\* What a scalar or a slice adds to the indices: one coordinate, or distinct ones.
Single(v) == v.dims = <<1, 1>> /\ v.shape = <<1, 1>>
Plain(v) == Value(v) /\ (Single(v) \/ Spread(v))
Plainly(s) == \A i \in 1 .. Len(s.indices) : Plain(s.indices[i])

LEMMA ValueConcat ==
  ASSUME NEW s, NEW t, ValueSeq(s), ValueSeq(t)
  PROVE  ValueSeq(s \o t)
<1>1. PICK z : z = s \o t
  OBVIOUS
<1>2. IsConcat(z, s, t)
  BY <1>1, ConcatFacts DEF ValueSeq
<1>3. PICK m \in Nat, n \in Nat : m = Len(s) /\ n = Len(t)
  BY DEF ValueSeq, IsSeq
<1>4. ASSUME NEW i \in 1 .. Len(z) PROVE Value(z[i])
  <2>1. i \in 1 .. m \/ (i - m \in 1 .. n /\ i = m + (i - m))
    BY <1>2, <1>3 DEF IsConcat
  <2>2. CASE i \in 1 .. m
    BY <1>2, <1>3, <2>2 DEF IsConcat, ValueSeq
  <2>3. CASE i - m \in 1 .. n /\ i = m + (i - m)
    <3>1. PICK j \in 1 .. n : j = i - m
      BY <2>3
    <3>2. i = m + j
      BY <2>3, <3>1
    <3> QED
      BY <1>2, <1>3, <3>2 DEF IsConcat, ValueSeq
  <2> QED
    BY <2>1, <2>2, <2>3
<1> QED
  BY <1>1, <1>2, <1>4 DEF IsConcat, ValueSeq

LEMMA ValueAppend ==
  ASSUME NEW s, ValueSeq(s), NEW v, Value(v)
  PROVE  ValueSeq(Append(s, v))
<1>1. PICK z : z = Append(s, v)
  OBVIOUS
<1>2. IsConcat(z, s, <<v>>)
  BY <1>1, AppendFacts DEF ValueSeq
<1>3. PICK m \in Nat : m = Len(s)
  BY DEF ValueSeq, IsSeq
<1>4. IsSeq(z) /\ Len(z) = m + 1 /\ (\A i \in 1 .. m : z[i] = s[i]) /\ z[m + 1] = v
  <2>1. Len(<<v>>) = 1 /\ <<v>>[1] = v
    BY OneIsSeq
  <2> QED
    BY <1>2, <1>3, <2>1 DEF IsConcat
<1>5. ASSUME NEW i \in 1 .. Len(z) PROVE Value(z[i])
  <2>1. i \in 1 .. m \/ i = m + 1
    BY <1>4
  <2> QED
    BY <1>3, <1>4, <2>1 DEF ValueSeq
<1> QED
  BY <1>1, <1>4, <1>5 DEF ValueSeq

LEMMA NatsAre ==
  ASSUME NEW s \in Seq(Nat)
  PROVE  NatSeq(s)
<1>1. \A i \in 1 .. Len(s) : s[i] \in Nat
  OBVIOUS
<1> QED
  BY <1>1, SeqIsSeq DEF NatSeq

LEMMA NatAppend ==
  ASSUME NEW s, NatSeq(s), NEW n \in Nat
  PROVE  NatSeq(Append(s, n))
<1>1. s \in Seq(Nat)
  BY SeqOverRange DEF NatSeq
<1>2. Append(s, n) \in Seq(Nat)
  BY <1>1
<1> QED
  BY <1>2, NatsAre

LEMMA PlainAppend ==
  ASSUME NEW s, ValueSeq(s), \A i \in 1 .. Len(s) : Plain(s[i]), NEW v, Plain(v), NEW z, z = Append(s, v)
  PROVE  ValueSeq(z) /\ \A i \in 1 .. Len(z) : Plain(z[i])
<1>1. IsConcat(z, s, <<v>>)
  BY AppendFacts DEF ValueSeq
<1>2. PICK m \in Nat : m = Len(s)
  BY DEF ValueSeq, IsSeq
<1>3. Len(z) = m + 1 /\ (\A i \in 1 .. m : z[i] = s[i]) /\ z[m + 1] = v
  <2>1. Len(<<v>>) = 1 /\ <<v>>[1] = v
    BY OneIsSeq
  <2> QED
    BY <1>1, <1>2, <2>1 DEF IsConcat
<1>4. ASSUME NEW i \in 1 .. Len(z) PROVE Plain(z[i])
  <2>1. i \in 1 .. m \/ i = m + 1
    BY <1>3
  <2> QED
    BY <1>2, <1>3, <2>1
<1> QED
  BY <1>4, ValueAppend DEF Plain

Ranging(r, s, n) ==
  \E a \in Int, b \in Int, c \in Nat \ {0} :
    r = [n EXCEPT !.indices = Append(@, ARangeOp(a, b, c)), !.collapsed_dims = Append(@, s.in_axis)]

LEMMA VisitSliceIs ==
  ASSUME NEW s, Visiting(s), NEW e, GoodSlice(e), NEW in_shape \in Seq(Int), NEW r, r = VisitSlice(s, e, in_shape),
         NEW n, n = [s EXCEPT !.in_axis = @ + 1, !.out_axis = @ + 1]
  PROVE  r = [s EXCEPT !.ok = FALSE] \/ r = n \/ Ranging(r, s, n)
<1> DEFINE size == IF s.in_axis < Len(in_shape) THEN in_shape[s.in_axis + 1] ELSE Junk
           unit == e.step \in {Absent, 1}
           start == IF unit /\ e.start = 0 /\ ~e.dyn THEN Absent ELSE e.start
           stop == IF unit /\ e.stop # Absent /\ e.stop >= size THEN Absent ELSE e.stop
           step == IF unit THEN Absent ELSE e.step
           whole == start = Absent /\ stop = Absent /\ step \in {Absent, -1}
           a1 == Clipped(start, size, 0)
           b1 == Clipped(stop, size, size)
           c1 == IF unit THEN 1 ELSE step
           ara == IF e.dyn THEN ARangeOp(start, stop, step) ELSE ARangeOp(a1, b1, c1)
           fails == \/ e.dyn /\ unit
                    \/ e.dyn /\ (start = Absent \/ stop = Absent)
                    \/ whole /\ step = -1
                    \/ size = Junk /\ (e.stop # Absent \/ ~whole)
                    \/ ~whole /\ ~e.dyn /\ size = Dyn
           m == [s EXCEPT !.in_axis = @ + 1, !.out_axis = @ + 1]
<1>1. r = IF fails THEN [s EXCEPT !.ok = FALSE]
          ELSE IF whole THEN m
          ELSE [m EXCEPT !.indices = Append(@, ara), !.collapsed_dims = Append(@, s.in_axis)]
  BY DEF VisitSlice
<1>2. size \in Int
  <2>1. s.in_axis < Len(in_shape) => s.in_axis + 1 \in 1 .. Len(in_shape)
    BY DEF Visiting
  <2> QED
    BY <2>1 DEF Junk
<1> HIDE DEF size
<1>3. start \in Int /\ stop \in Int /\ step \in Int
  BY <1>2 DEF GoodSlice, Absent
<1>4. a1 \in Int /\ b1 \in Int /\ c1 \in Int
  <2> HIDE DEF start, stop, step
  <2> QED
    BY <1>2, <1>3 DEF Clipped
<1>5. ~fails /\ ~whole => \E a \in Int, b \in Int, c \in Nat \ {0} : ara = ARangeOp(a, b, c)
  <2> SUFFICES ASSUME ~fails, ~whole PROVE \E a \in Int, b \in Int, c \in Nat \ {0} : ara = ARangeOp(a, b, c)
    OBVIOUS
  <2>1. CASE e.dyn
    <3>1. step \in Nat \ {0}
      BY <2>1 DEF GoodSlice, Absent
    <3> HIDE DEF start, stop, step
    <3> QED
      BY <1>3, <2>1, <3>1
  <2>2. CASE ~e.dyn
    <3>1. c1 \in Nat \ {0}
      BY DEF GoodSlice, Absent
    <3> HIDE DEF a1, b1, c1
    <3> QED
      BY <1>4, <2>2, <3>1
  <2> QED
    BY <2>1, <2>2
<1>6. n = m
  OBVIOUS
<1> HIDE DEF fails, whole, ara, m
<1>7. CASE fails \/ whole
  BY <1>1, <1>6, <1>7
<1>8. CASE ~fails /\ ~whole
  <2>1. PICK a \in Int, b \in Int, c \in Nat \ {0} : ara = ARangeOp(a, b, c)
    BY <1>5, <1>8
  <2>2. r = [n EXCEPT !.indices = Append(@, ARangeOp(a, b, c)), !.collapsed_dims = Append(@, s.in_axis)]
    BY <1>1, <1>6, <1>8, <2>1
  <2>3. Ranging(r, s, n)
    <3> USE DEF Ranging
    <3>1. a \in Int /\ b \in Int /\ c \in Nat \ {0}
      BY <2>1
    <3>2. WITNESS a \in Int, b \in Int, c \in Nat \ {0}
    <3> QED
      BY <2>2
  <2> QED
    BY <2>3
<1> QED
  BY <1>7, <1>8

LEMMA VisitSliceKeeps ==
  ASSUME NEW s, Visiting(s), NEW e, GoodSlice(e), NEW in_shape \in Seq(Int)
  PROVE  /\ Visiting(VisitSlice(s, e, in_shape))
         /\ Plainly(s) => Plainly(VisitSlice(s, e, in_shape))
<1>1. PICK n : n = [s EXCEPT !.in_axis = @ + 1, !.out_axis = @ + 1]
  OBVIOUS
<1>2. Visiting(n) /\ n.indices = s.indices
  BY <1>1 DEF Visiting, VisitFields
<1>3. PICK r : r = VisitSlice(s, e, in_shape)
  OBVIOUS
<1>4. r = [s EXCEPT !.ok = FALSE] \/ r = n \/ Ranging(r, s, n)
  BY <1>1, <1>3, VisitSliceIs, Zenon
<1>5. CASE r = [s EXCEPT !.ok = FALSE]
  <2>1. Visiting(r) /\ r.indices = s.indices
    BY <1>5 DEF Visiting, VisitFields
  <2> QED
    BY <1>3, <2>1 DEF Plainly
<1>6. CASE Ranging(r, s, n)
  <2>1. PICK a \in Int, b \in Int, c \in Nat \ {0} :
          r = [n EXCEPT !.indices = Append(@, ARangeOp(a, b, c)), !.collapsed_dims = Append(@, s.in_axis)]
    BY <1>6 DEF Ranging
  <2>2. PICK v : v = ARangeOp(a, b, c)
    OBVIOUS
  <2>3. Value(v) /\ Spread(v)
    BY <2>2, ARangeOpValue
  <2>4. PICK z : z = Append(n.indices, v)
    OBVIOUS
  <2>5. ValueSeq(z)
    BY <1>2, <2>3, <2>4, ValueAppend DEF Visiting
  <2>6. r = [n EXCEPT !.indices = z, !.collapsed_dims = Append(@, s.in_axis)]
    BY <2>1, <2>2, <2>4
  <2>7. /\ DOMAIN r = VisitFields /\ r.indices = z /\ r.in_axis = n.in_axis /\ r.out_axis = n.out_axis
        /\ r.newaxis_dims = n.newaxis_dims
    BY <1>2, <2>6 DEF Visiting, VisitFields
  <2>8. Visiting(r)
    BY <1>2, <2>5, <2>7 DEF Visiting
  <2>9. ASSUME Plainly(s) PROVE Plainly(r)
    <3>1. Plain(v) /\ ValueSeq(n.indices) /\ \A i \in 1 .. Len(n.indices) : Plain(n.indices[i])
      BY <1>2, <2>3, <2>9 DEF Plain, Plainly, Visiting
    <3> QED
      BY <2>4, <2>7, <3>1, PlainAppend DEF Plainly
  <2> QED
    BY <1>3, <2>8, <2>9
<1> QED
  BY <1>2, <1>3, <1>4, <1>5, <1>6 DEF Plainly

LEMMA ExpandScalar ==
  ASSUME NEW e, Value(e), e.k = "scalar"
  PROVE  Plain(expand_dims(e, <<0, 1>>))
<1>1. PICK nd, r : nd = <<0, 1>> /\ r = expand_dims(e, nd)
  OBVIOUS
<1>2. nd # << >> /\ DOMAIN nd = 1 .. 2
  BY <1>1
<1>3. PICK ones : ones = [i \in DOMAIN nd |-> 1]
  OBVIOUS
<1>4. ones = <<1, 1>> /\ ones \in Seq(Int)
  BY <1>2, <1>3
<1>5. PICK val : val = [dims |-> ones, data |-> e.data]
  OBVIOUS
<1>6. r = as_index_tensor(val) \/ r = [Runtime(e, ones, ones, e.data) EXCEPT !.k = "tensor"]
  BY <1>1, <1>2, <1>3, <1>5 DEF expand_dims
<1>7. CASE r = as_index_tensor(val)
  <2>1. val.dims = ones
    BY <1>5
  <2> QED
    BY <1>1, <1>4, <1>7, <2>1, AsIndexTensorValue DEF Plain, Single
<1>8. CASE r = [Runtime(e, ones, ones, e.data) EXCEPT !.k = "tensor"]
  <2>1. DOMAIN r = ValueFields /\ r.k = "tensor" /\ r.dims = ones /\ r.shape = ones
    BY <1>8 DEF Runtime, Value, ValueFields
  <2>2. Parallel(ones, ones)
    BY <1>4, ParallelSelf
  <2>3. Value(r)
    BY <2>1, <2>2 DEF Value
  <2> QED
    BY <1>1, <1>4, <2>1, <2>3 DEF Plain, Single
<1> QED
  BY <1>6, <1>7, <1>8

LEMMA VisitIndexKeeps ==
  ASSUME NEW s, Visiting(s), NEW idx, GoodTuple(idx), NEW i \in 1 .. Len(idx), NEW in_shape \in Seq(Int)
  PROVE  /\ Visiting(VisitIndex(s, i, idx, in_shape))
         /\ ~is_advanced_int_indexer(idx) /\ Plainly(s) => Plainly(VisitIndex(s, i, idx, in_shape))
<1>1. PICK e : e = idx[i] /\ GoodElem(e)
  BY DEF GoodTuple
<1>2. PICK r : r = VisitIndex(s, i, idx, in_shape)
  OBVIOUS
<1>3. PICK z : z = s.indices \o IndexTensors(idx)
  OBVIOUS
<1>4. ValueSeq(z)
  BY <1>3, IndexTensorsAre, ValueConcat DEF Visiting, ValueSeq
<1>5. \E t, x, y :
        /\ t = s \/ (is_advanced_int_indexer(idx) /\ t = [s EXCEPT !.indices = z, !.collapsed_dims = x, !.ok = y])
        /\ \/ r = t
           \/ e.k = "tensor" /\ r = [t EXCEPT !.in_axis = @ + Last(e.shape)]
           \/ IsScalar(e) /\ r = [t EXCEPT !.indices = Append(@, expand_dims(e, <<0, 1>>)),
                                           !.collapsed_dims = Append(@, t.in_axis), !.in_axis = @ + 1]
           \/ r = [t EXCEPT !.newaxis_dims = Append(@, t.out_axis), !.out_axis = @ + 1]
           \/ e.k = "slice" /\ r = VisitSlice(t, e, in_shape)
           \/ r = [t EXCEPT !.ok = FALSE]
  <2> DEFINE axes == IF is_advanced_int_indexer(idx) THEN {j \in DOMAIN idx : IsIndexTensor(idx[j])} ELSE {}
             contiguous == \A a, b \in axes : \A c \in a .. b : c \in axes
             here == axes # {} /\ i = IF contiguous THEN CHOOSE a \in axes : \A b \in axes : a <= b ELSE 1
             t == IF ~here THEN s
                  ELSE [s EXCEPT !.indices = @ \o IndexTensors(idx),
                                 !.collapsed_dims = compute_idx_tensor_extent(@, idx, axes),
                                 !.ok = @ /\ \A a, b \in axes : idx[a].shape = idx[b].shape]
  <2>1. VisitIndex(s, i, idx, in_shape) =
          IF ~t.ok THEN t ELSE
            CASE i \in axes         -> [t EXCEPT !.in_axis = @ + Last(idx[i].shape)]
              [] IsScalar(idx[i])   -> [t EXCEPT !.indices = Append(@, expand_dims(idx[i], <<0, 1>>)),
                                                 !.collapsed_dims = Append(@, t.in_axis), !.in_axis = @ + 1]
              [] idx[i].k = "None"  -> [t EXCEPT !.newaxis_dims = Append(@, t.out_axis), !.out_axis = @ + 1]
              [] idx[i].k = "slice" -> VisitSlice(t, idx[i], in_shape)
              [] OTHER              -> [t EXCEPT !.ok = FALSE]
    BY DEF VisitIndex
  <2>2. here => is_advanced_int_indexer(idx)
    <3>1. axes # {} => is_advanced_int_indexer(idx)
      OBVIOUS
    <3> HIDE DEF axes, contiguous
    <3> QED
      BY <3>1
  <2>3. \E x, y : t = s \/ (is_advanced_int_indexer(idx) /\ t = [s EXCEPT !.indices = z, !.collapsed_dims = x, !.ok = y])
    <3> HIDE DEF here, axes
    <3> QED
      BY <1>3, <2>2
  <2>4. i \in axes => idx[i].k = "tensor"
    BY DEF IsIndexTensor
  <2> HIDE DEF t, here, axes
  <2>5. \/ r = t
        \/ e.k = "tensor" /\ r = [t EXCEPT !.in_axis = @ + Last(e.shape)]
        \/ IsScalar(e) /\ r = [t EXCEPT !.indices = Append(@, expand_dims(e, <<0, 1>>)),
                                        !.collapsed_dims = Append(@, t.in_axis), !.in_axis = @ + 1]
        \/ r = [t EXCEPT !.newaxis_dims = Append(@, t.out_axis), !.out_axis = @ + 1]
        \/ e.k = "slice" /\ r = VisitSlice(t, e, in_shape)
        \/ r = [t EXCEPT !.ok = FALSE]
    BY <1>1, <1>2, <2>1, <2>4 DEF IsScalar
  <2> QED
    BY <2>3, <2>5, Zenon
<1>6. PICK t : /\ Visiting(t) /\ (~is_advanced_int_indexer(idx) => t = s)
               /\ \/ r = t
                  \/ e.k = "tensor" /\ r = [t EXCEPT !.in_axis = @ + Last(e.shape)]
                  \/ IsScalar(e) /\ r = [t EXCEPT !.indices = Append(@, expand_dims(e, <<0, 1>>)),
                                                  !.collapsed_dims = Append(@, t.in_axis), !.in_axis = @ + 1]
                  \/ r = [t EXCEPT !.newaxis_dims = Append(@, t.out_axis), !.out_axis = @ + 1]
                  \/ e.k = "slice" /\ r = VisitSlice(t, e, in_shape)
                  \/ r = [t EXCEPT !.ok = FALSE]
  <2>1. \A t, x, y : t = [s EXCEPT !.indices = z, !.collapsed_dims = x, !.ok = y] => Visiting(t)
    BY <1>4 DEF Visiting, VisitFields
  <2> QED
    BY <1>5, <2>1, Zenon
<1>7. SUFFICES Visiting(r) /\ (Plainly(t) => Plainly(r))
  BY <1>2, <1>6, Zenon
<1>8. ASSUME NEW u, DOMAIN u = VisitFields, u.in_axis \in Nat, u.out_axis \in Nat, NatSeq(u.newaxis_dims),
             u.indices = t.indices
      PROVE  Visiting(u) /\ (Plainly(t) => Plainly(u))
  BY <1>6, <1>8 DEF Visiting, Plainly
<1>9. CASE e.k = "tensor" /\ r = [t EXCEPT !.in_axis = @ + Last(e.shape)]
  <2>1. PICK w \in Nat : w = Last(e.shape)
    BY <1>1, <1>9 DEF GoodElem
  <2>2. /\ DOMAIN r = VisitFields /\ r.in_axis = t.in_axis + w /\ r.out_axis = t.out_axis
        /\ r.newaxis_dims = t.newaxis_dims /\ r.indices = t.indices
    BY <1>6, <1>9, <2>1 DEF Visiting, VisitFields
  <2>3. r.in_axis \in Nat /\ r.out_axis \in Nat /\ NatSeq(r.newaxis_dims)
    BY <1>6, <2>2 DEF Visiting
  <2> QED
    BY <1>8, <2>2, <2>3, Zenon
<1>10. CASE IsScalar(e) /\ r = [t EXCEPT !.indices = Append(@, expand_dims(e, <<0, 1>>)),
                                         !.collapsed_dims = Append(@, t.in_axis), !.in_axis = @ + 1]
  <2>1. PICK v : v = expand_dims(e, <<0, 1>>)
    OBVIOUS
  <2>2. Value(e) /\ e.k = "scalar"
    BY <1>1, <1>10 DEF IsScalar, GoodElem
  <2>3. Plain(v) /\ Value(v)
    BY <2>1, <2>2, ExpandScalar DEF Plain
  <2>4. PICK w : w = Append(t.indices, v)
    OBVIOUS
  <2>5. ValueSeq(w)
    BY <1>6, <2>3, <2>4, ValueAppend DEF Visiting
  <2>6. r = [t EXCEPT !.indices = w, !.collapsed_dims = Append(@, t.in_axis), !.in_axis = @ + 1]
    BY <1>10, <2>1, <2>4
  <2>7. /\ DOMAIN r = VisitFields /\ r.indices = w /\ r.out_axis = t.out_axis /\ r.newaxis_dims = t.newaxis_dims
        /\ r.in_axis = t.in_axis + 1
    BY <1>6, <2>6 DEF Visiting, VisitFields
  <2>8. Visiting(r)
    BY <1>6, <2>5, <2>7 DEF Visiting
  <2>9. ASSUME Plainly(t) PROVE Plainly(r)
    <3>1. ValueSeq(t.indices) /\ \A j \in 1 .. Len(t.indices) : Plain(t.indices[j])
      BY <1>6, <2>9 DEF Plainly, Visiting
    <3> QED
      BY <2>3, <2>4, <2>7, <3>1, PlainAppend DEF Plainly
  <2> QED
    BY <2>8, <2>9
<1>11. CASE r = [t EXCEPT !.newaxis_dims = Append(@, t.out_axis), !.out_axis = @ + 1]
  <2>1. PICK w : w = Append(t.newaxis_dims, t.out_axis)
    OBVIOUS
  <2>2. NatSeq(w)
    BY <1>6, <2>1, NatAppend DEF Visiting
  <2>3. r = [t EXCEPT !.newaxis_dims = w, !.out_axis = @ + 1]
    BY <1>11, <2>1
  <2>4. /\ DOMAIN r = VisitFields /\ r.indices = t.indices /\ r.in_axis = t.in_axis
        /\ r.out_axis = t.out_axis + 1 /\ r.newaxis_dims = w
    BY <1>6, <2>3 DEF Visiting, VisitFields
  <2>5. r.in_axis \in Nat /\ r.out_axis \in Nat /\ NatSeq(r.newaxis_dims)
    BY <1>6, <2>2, <2>4 DEF Visiting
  <2> QED
    BY <1>8, <2>4, <2>5, Zenon
<1>12. CASE e.k = "slice" /\ r = VisitSlice(t, e, in_shape)
  <2>1. GoodSlice(e)
    BY <1>1, <1>12 DEF GoodElem
  <2> QED
    BY <1>6, <1>12, <2>1, VisitSliceKeeps
<1>13. CASE r = [t EXCEPT !.ok = FALSE]
  <2>1. /\ DOMAIN r = VisitFields /\ r.indices = t.indices /\ r.in_axis = t.in_axis
        /\ r.out_axis = t.out_axis /\ r.newaxis_dims = t.newaxis_dims
    BY <1>6, <1>13 DEF Visiting, VisitFields
  <2>2. r.in_axis \in Nat /\ r.out_axis \in Nat /\ NatSeq(r.newaxis_dims)
    BY <1>6, <2>1 DEF Visiting
  <2> QED
    BY <1>8, <2>1, <2>2, Zenon
<1>14. CASE r = t
  BY <1>6, <1>14
<1> QED
  BY <1>6, <1>9, <1>10, <1>11, <1>12, <1>13, <1>14

-----------------------------------------------------------------------------
(* Elements and their places.                                              *)

Multiplies(p, s, l) == p[0] = 1 /\ Product(s) = p[l] /\ \A i \in 1 .. l : p[i] = p[i - 1] * s[i]

LEMMA ProductIs ==
  ASSUME NEW s, NEW l \in Nat, l = Len(s)
  PROVE  \E p : Multiplies(p, s, l)
<1> DEFINE Body(g, i) == IF i = 0 THEN 1 ELSE g[i - 1] * s[i]
           Is(g, k) == g = [i \in 0 .. k |-> Body(g, i)]
           T == {k \in 0 .. l : ~ \E g : Is(g, k)}
<1>1. T = {}
  <2> SUFFICES ASSUME T # {} PROVE FALSE
    OBVIOUS
  <2>1. PICK k \in T : \A j \in T : k <= j
    <3>1. T \in SUBSET Nat
      <4> HIDE DEF Is
      <4> QED
        OBVIOUS
    <3> HIDE DEF T
    <3> QED
      BY <3>1, Least
  <2>2. k \in 0 .. l /\ ~ \E g : Is(g, k)
    OBVIOUS
  <2>3. CASE k = 0
    <3>1. PICK g : g = [i \in 0 .. 0 |-> 1]
      OBVIOUS
    <3>2. g = [i \in 0 .. 0 |-> Body(g, i)]
      BY <3>1
    <3> QED
      BY <2>2, <2>3, <3>2
  <2>4. CASE k # 0
    <3>1. k - 1 \in 0 .. l /\ ~ (k <= k - 1)
      BY <2>2, <2>4
    <3>2. k - 1 \notin T
      BY <2>1, <3>1
    <3>3. PICK g : Is(g, k - 1)
      BY <3>1, <3>2
    <3>4. PICK h : h = [i \in 0 .. k |-> IF i < k THEN g[i] ELSE Body(g, k)]
      OBVIOUS
    <3>5. \A i \in 0 .. k - 1 : h[i] = g[i] /\ g[i] = Body(g, i)
      <4> HIDE DEF Body
      <4>1. \A i \in 0 .. k - 1 : g[i] = Body(g, i)
        BY <3>3
      <4>2. \A i \in 0 .. k - 1 : i \in 0 .. k /\ i < k
        BY <2>2
      <4>3. \A i \in 0 .. k - 1 : h[i] = g[i]
        BY <3>4, <4>2
      <4> QED
        BY <4>1, <4>3
    <3>6. \A i \in 0 .. k : h[i] = Body(h, i)
      <4> SUFFICES ASSUME NEW i \in 0 .. k PROVE h[i] = Body(h, i)
        OBVIOUS
      <4>1. i = 0 \/ h[i - 1] = g[i - 1]
        BY <2>2, <3>5
      <4>2. Body(h, i) = Body(g, i)
        BY <4>1
      <4>3. CASE i < k
        BY <2>2, <3>5, <4>2, <4>3
      <4>4. CASE i = k
        BY <2>2, <3>4, <4>2, <4>4
      <4> QED
        BY <2>2, <4>3, <4>4
    <3>7. Is(h, k)
      BY <3>4, <3>6
    <3> QED
      BY <2>2, <3>7
  <2> QED
    BY <2>3, <2>4
<1>2. \E g : Is(g, l)
  <2> HIDE DEF Is
  <2> QED
    BY <1>1
<1>3. Product(s) = (CHOOSE g : Is(g, l))[l]
  BY DEF Product
<1>4. PICK m : Is(m, l) /\ Product(s) = m[l]
  <2> HIDE DEF Is
  <2> QED
    BY <1>2, <1>3
<1>5. \A i \in 0 .. l : m[i] = Body(m, i)
  <2>1. m = [i \in 0 .. l |-> Body(m, i)]
    BY <1>4
  <2> HIDE DEF Body
  <2> QED
    BY <2>1
<1>6. m[0] = 1
  BY <1>5
<1>7. ASSUME NEW i \in 1 .. l PROVE m[i] = m[i - 1] * s[i]
  <2>1. i \in 0 .. l /\ i # 0
    OBVIOUS
  <2> QED
    BY <1>5, <2>1
<1> QED
  BY <1>4, <1>6, <1>7 DEF Multiplies

Adds(p, s, l) == p[0] = 0 /\ Total(s) = p[l] /\ \A i \in 1 .. l : p[i] = p[i - 1] + s[i]

LEMMA TotalIs ==
  ASSUME NEW s, NEW l \in Nat, l = Len(s)
  PROVE  \E p : Adds(p, s, l)
<1> DEFINE Body(g, i) == IF i = 0 THEN 0 ELSE g[i - 1] + s[i]
           Is(g, k) == g = [i \in 0 .. k |-> Body(g, i)]
           T == {k \in 0 .. l : ~ \E g : Is(g, k)}
<1>1. T = {}
  <2> SUFFICES ASSUME T # {} PROVE FALSE
    OBVIOUS
  <2>1. PICK k \in T : \A j \in T : k <= j
    <3>1. T \in SUBSET Nat
      <4> HIDE DEF Is
      <4> QED
        OBVIOUS
    <3> HIDE DEF T
    <3> QED
      BY <3>1, Least
  <2>2. k \in 0 .. l /\ ~ \E g : Is(g, k)
    OBVIOUS
  <2>3. CASE k = 0
    <3>1. PICK g : g = [i \in 0 .. 0 |-> 0]
      OBVIOUS
    <3>2. g = [i \in 0 .. 0 |-> Body(g, i)]
      BY <3>1
    <3> QED
      BY <2>2, <2>3, <3>2
  <2>4. CASE k # 0
    <3>1. k - 1 \in 0 .. l /\ ~ (k <= k - 1)
      BY <2>2, <2>4
    <3>2. k - 1 \notin T
      BY <2>1, <3>1
    <3>3. PICK g : Is(g, k - 1)
      BY <3>1, <3>2
    <3>4. PICK h : h = [i \in 0 .. k |-> IF i < k THEN g[i] ELSE Body(g, k)]
      OBVIOUS
    <3>5. \A i \in 0 .. k - 1 : h[i] = g[i] /\ g[i] = Body(g, i)
      <4> HIDE DEF Body
      <4>1. \A i \in 0 .. k - 1 : g[i] = Body(g, i)
        BY <3>3
      <4>2. \A i \in 0 .. k - 1 : i \in 0 .. k /\ i < k
        BY <2>2
      <4>3. \A i \in 0 .. k - 1 : h[i] = g[i]
        BY <3>4, <4>2
      <4> QED
        BY <4>1, <4>3
    <3>6. \A i \in 0 .. k : h[i] = Body(h, i)
      <4> SUFFICES ASSUME NEW i \in 0 .. k PROVE h[i] = Body(h, i)
        OBVIOUS
      <4>1. i = 0 \/ h[i - 1] = g[i - 1]
        BY <2>2, <3>5
      <4>2. Body(h, i) = Body(g, i)
        BY <4>1
      <4>3. CASE i < k
        BY <2>2, <3>5, <4>2, <4>3
      <4>4. CASE i = k
        BY <2>2, <3>4, <4>2, <4>4
      <4> QED
        BY <2>2, <4>3, <4>4
    <3>7. Is(h, k)
      BY <3>4, <3>6
    <3> QED
      BY <2>2, <3>7
  <2> QED
    BY <2>3, <2>4
<1>2. \E g : Is(g, l)
  <2> HIDE DEF Is
  <2> QED
    BY <1>1
<1>3. Total(s) = (CHOOSE g : Is(g, l))[l]
  BY DEF Total
<1>4. PICK m : Is(m, l) /\ Total(s) = m[l]
  <2> HIDE DEF Is
  <2> QED
    BY <1>2, <1>3
<1>5. \A i \in 0 .. l : m[i] = Body(m, i)
  <2>1. m = [i \in 0 .. l |-> Body(m, i)]
    BY <1>4
  <2> HIDE DEF Body
  <2> QED
    BY <2>1
<1>6. m[0] = 0
  BY <1>5
<1>7. ASSUME NEW i \in 1 .. l PROVE m[i] = m[i - 1] + s[i]
  <2>1. i \in 0 .. l /\ i # 0
    OBVIOUS
  <2> QED
    BY <1>5, <2>1
<1> QED
  BY <1>4, <1>6, <1>7 DEF Adds

LEMMA Pair ==
  ASSUME NEW a, NEW b, NEW s, s = <<a, b>>
  PROVE  IsSeq(s) /\ Len(s) = 2 /\ s[1] = a /\ s[2] = b /\ DOMAIN s = 1 .. 2
<1>1. s \in Seq({a, b}) /\ Len(s) = 2 /\ s[1] = a /\ s[2] = b /\ DOMAIN s = 1 .. 2
  OBVIOUS
<1> QED
  BY <1>1, SeqIsSeq

LEMMA PairIs ==
  ASSUME NEW s, IsSeq(s), Len(s) = 2
  PROVE  s = <<s[1], s[2]>>
<1>1. PICK z : z = <<s[1], s[2]>>
  OBVIOUS
<1>2. IsSeq(z) /\ Len(z) = 2 /\ z[1] = s[1] /\ z[2] = s[2]
  BY <1>1, Pair
<1>3. \A i \in 1 .. 2 : s[i] = z[i]
  <2>1. \A i \in 1 .. 2 : i = 1 \/ i = 2
    OBVIOUS
  <2> QED
    BY <1>2, <2>1
<1> QED
  BY <1>1, <1>2, <1>3 DEF IsSeq

LEMMA SingleIs ==
  ASSUME NEW s, IsSeq(s), Len(s) = 1
  PROVE  s = <<s[1]>>
<1>1. PICK z : z = <<s[1]>>
  OBVIOUS
<1>2. IsSeq(z) /\ Len(z) = 1 /\ z[1] = s[1]
  BY <1>1, OneIsSeq
<1>3. \A i \in 1 .. 1 : s[i] = z[i]
  BY <1>2
<1> QED
  BY <1>1, <1>2, <1>3 DEF IsSeq

LEMMA SmallFolds ==
  ASSUME NEW a \in Int, NEW b \in Int
  PROVE  Product(<< >>) = 1 /\ Product(<<a>>) = a /\ Product(<<a, b>>) = a * b /\ Total(<<a, b>>) = a + b
<1>1. Product(<< >>) = 1
  <2>1. PICK s : s = << >>
    OBVIOUS
  <2>2. 0 = Len(s) /\ 0 \in Nat
    BY <2>1
  <2>3. PICK p : Multiplies(p, s, 0)
    BY <2>2, ProductIs, Zenon
  <2> QED
    BY <2>1, <2>3 DEF Multiplies
<1>2. Product(<<a>>) = a
  <2>1. PICK s : s = <<a>>
    OBVIOUS
  <2>2. 1 = Len(s) /\ 1 \in Nat /\ s[1] = a
    BY <2>1
  <2>3. PICK p : Multiplies(p, s, 1)
    BY <2>2, ProductIs, Zenon
  <2>4. p[1] = p[0] * s[1] /\ p[0] = 1 /\ Product(s) = p[1]
    BY <2>3 DEF Multiplies
  <2> QED
    BY <2>1, <2>2, <2>4
<1>3. PICK s : s = <<a, b>>
  OBVIOUS
<1>4. 2 = Len(s) /\ 2 \in Nat /\ s[1] = a /\ s[2] = b
  BY <1>3
<1>5. Product(s) = a * b
  <2>1. PICK p : Multiplies(p, s, 2)
    BY <1>4, ProductIs, Zenon
  <2>2. p[1] = p[0] * s[1] /\ p[2] = p[1] * s[2] /\ p[0] = 1 /\ Product(s) = p[2]
    BY <2>1 DEF Multiplies
  <2>3. p[1] = a
    BY <1>4, <2>2
  <2> QED
    BY <1>4, <2>2, <2>3
<1>6. Total(s) = a + b
  <2>1. PICK p : Adds(p, s, 2)
    BY <1>4, TotalIs, Zenon
  <2>2. p[1] = p[0] + s[1] /\ p[2] = p[1] + s[2] /\ p[0] = 0 /\ Total(s) = p[2]
    BY <2>1 DEF Adds
  <2> QED
    BY <1>4, <2>2
<1> QED
  BY <1>1, <1>2, <1>3, <1>5, <1>6

(* A tensor of rank two.                                                   *)
LEMMA Strides ==
  ASSUME NEW n \in Int, NEW w \in Int, NEW dims, dims = <<n, w>>
  PROVE  /\ Stride(dims, 1) = w /\ Stride(dims, 2) = 1 /\ Product(dims) = n * w
         /\ Front(dims) = <<n>> /\ Last(dims) = w /\ Product(Front(dims)) = n /\ DOMAIN dims = 1 .. 2
<1>1. IsSeq(dims) /\ Len(dims) = 2 /\ dims[1] = n /\ dims[2] = w /\ DOMAIN dims = 1 .. 2
  BY Pair
<1>2. ASSUME NEW i \in 1 .. 2 PROVE SubSeq(dims, i, i) = <<dims[i]>>
  <2>1. PICK z : z = SubSeq(dims, i, i)
    OBVIOUS
  <2>2. i \in Nat /\ 1 <= i /\ i <= i + 1 /\ i <= Len(dims)
    BY <1>1
  <2>3. IsPart(z, dims, i, i)
    BY <1>1, <2>1, <2>2, PartFacts, Zenon
  <2>4. IsSeq(z) /\ Len(z) = 1 /\ z[1] = dims[i]
    BY <2>3 DEF IsPart
  <2> QED
    BY <2>1, <2>4, SingleIs
<1>3. SubSeq(dims, 3, 2) = << >>
  <2>1. PICK z : z = SubSeq(dims, 3, 2)
    OBVIOUS
  <2>2. 3 \in Nat /\ 2 \in Nat /\ 1 <= 3 /\ 3 <= 2 + 1 /\ 2 <= Len(dims)
    BY <1>1
  <2>3. IsPart(z, dims, 3, 2)
    BY <1>1, <2>1, <2>2, PartFacts, Zenon
  <2>4. IsSeq(z) /\ Len(z) = 0
    BY <2>3 DEF IsPart
  <2> QED
    BY <2>1, <2>4, EmptyIffLen0
<1>4. SubSeq(dims, 1, 1) = <<n>> /\ SubSeq(dims, 2, 2) = <<w>>
  BY <1>1, <1>2
<1>5. Front(dims) = <<n>> /\ Last(dims) = w
  BY <1>1, <1>4 DEF Front, Last
<1>6. Stride(dims, 1) = Product(<<w>>) /\ Stride(dims, 2) = Product(<< >>)
  <2>1. 1 + 1 = 2 /\ 2 + 1 = 3
    OBVIOUS
  <2> QED
    BY <1>1, <1>3, <1>4, <2>1 DEF Stride
<1> QED
  BY <1>1, <1>5, <1>6, SmallFolds

LEMMA CoordRow ==
  ASSUME NEW n \in Nat, NEW w \in Nat \ {0}, NEW j \in 0 .. n - 1, NEW dims, dims = <<n, w>>
  PROVE  Coord(dims, j * w + 1) = <<j, 0>> /\ j * w + 1 \in 1 .. n * w
<1>1. Stride(dims, 1) = w /\ Stride(dims, 2) = 1 /\ DOMAIN dims = 1 .. 2 /\ dims[1] = n /\ dims[2] = w
  BY Strides
<1>2. PICK k \in Int : k = j * w
  OBVIOUS
<1>3. k \div w = j /\ k % w = 0
  <2>1. k = w * j + 0 /\ 0 < w /\ 0 \in Nat /\ j \in Int
    BY <1>2
  <2> QED
    BY <2>1, Quotient
<1>4. j % n = j
  <2>1. j = n * 0 + j /\ j < n /\ n \in Nat \ {0} /\ j \in Nat /\ 0 \in Int /\ j \in Int
    OBVIOUS
  <2> QED
    BY <2>1, Quotient
<1>5. k \div 1 = k
  <2>1. k = 1 * k + 0 /\ 0 < 1 /\ 0 \in Nat /\ 1 \in Nat \ {0}
    OBVIOUS
  <2> QED
    BY <2>1, Quotient
<1>6. PICK c : c = Coord(dims, k + 1)
  OBVIOUS
<1>7. k + 1 - 1 = k
  OBVIOUS
<1>8. c = [i \in 1 .. 2 |-> (k \div Stride(dims, i)) % dims[i]]
  BY <1>1, <1>6, <1>7 DEF Coord
<1>9. c[1] = j /\ c[2] = 0
  BY <1>1, <1>3, <1>4, <1>5, <1>8
<1>10. c = <<j, 0>>
  BY <1>8, <1>9
<1>11. j * w + 1 \in 1 .. n * w
  <2>1. PICK d \in Nat : n = j + 1 + d
    <3>1. n - j - 1 \in Nat /\ n = j + 1 + (n - j - 1)
      OBVIOUS
    <3> QED
      BY <3>1
  <2>2. n * w = j * w + w + d * w
    BY <2>1
  <2>3. j * w \in Nat /\ d * w \in Nat
    OBVIOUS
  <2> QED
    BY <2>2, <2>3
<1> QED
  BY <1>2, <1>6, <1>10, <1>11

LEMMA AtRow ==
  ASSUME NEW n \in Nat, NEW j \in 0 .. n - 1, NEW t, t.dims = <<n, 1>>
  PROVE  At(t, <<j, 0>>) = t.data[j + 1]
<1>1. PICK dims : dims = t.dims /\ dims = <<n, 1>>
  OBVIOUS
<1>2. Stride(dims, 1) = 1 /\ Stride(dims, 2) = 1 /\ DOMAIN dims = 1 .. 2 /\ dims[1] = n /\ dims[2] = 1
  BY <1>1, Strides
<1>0. PICK c : c = <<j, 0>>
  OBVIOUS
<1>3. c = <<j, 0>> /\ c[1] = j /\ c[2] = 0
  BY <1>0
<1>4. InRange(dims, c)
  BY <1>2, <1>3 DEF InRange
<1>5. PICK s : s = [i \in DOMAIN dims |-> c[i] * Stride(dims, i)]
  OBVIOUS
<1>6. s = <<j, 0>>
  <2>1. s[1] = j /\ s[2] = 0 /\ s = [i \in 1 .. 2 |-> s[i]]
    BY <1>2, <1>3, <1>5
  <2> QED
    BY <2>1
<1>7. Total(s) = j + 0
  <2>1. j \in Int /\ 0 \in Int
    OBVIOUS
  <2>2. Total(<<j, 0>>) = j + 0
    BY <2>1, SmallFolds, Zenon
  <2> QED
    BY <1>6, <2>2
<1>8. Position(dims, c) = j + 1
  BY <1>5, <1>7 DEF Position
<1> QED
  BY <1>1, <1>3, <1>4, <1>8 DEF At

DistinctRows(f, n) == \A i, j \in 0 .. n - 1 : f[i] = f[j] => i = j
RowsOf(f, n) == {f[j] : j \in 0 .. n - 1}

LEMMA RowCount ==
  ASSUME NEW n \in Nat, NEW f, DistinctRows(f, n)
  PROVE  Cardinality(RowsOf(f, n)) = n
<1> DEFINE S == 0 .. n - 1
           T == {f[j] : j \in S}
<1>1. IsFiniteSet(S) /\ Cardinality(S) = n
  <2>1. 0 \in Int /\ n - 1 \in Int
    OBVIOUS
  <2>2. IsFiniteSet(0 .. n - 1) /\ Cardinality(0 .. n - 1) = IF 0 > n - 1 THEN 0 ELSE n - 1 - 0 + 1
    BY <2>1, FS_Interval, Zenon
  <2> QED
    BY <2>2
<1>2. PICK g : g = [j \in S |-> f[j]]
  OBVIOUS
<1>3. g \in Bijection(S, T)
  <2>1. g \in [S -> T]
    BY <1>2
  <2>2. \A t \in T : \E j \in S : g[j] = t
    BY <1>2
  <2>3. \A i, j \in S : g[i] = g[j] => i = j
    BY <1>2 DEF DistinctRows
  <2> HIDE DEF S, T
  <2> QED
    BY <2>1, <2>2, <2>3, Zenon DEF Bijection, Injection, Surjection, IsInjective
<1>4. ExistsBijection(S, T)
  BY <1>3 DEF ExistsBijection
<1> HIDE DEF S, T
<1>5. Cardinality(T) = Cardinality(S)
  BY <1>1, <1>4, FS_Bijection
<1> QED
  BY <1>1, <1>5 DEF RowsOf, T, S

LEMMA AppendPair ==
  ASSUME NEW a, NEW b
  PROVE  Append(<<a>>, b) = <<a, b>>
<1>1. PICK z : z = Append(<<a>>, b)
  OBVIOUS
<1>2. IsSeq(<<a>>) /\ Len(<<a>>) = 1 /\ <<a>>[1] = a /\ Len(<<b>>) = 1 /\ <<b>>[1] = b
  BY OneIsSeq, Zenon
<1>3. IsConcat(z, <<a>>, <<b>>)
  BY <1>1, <1>2, AppendFacts, Zenon
<1>4. IsSeq(z) /\ Len(z) = 2 /\ z[1] = a /\ z[2] = b
  BY <1>2, <1>3 DEF IsConcat
<1> QED
  BY <1>1, <1>4, PairIs, Zenon

(* Ranges and scalars side by side: no coordinate twice.                   *)
LEMMA JoinedDistinct ==
  ASSUME NEW tens, ValueSeq(tens), tens # << >>, \A i \in 1 .. Len(tens) : Plain(tens[i]),
         \A i \in DOMAIN tens : tens[i].shape = tens[1].shape,
         NEW t, IsJoined(t, tens), Defined(t)
  PROVE  DistinctCoordinates(t)
<1>1. PICK w \in Nat \ {0} : w = Len(tens) /\ DOMAIN tens = 1 .. w
  <2>1. Len(tens) \in Nat /\ Len(tens) # 0 /\ DOMAIN tens = 1 .. Len(tens)
    BY EmptyIffLen0 DEF ValueSeq, IsSeq
  <2> QED
    BY <2>1
<1>2. Plain(tens[1])
  BY <1>1
<1>3. PICK n \in Nat : tens[1].dims = <<n, 1>>
  <2>1. Single(tens[1]) => tens[1].dims = <<1, 1>>
    BY DEF Single
  <2>2. Spread(tens[1]) => \E n \in Nat : tens[1].dims = <<n, 1>>
    BY DEF Spread
  <2> QED
    BY <1>2, <2>1, <2>2 DEF Plain
<1>4. PICK first : first = tens[1].dims /\ first = <<n, 1>>
  BY <1>3
<1>5. Front(first) = <<n>> /\ Last(first) = 1
  BY <1>4, Strides
<1>6. t.dims = <<n, w>>
  <2>1. w * 1 = w
    OBVIOUS
  <2>2. Append(<<n>>, w * 1) = <<n, w>>
    BY <2>1, AppendPair, Zenon
  <2> QED
    BY <1>1, <1>4, <1>5, <2>2 DEF IsJoined
<1>7. PICK dims : dims = t.dims /\ dims = <<n, w>>
  BY <1>6
<1>8. Product(dims) = n * w /\ Last(dims) = w /\ Product(Front(dims)) = n
  BY <1>7, Strides
<1>9. PICK row : row = [j \in 0 .. n - 1 |-> SubSeq(t.data, j * w + 1, (j + 1) * w)]
  OBVIOUS
<1>10. Coordinates(t) = {row[j] : j \in 0 .. n - 1}
  BY <1>7, <1>8, <1>9 DEF Coordinates
<1>11. SUFFICES \A i, j \in 0 .. n - 1 : row[i] = row[j] => i = j
  <2>1. DistinctRows(row, n) => Cardinality(RowsOf(row, n)) = n
    BY <1>3, RowCount, Zenon
  <2>2. Product(Front(t.dims)) = n
    BY <1>7, <1>8
  <2> QED
    BY <1>10, <2>1, <2>2, Zenon DEF DistinctCoordinates, DistinctRows, RowsOf
<1>12. CASE n = 1 \/ n = 0
  BY <1>12
<1>13. CASE n # 1 /\ n # 0
  <2>1. Spread(tens[1])
    <3>1. tens[1].dims # <<1, 1>>
      BY <1>3, <1>13
    <3> QED
      BY <1>2, <3>1 DEF Plain, Single
  <2>2. \A i, j \in 1 .. n : tens[1].data[i] = tens[1].data[j] => i = j
    <3>1. PICK m \in Nat : tens[1].dims = <<m, 1>> /\ \A i, j \in 1 .. m : tens[1].data[i] = tens[1].data[j] => i = j
      BY <2>1 DEF Spread
    <3>2. m = n
      BY <1>3, <3>1
    <3> QED
      BY <3>1, <3>2
  <2>3. CASE \E i \in DOMAIN tens : tens[i].dims # tens[1].dims
    <3>1. t.data = [k \in 1 .. n * w |-> Junk]
      BY <1>7, <1>8, <2>3 DEF IsJoined
    <3>2. 1 \in 1 .. n * w
      BY <1>13
    <3> QED
      BY <3>1, <3>2 DEF Defined
  <2>4. CASE ~ \E i \in DOMAIN tens : tens[i].dims # tens[1].dims
    <3> DEFINE Elem(c) == At(tens[Last(c) \div 1 + 1], Append(Front(c), Last(c) % 1))
    <3>1. t.data = [k \in 1 .. n * w |-> Elem(Coord(dims, k))]
      BY <1>4, <1>5, <1>7, <1>8, <2>4 DEF IsJoined, Filled
    <3>2. ASSUME NEW j \in 0 .. n - 1 PROVE t.data[j * w + 1] = tens[1].data[j + 1] /\ j * w + 1 \in 1 .. n * w
      <4>1. Coord(dims, j * w + 1) = <<j, 0>> /\ j * w + 1 \in 1 .. n * w
        BY <1>7, CoordRow
      <4>2. PICK c : c = <<j, 0>>
        OBVIOUS
      <4>3. Front(c) = <<j>> /\ Last(c) = 0
        BY <4>2, Strides
      <4>4. 0 \div 1 + 1 = 1 /\ 0 % 1 = 0 /\ Append(<<j>>, 0) = <<j, 0>>
        <5>1. 0 \div 1 = 0 /\ 0 % 1 = 0
          OBVIOUS
        <5>2. 0 \div 1 + 1 = 1
          BY <5>1
        <5> QED
          BY <5>1, <5>2, AppendPair, Zenon
      <4>5. Elem(c) = At(tens[1], <<j, 0>>)
        BY <4>3, <4>4
      <4>6. At(tens[1], <<j, 0>>) = tens[1].data[j + 1]
        BY <1>3, AtRow
      <4>7. t.data[j * w + 1] = Elem(Coord(dims, j * w + 1))
        <5> HIDE DEF Elem
        <5> QED
          BY <3>1, <4>1
      <4> QED
        BY <4>1, <4>2, <4>5, <4>6, <4>7
    <3>3. PICK l \in Nat : l = n * w
      OBVIOUS
    <3>4. t.data = [k \in 1 .. l |-> t.data[k]]
      <4> HIDE DEF Elem
      <4> QED
        BY <3>1, <3>3
    <3>5. IsSeq(t.data) /\ Len(t.data) = l
      BY <3>4, FunIsSeq
    <3>6. ASSUME NEW j \in 0 .. n - 1 PROVE row[j][1] = tens[1].data[j + 1]
      <4>1. PICK a \in Nat, b \in Nat : a = j * w + 1 /\ b = (j + 1) * w
        OBVIOUS
      <4>2. PICK z : z = SubSeq(t.data, a, b)
        OBVIOUS
      <4>3. 1 <= a /\ a <= b /\ b <= l
        <5>1. PICK d \in Nat : n = j + 1 + d
          <6>1. n - j - 1 \in Nat /\ n = j + 1 + (n - j - 1)
            OBVIOUS
          <6> QED
            BY <6>1
        <5>2. n * w = (j + 1) * w + d * w /\ (j + 1) * w = j * w + w
          BY <5>1
        <5>3. j * w \in Nat /\ d * w \in Nat
          OBVIOUS
        <5> QED
          BY <3>3, <4>1, <5>2, <5>3
      <4>4. a <= b + 1 /\ b <= Len(t.data)
        BY <3>5, <4>3
      <4>5. IsPart(z, t.data, a, b)
        BY <3>5, <4>2, <4>3, <4>4, PartFacts
      <4>6. 1 \in 1 .. b - a + 1 /\ a + 1 - 1 = a
        BY <4>3
      <4>7. z[1] = t.data[a]
        BY <4>5, <4>6 DEF IsPart
      <4>8. row[j] = z
        BY <1>9, <4>1, <4>2
      <4> QED
        BY <3>2, <4>1, <4>7, <4>8
    <3>7. ASSUME NEW i \in 0 .. n - 1, NEW j \in 0 .. n - 1, row[i] = row[j] PROVE i = j
      <4>1. tens[1].data[i + 1] = tens[1].data[j + 1] /\ i + 1 \in 1 .. n /\ j + 1 \in 1 .. n
        BY <3>6, <3>7
      <4>2. i + 1 = j + 1
        BY <2>2, <4>1
      <4> QED
        BY <4>2
    <3> QED
      BY <3>7
  <2> QED
    BY <2>3, <2>4
<1> QED
  BY <1>12, <1>13

\* An indexer that is marked unique has no coordinate twice.
MarkedRightly(x) == x.unique /\ Defined(x.indices) => DistinctCoordinates(x.indices)

\* An indexer that was made: its index tensor's type says what it is.
GoodIndexer(x) ==
  \/ x = Raised
  \/ /\ NatSeq(x.newaxis_dims) /\ MarkedRightly(x)
     /\ x.indices = NoneIndex \/ Parallel(Front(x.indices.dims), Front(x.indices.shape))

VisitsTo(f, idx, in_shape, l) ==
  /\ f[0] = [in_axis |-> 0, out_axis |-> 0, collapsed_dims |-> << >>, indices |-> << >>,
             newaxis_dims |-> << >>, ok |-> TRUE]
  /\ \A i \in 1 .. l : f[i] = VisitIndex(f[i - 1], i, idx, in_shape)
  /\ \A elems : canonicalize_tuple_index(elems, Len(in_shape)) = idx =>
       indices_to_indexer(elems, in_shape) =
         Indexer(f[l], IF f[l].indices = << >> THEN NoneIndex ELSE concatenate(f[l].indices),
                 is_advanced_int_indexer(idx))

LEMMA VisitedIs ==
  ASSUME NEW idx, NEW in_shape, NEW l \in Nat, l = Len(idx)
  PROVE  \E f : VisitsTo(f, idx, in_shape, l)
<1> DEFINE First == [in_axis |-> 0, out_axis |-> 0, collapsed_dims |-> << >>, indices |-> << >>,
                     newaxis_dims |-> << >>, ok |-> TRUE]
<1> HIDE DEF First
<1> DEFINE Body(g, i) == IF i = 0 THEN First ELSE VisitIndex(g[i - 1], i, idx, in_shape)
           Is(g, k) == g = [i \in 0 .. k |-> Body(g, i)]
           T == {k \in 0 .. l : ~ \E g : Is(g, k)}
<1>1. T = {}
  <2> SUFFICES ASSUME T # {} PROVE FALSE
    OBVIOUS
  <2>1. PICK k \in T : \A j \in T : k <= j
    <3>1. T \in SUBSET Nat
      <4> HIDE DEF Is
      <4> QED
        OBVIOUS
    <3> HIDE DEF T
    <3> QED
      BY <3>1, Least
  <2>2. k \in 0 .. l /\ ~ \E g : Is(g, k)
    OBVIOUS
  <2>3. CASE k = 0
    <3>1. PICK g : g = [i \in 0 .. 0 |-> First]
      OBVIOUS
    <3>2. g = [i \in 0 .. 0 |-> Body(g, i)]
      BY <3>1
    <3> QED
      BY <2>2, <2>3, <3>2
  <2>4. CASE k # 0
    <3>1. k - 1 \in 0 .. l /\ ~ (k <= k - 1)
      BY <2>2, <2>4
    <3>2. k - 1 \notin T
      BY <2>1, <3>1
    <3>3. PICK g : Is(g, k - 1)
      BY <3>1, <3>2
    <3>4. PICK h : h = [i \in 0 .. k |-> IF i < k THEN g[i] ELSE Body(g, k)]
      OBVIOUS
    <3>5. \A i \in 0 .. k - 1 : h[i] = g[i] /\ g[i] = Body(g, i)
      <4> HIDE DEF Body
      <4>1. \A i \in 0 .. k - 1 : g[i] = Body(g, i)
        BY <3>3
      <4>2. \A i \in 0 .. k - 1 : i \in 0 .. k /\ i < k
        BY <2>2
      <4>3. \A i \in 0 .. k - 1 : h[i] = g[i]
        BY <3>4, <4>2
      <4> QED
        BY <4>1, <4>3
    <3>6. \A i \in 0 .. k : h[i] = Body(h, i)
      <4> SUFFICES ASSUME NEW i \in 0 .. k PROVE h[i] = Body(h, i)
        OBVIOUS
      <4>1. i = 0 \/ h[i - 1] = g[i - 1]
        BY <2>2, <3>5
      <4>2. Body(h, i) = Body(g, i)
        BY <4>1
      <4>3. CASE i < k
        BY <2>2, <3>5, <4>2, <4>3
      <4>4. CASE i = k
        BY <2>2, <3>4, <4>2, <4>4
      <4> QED
        BY <2>2, <4>3, <4>4
    <3>7. Is(h, k)
      BY <3>4, <3>6
    <3> QED
      BY <2>2, <3>7
  <2> QED
    BY <2>3, <2>4
<1>2. \E g : Is(g, l)
  <2> HIDE DEF Is
  <2> QED
    BY <1>1
<1>3. PICK m : Is(m, l) /\ m = CHOOSE g : Is(g, l)
  <2> HIDE DEF Is
  <2> QED
    BY <1>2
<1>4. \A i \in 0 .. l : m[i] = Body(m, i)
  <2>1. m = [i \in 0 .. l |-> Body(m, i)]
    BY <1>3
  <2> HIDE DEF Body
  <2> QED
    BY <2>1
<1>5. m[0] = First
  BY <1>4
<1>6. ASSUME NEW i \in 1 .. l PROVE m[i] = VisitIndex(m[i - 1], i, idx, in_shape)
  <2>1. i \in 0 .. l /\ i # 0
    OBVIOUS
  <2> QED
    BY <1>4, <2>1
<1>7. ASSUME NEW elems, canonicalize_tuple_index(elems, Len(in_shape)) = idx
      PROVE  indices_to_indexer(elems, in_shape) =
               Indexer(m[l], IF m[l].indices = << >> THEN NoneIndex ELSE concatenate(m[l].indices),
                       is_advanced_int_indexer(idx))
  <2> DEFINE C == canonicalize_tuple_index(elems, Len(in_shape))
             V(c) == CHOOSE g : g = [i \in 0 .. Len(c) |->
                                      IF i = 0 THEN First ELSE VisitIndex(g[i - 1], i, c, in_shape)]
             R(c, s) == Indexer(s, IF s.indices = << >> THEN NoneIndex ELSE concatenate(s.indices),
                                is_advanced_int_indexer(c))
  <2>1. indices_to_indexer(elems, in_shape) = R(C, V(C)[Len(C)])
    BY DEF indices_to_indexer, First
  <2>2. C = idx
    BY <1>7
  <2> HIDE DEF C
  <2>3. R(C, V(C)[Len(C)]) = R(idx, V(idx)[Len(idx)])
    <3> HIDE DEF R, V
    <3> QED
      BY <2>2
  <2>4. V(idx) = m
    BY <1>3
  <2>5. R(C, V(C)[Len(C)]) = R(idx, m[l])
    <3> HIDE DEF R, V
    <3> QED
      BY <2>3, <2>4
  <2> QED
    BY <2>1, <2>5
<1> QED
  BY <1>5, <1>6, <1>7 DEF VisitsTo, First

LEMMA IndexerGood ==
  ASSUME NEW elems, GoodTuple(elems), NEW in_shape \in Seq(Int)
  PROVE  GoodIndexer(indices_to_indexer(elems, in_shape))
<1>1. PICK idx : idx = canonicalize_tuple_index(elems, Len(in_shape))
  OBVIOUS
<1>2. GoodTuple(idx)
  <2>1. Len(in_shape) \in Nat
    OBVIOUS
  <2> QED
    BY <1>1, <2>1, CanonicalGood, Zenon
<1>3. PICK l \in Nat : l = Len(idx)
  BY <1>2 DEF GoodTuple, IsSeq
<1>4. PICK f : VisitsTo(f, idx, in_shape, l)
  BY <1>3, VisitedIs, Zenon
<1> DEFINE advanced == is_advanced_int_indexer(idx)
           Kept(s) == Visiting(s) /\ (~advanced => Plainly(s))
<1> HIDE DEF advanced
<1>5. Kept(f[0])
  <2>1. NatSeq(<< >>) /\ ValueSeq(<< >>)
    BY EmptyIsSeq DEF NatSeq, ValueSeq
  <2>2. PICK s : s = f[0]
    OBVIOUS
  <2>3. /\ DOMAIN s = VisitFields /\ s.in_axis = 0 /\ s.out_axis = 0 /\ s.newaxis_dims = << >>
        /\ s.indices = << >>
    BY <1>4, <2>2 DEF VisitsTo, VisitFields
  <2>4. Plainly(s)
    BY <2>3, EmptyIsSeq DEF Plainly
  <2> QED
    BY <2>1, <2>2, <2>3, <2>4 DEF Visiting
<1> DEFINE T == {k \in 0 .. l : ~Kept(f[k])}
<1>6. T = {}
  <2> SUFFICES ASSUME T # {} PROVE FALSE
    OBVIOUS
  <2>1. PICK k \in T : \A j \in T : k <= j
    <3>1. T \in SUBSET Nat
      BY <1>3
    <3> HIDE DEF T
    <3> QED
      BY <3>1, Least
  <2>2. k \in 0 .. l /\ k # 0
    BY <1>5
  <2>3. k - 1 \in 0 .. l /\ k \in 1 .. l /\ ~(k <= k - 1)
    BY <1>3, <2>2
  <2>4. k - 1 \notin T
    <3> HIDE DEF T
    <3> QED
      BY <2>1, <2>3
  <2>5. Kept(f[k - 1])
    <3> HIDE DEF Kept
    <3> QED
      BY <2>3, <2>4
  <2>6. f[k] = VisitIndex(f[k - 1], k, idx, in_shape)
    BY <1>4, <2>3 DEF VisitsTo
  <2>7. k \in 1 .. Len(idx)
    BY <1>3, <2>3
  <2>8. Kept(f[k])
    BY <1>2, <2>5, <2>6, <2>7, VisitIndexKeeps, Zenon DEF advanced
  <2> QED
    BY <2>8
<1>7. PICK s : s = f[l] /\ Visiting(s) /\ (~advanced => Plainly(s))
  <2>1. Kept(f[l])
    <3> HIDE DEF Kept
    <3> QED
      BY <1>3, <1>6
  <2> QED
    BY <2>1
<1>8. PICK indices, r : /\ indices = IF s.indices = << >> THEN NoneIndex ELSE concatenate(s.indices)
                        /\ r = indices_to_indexer(elems, in_shape)
  OBVIOUS
<1>9. r = Indexer(s, indices, advanced)
  BY <1>1, <1>4, <1>7, <1>8 DEF VisitsTo, advanced
<1>10. \/ indices \in {Raised, NoneIndex}
       \/ /\ Parallel(Front(indices.dims), Front(indices.shape))
          /\ ~advanced /\ Defined(indices) => DistinctCoordinates(indices)
  <2>1. CASE s.indices = << >>
    BY <1>8, <2>1
  <2>2. CASE s.indices # << >>
    <3>1. IsSeq(s.indices) /\ Len(s.indices) # 0
      BY <1>7, <2>2, EmptyIffLen0 DEF Visiting, ValueSeq
    <3>2. 1 \in 1 .. Len(s.indices)
      BY <3>1 DEF IsSeq
    <3>3. Value(s.indices[1])
      BY <1>7, <3>2 DEF Visiting, ValueSeq
    <3>4. PICK tens : tens = s.indices
      OBVIOUS
    <3>5. indices = concatenate(tens)
      BY <1>8, <2>2, <3>4
    <3>6. indices = Raised \/ (IsJoined(indices, tens) /\ \A i \in DOMAIN tens : tens[i].shape = tens[1].shape)
      BY <3>3, <3>4, <3>5, JoinedIs, Zenon
    <3>7. ASSUME indices # Raised, ~advanced, Defined(indices) PROVE DistinctCoordinates(indices)
      <4>1. ValueSeq(tens) /\ tens # << >> /\ \A i \in 1 .. Len(tens) : Plain(tens[i])
        BY <1>7, <2>2, <3>4, <3>7 DEF Visiting, Plainly
      <4> QED
        BY <3>6, <3>7, <4>1, JoinedDistinct, Zenon
    <3> QED
      BY <3>6, <3>7, Zenon DEF IsJoined
  <2> QED
    BY <2>1, <2>2
<1>11. r = Raised \/ (/\ r.newaxis_dims = s.newaxis_dims /\ r.indices = indices /\ indices # Raised
                      /\ r.unique = (indices # NoneIndex /\ unique_indices(indices, advanced)))
  BY <1>9 DEF Indexer
<1>12. ASSUME r # Raised PROVE MarkedRightly(r)
  <2> SUFFICES ASSUME r.unique, Defined(r.indices)
               PROVE  DistinctCoordinates(r.indices)
    BY DEF MarkedRightly
  <2>1. indices # NoneIndex /\ unique_indices(indices, advanced)
    BY <1>11, <1>12
  <2>2. CASE fold(indices)
    BY <1>11, <1>12, <2>1, <2>2 DEF unique_indices
  <2>3. CASE ~fold(indices)
    <3>1. ~advanced
      BY <2>1, <2>3 DEF unique_indices
    <3> QED
      BY <1>10, <1>11, <1>12, <2>1, <3>1
  <2> QED
    BY <2>2, <2>3
<1> QED
  BY <1>7, <1>8, <1>10, <1>11, <1>12 DEF GoodIndexer, Visiting

\* What a statement leaves in a variable: nothing, or a value.
Outcome(v) == v = Raised \/ Value(v)

\* A statement's result: what it leaves, and the indexer it built an op with.
Made(r) == Outcome(r.v) /\ (r.gathered = NoneIndex \/ MarkedRightly(r.gathered))

LEMMA ResultMade ==
  ASSUME NEW v, Outcome(v)
  PROVE  Made(Result(v))
  BY DEF Made, Result

LEMMA GatherMade ==
  ASSUME NEW ten, Value(ten), ten.k = "tensor", NEW indexer, GoodIndexer(indexer)
  PROVE  Made(build_gather(ten, indexer))
<1>1. CASE indexer = Raised
  BY <1>1, ResultMade DEF build_gather, Outcome
<1>2. CASE indexer # Raised /\ IsEmpty(indexer)
  <2>1. build_gather(ten, indexer) = Result(expand_dims(ten, indexer.newaxis_dims))
    BY <1>2 DEF build_gather
  <2>2. Outcome(expand_dims(ten, indexer.newaxis_dims))
    BY <1>2, ExpandValue DEF GoodIndexer, Outcome
  <2> QED
    BY <2>1, <2>2, ResultMade
<1>3. CASE indexer # Raised /\ ~IsEmpty(indexer)
  <2>1. PICK g, r : g = GatherOp(ten, indexer.indices, indexer.collapsed_dims) /\ r = build_gather(ten, indexer)
    OBVIOUS
  <2>2. r.v = expand_dims(g, indexer.newaxis_dims) /\ r.gathered = indexer
    BY <1>3, <2>1 DEF build_gather
  <2>3. Parallel(Front(indexer.indices.dims), Front(indexer.indices.shape)) /\ NatSeq(indexer.newaxis_dims)
        /\ MarkedRightly(indexer)
    BY <1>3 DEF GoodIndexer, IsEmpty
  <2>4. Value(g)
    BY <2>1, <2>3, GatherValue
  <2>5. Outcome(r.v)
    BY <2>2, <2>3, <2>4, ExpandValue DEF Outcome
  <2> QED
    BY <2>1, <2>2, <2>3, <2>5 DEF Made
<1> QED
  BY <1>1, <1>2, <1>3

LEMMA IndexGood ==
  ASSUME NEW idx, IsIndex(idx)
  PROVE  GoodTuple(AsScalars(idx.elems))
<1>1. IsSeq(idx.elems)
  BY SeqIsSeq DEF IsIndex
<1>2. ASSUME NEW i \in 1 .. Len(idx.elems) PROVE GoodElem(idx.elems[i])
  <2>1. PICK e : e = idx.elems[i]
    OBVIOUS
  <2>2. i \in DOMAIN idx.elems
    BY <1>1 DEF IsSeq
  <2>3. /\ e.k \in {"scalar", "tensor"} => IsValue(e)
        /\ e.k = "tensor" => e.dims # << >> /\ Last(e.shape) # Dyn
        /\ e.k = "list" => e.dims \in Seq(Nat) /\ e.dims # << >>
        /\ e.k = "slice" => GoodSlice(e)
    BY <2>1, <2>2, Zenon DEF IsIndex, GoodSlice
  <2>4. ASSUME e.k = "tensor" PROVE Last(e.shape) \in Nat
    <3>1. PICK n \in Nat : n = Len(e.shape) /\ n = Len(e.dims) /\ n # 0
      <4>1. e.dims \in Seq(Nat) /\ Len(e.shape) = Len(e.dims) /\ e.dims # << >>
        BY <2>3, <2>4 DEF IsValue
      <4> QED
        BY <4>1
    <3>2. e.shape[n] \in Nat \cup {Dyn}
      BY <2>3, <2>4, <3>1 DEF IsValue
    <3> QED
      BY <2>3, <2>4, <3>1, <3>2 DEF Last
  <2>5. e.k \in {"scalar", "tensor"} => Value(e)
    BY <2>3, IsValueValue
  <2> QED
    BY <2>1, <2>3, <2>4, <2>5, Zenon DEF GoodElem
<1>3. GoodTuple(idx.elems)
  BY <1>1, <1>2 DEF GoodTuple
<1> QED
  BY <1>3, AsScalarsGood

LEMMA GetMade ==
  ASSUME NEW ten, Value(ten), ten.k = "tensor", NEW idx, IsIndex(idx)
  PROVE  Made(getitem(ten, idx))
<1>1. PICK elems : elems = AsScalars(idx.elems)
  OBVIOUS
<1>2. GoodTuple(elems)
  BY <1>1, IndexGood
<1>4. CASE Whole(idx)
  <2>1. ~(idx.bare /\ idx.elems[1] = NoneIndex)
    BY <1>4 DEF Whole, Ellipsis, FullSlice, Slice, NoneIndex
  <2>2. getitem(ten, idx) = Result(ten)
    BY <1>4, <2>1 DEF getitem
  <2> QED
    BY <2>2, ResultMade DEF Outcome
<1>5. CASE ~Whole(idx) /\ idx.bare /\ idx.elems[1] = NoneIndex
  <2>1. NatSeq(<<0>>)
    <3>1. <<0>> \in Seq(Nat)
      OBVIOUS
    <3> QED
      BY <3>1, NatsAre
  <2>2. getitem(ten, idx) = Result(expand_dims(ten, <<0>>))
    BY <1>5 DEF getitem, NoneIndex
  <2>3. Outcome(expand_dims(ten, <<0>>))
    BY <2>1, ExpandValue DEF Outcome
  <2> QED
    BY <2>2, <2>3, ResultMade
<1>6. CASE ~Whole(idx) /\ idx.bare /\ idx.elems[1].k # "int" /\ idx.elems[1] # NoneIndex
  <2>1. getitem(ten, idx) = Result(Raised)
    BY <1>6 DEF getitem
  <2> QED
    BY <2>1, ResultMade DEF Outcome
<1>7. CASE ~Whole(idx) /\ (idx.bare => idx.elems[1].k = "int")
  <2>1. \/ \E x : getitem(ten, idx) = Result([Runtime(ten, << >>, << >>, x) EXCEPT !.k = "scalar"])
        \/ getitem(ten, idx) = build_gather(ten, indices_to_indexer(elems, ten.shape))
    <3>1. ~(idx.bare /\ idx.elems[1] = NoneIndex)
      BY <1>7 DEF NoneIndex
    <3> QED
      BY <1>1, <1>7, <3>1 DEF getitem
  <2>2. CASE \E x : getitem(ten, idx) = Result([Runtime(ten, << >>, << >>, x) EXCEPT !.k = "scalar"])
    <3>1. PICK x : getitem(ten, idx) = Result([Runtime(ten, << >>, << >>, x) EXCEPT !.k = "scalar"])
      BY <2>2
    <3>2. PICK r : r = [Runtime(ten, << >>, << >>, x) EXCEPT !.k = "scalar"]
      OBVIOUS
    <3>3. DOMAIN r = ValueFields /\ r.k = "scalar" /\ r.dims = << >> /\ r.shape = << >>
      BY <3>2 DEF Runtime, Value, ValueFields
    <3>4. Value(r)
      BY <3>3, ParallelEmpty DEF Value
    <3> QED
      BY <3>1, <3>2, <3>4, ResultMade DEF Outcome
  <2>3. CASE getitem(ten, idx) = build_gather(ten, indices_to_indexer(elems, ten.shape))
    <3>1. ten.shape \in Seq(Int)
      BY ParallelInts DEF Value
    <3>2. GoodIndexer(indices_to_indexer(elems, ten.shape))
      BY <1>2, <3>1, IndexerGood
    <3> QED
      BY <2>3, <3>2, GatherMade
  <2> QED
    BY <2>1, <2>2, <2>3
<1> QED
  BY <1>4, <1>5, <1>6, <1>7, Zenon

LEMMA SetMade ==
  ASSUME NEW dest, Value(dest), dest.k = "tensor", NEW idx, IsIndex(idx), NEW source
  PROVE  Made(setitem(dest, idx, source))
<1>1. PICK indexer : indexer = indices_to_indexer(AsScalars(idx.elems), dest.shape)
  OBVIOUS
<1>2. GoodIndexer(indexer)
  <2>1. dest.shape \in Seq(Int) /\ GoodTuple(AsScalars(idx.elems))
    BY IndexGood, ParallelInts DEF Value
  <2> QED
    BY <1>1, <2>1, IndexerGood
<1>3. Made(Result(Raised)) /\ Made(Result(dest))
  BY ResultMade DEF Outcome
<1>4. ASSUME NEW from PROVE Made(build_scatter(dest, from, indexer))
  <2>1. PICK r : r = build_scatter(dest, from, indexer)
    OBVIOUS
  <2>2. PICK w : w = ScatterOp(from, dest, indexer.indices, indexer.collapsed_dims)
    OBVIOUS
  <2>3. r \in {Result(Raised), Result(dest)} \/ (indexer # Raised /\ r = [v |-> w, gathered |-> indexer])
    BY <2>1, <2>2 DEF build_scatter
  <2>4. CASE indexer # Raised /\ r = [v |-> w, gathered |-> indexer]
    <3>1. MarkedRightly(indexer) /\ r.gathered = indexer /\ r.v = w
      BY <1>2, <2>4 DEF GoodIndexer
    <3>2. Value(w)
      BY <2>2, ScatterValue
    <3> QED
      BY <2>1, <3>1, <3>2 DEF Made, Outcome
  <2> QED
    BY <1>3, <2>1, <2>3, <2>4
<1>5. \/ setitem(dest, idx, source) \in {Result(Raised), Result(dest)}
      \/ \E from : setitem(dest, idx, source) = build_scatter(dest, from, indexer)
  BY <1>1, Zenon DEF setitem
<1> QED
  BY <1>3, <1>4, <1>5

(* Arithmetic: folded or not, the data are those of the operands.          *)
LEMMA BinaryOutcome ==
  ASSUME NEW self, Value(self), NEW other, NEW op, NEW v, v = binary_op(self, other, op), v # Raised
  PROVE  /\ Value(v)
         /\ \/ other.k = "literal" /\ other.dims = << >> /\ self.k = "tensor"
            \/ v.data = Elementwise(op, self.data, other.data)
<1>1. PICK rhs : rhs = Operand(self, other)
  OBVIOUS
<1>2. PICK data : data = Elementwise(op, self.data, rhs.data)
  OBVIOUS
<1>3. v = Computed(self, rhs, data)
  BY <1>1, <1>2 DEF binary_op
<1>4. Value(v) /\ v.data = data
  <2>1. CASE fold(self) /\ fold(rhs)
    <3>1. PICK val, type : val = [dims |-> self.dims, data |-> data] /\ type = [NoType EXCEPT !.dtype = self.dtype]
      OBVIOUS
    <3>2. v = Wrapped(val, type, TRUE)
      BY <1>3, <2>1, <3>1 DEF Computed
    <3>3. val.dims \in Seq(Int) /\ type.shape = << >> /\ val.data = data
      BY <3>1, ParallelInts DEF NoType, Value
    <3>4. Value(Wrapped(val, type, TRUE)) /\ Wrapped(val, type, TRUE).data = val.data
      BY <3>3, WrappedValue, Zenon
    <3> QED
      BY <3>2, <3>3, <3>4, Zenon
  <2>2. CASE ~(fold(self) /\ fold(rhs))
    <3>1. v = Runtime(self, self.dims, self.shape, data)
      BY <1>3, <2>2 DEF Computed
    <3>2. Parallel(self.dims, self.shape) /\ (self.k = "tensor" \/ self.dims = << >>)
      BY DEF Value
    <3> QED
      BY <3>1, <3>2, RuntimeValue
  <2> QED
    BY <2>1, <2>2
<1>5. CASE other.k # "literal"
  BY <1>1, <1>2, <1>4, <1>5 DEF Operand
<1>6. CASE other.k = "literal"
  <2>1. CASE rhs = Raised
    <3>1. rhs.k = "raised" /\ self.k # "raised"
      BY <2>1 DEF Raised, Value
    <3> QED
      BY <1>1, <3>1 DEF binary_op
  <2>2. CASE rhs # Raised
    <3>1. rhs = Wrapped(other, TypeOf(self), TRUE)
      BY <1>1, <1>6, <2>2 DEF Operand
    <3>2. CASE self.shape # << >> /\ other.dims = << >>
      <4>1. self.dims # << >>
        <5>1. Len(self.shape) # 0
          BY <3>2, EmptyIffLen0 DEF Value, Parallel
        <5> QED
          BY <5>1, EmptyIffLen0 DEF Value, Parallel
      <4> QED
        BY <1>4, <1>6, <3>2, <4>1 DEF Value
    <3>3. CASE ~(self.shape # << >> /\ other.dims = << >>)
      <4>1. rhs.data = other.data
        BY <3>1, <3>3 DEF Wrapped, constant, TypeOf
      <4> QED
        BY <1>2, <1>4, <4>1
    <3> QED
      BY <3>2, <3>3
  <2> QED
    BY <2>1, <2>2
<1> QED
  BY <1>5, <1>6

LEMMA RangeOutcome ==
  ASSUME NEW start \in Int, NEW stop \in Int, NEW step \in Nat \ {0}, NEW foldable, NEW folds,
         NEW v, v = arange(start, stop, step, foldable, folds), v # Raised
  PROVE  /\ Value(v)
         /\ step # Absent => v.dims[1] = Len(ARangeLoop(start, stop, step))
<1> DEFINE Folded(a, b, s) == IF foldable /\ folds
                              THEN LET data == ARangeLoop(a, b, s)
                                   IN as_index_tensor([dims |-> <<Len(data), 1>>, data |-> data])
                              ELSE ARangeOp(a, b, s)
<1>1. ASSUME NEW a \in Int, NEW b \in Int, NEW s \in Nat \ {0}, v = Folded(a, b, s)
      PROVE  Value(v) /\ v.dims[1] = Len(ARangeLoop(a, b, s))
  <2>1. PICK data : data = ARangeLoop(a, b, s)
    OBVIOUS
  <2>2. PICK n \in Nat : n = Len(data)
    <3>1. data \in Seq(Int)
      BY <1>1, <2>1, LoopIs, Zenon
    <3> QED
      BY <3>1
  <2>3. PICK dims : dims = <<n, 1>>
    OBVIOUS
  <2>4. dims \in Seq(Int) /\ dims[1] = n
    BY <2>3
  <2>5. CASE foldable /\ folds
    <3>1. PICK val : val = [dims |-> dims, data |-> data]
      OBVIOUS
    <3>2. v = as_index_tensor(val)
      BY <1>1, <2>1, <2>2, <2>3, <2>5, <3>1
    <3>3. val.dims = dims
      BY <3>1
    <3> QED
      BY <2>1, <2>2, <2>4, <3>2, <3>3, AsIndexTensorValue
  <2>6. CASE ~(foldable /\ folds)
    <3>1. v = ARangeOp(a, b, s)
      BY <1>1, <2>6
    <3>2. Value(v) /\ v.dims = <<Len(ARangeLoop(a, b, s)), 1>>
      <4>1. Value(v) /\ Column(v, ARangeLoop(a, b, s))
        BY <3>1, ARangeOpValue
      <4> QED
        BY <4>1 DEF Column
    <3> QED
      BY <2>1, <2>2, <2>3, <2>4, <3>2
  <2> QED
    BY <2>5, <2>6
<1>2. \/ v = Folded(start, stop, step)
      \/ step = Absent /\ \E a \in Int, b \in Int, s \in Nat \ {0} : v = Folded(a, b, s)
  <2>1. v = CASE stop = Absent /\ step = Absent -> Folded(0, start, 1)
              [] stop # Absent /\ step # Absent -> Folded(start, stop, step)
              [] stop # Absent /\ step = Absent /\ start = 0 -> Folded(0, stop, 1)
              [] OTHER -> Raised
    BY DEF arange
  <2> HIDE DEF Folded
  <2>2. 0 \in Int /\ 1 \in Nat \ {0}
    OBVIOUS
  <2>3. v = Folded(start, stop, step) \/ (step = Absent /\ (v = Folded(0, start, 1) \/ v = Folded(0, stop, 1)))
    BY <2>1
  <2> QED
    BY <2>2, <2>3, Zenon
<1> HIDE DEF Folded
<1> QED
  BY <1>1, <1>2

FrameValues == \A n \in Names : Value(frame[n].v)
BuildInv == FrameValues /\ ARangeLength /\ UniqueIsTrue

LEMMA AssignedValues ==
  ASSUME AliasTypes, FrameValues, NEW y \in Names, NEW v, Outcome(v), Assigned(y, v)
  PROVE  FrameValues'
<1>1. CASE v = Raised
  BY <1>1 DEF Assigned, FrameValues
<1>2. CASE v # Raised
  <2>1. frame' = [frame EXCEPT ![y] = [obj |-> objects + 1, v |-> v]]
    BY <1>2 DEF Assigned
  <2>2. Value(v)
    BY <1>2 DEF Outcome
  <2> QED
    BY <2>1, <2>2 DEF FrameValues, AliasTypes
<1> QED
  BY <1>1, <1>2

LEMMA CopiedValues ==
  ASSUME AliasTypes, FrameValues, NEW x \in Names, NEW y \in Names, frame' = [frame EXCEPT ![y] = frame[x]]
  PROVE  FrameValues'
  BY DEF FrameValues, AliasTypes

LEMMA MarkedUnique ==
  ASSUME NEW r, Made(r), last'.r = r
  PROVE  UniqueIsTrue'
<1>1. r.gathered # NoneIndex => MarkedRightly(r.gathered)
  BY DEF Made
<1> QED
  BY <1>1 DEF UniqueIsTrue, MarkedRightly

LEMMA BuildStep ==
  ASSUME AliasTypes, BuildInv, Next
  PROVE  BuildInv'
<1>1. PICK x \in Names, y \in Targets :
        \/ \E idx \in Reads[steps + 1] : Get(y, x, idx)
        \/ \E idx \in Writes[steps + 1], z \in Names : Set(x, idx, z)
        \/ \E op \in {"add", "sub", "mul"}, z \in Operands \cup {frame[m].v : m \in Names} :
             Compute(y, x, op, z)
        \/ \E r \in Ranges[steps + 1] : Range_(y, r)
        \/ Alias(y, x)
  BY DEF Next
<1>2. y \in Names /\ steps + 1 \in 1 .. MaxStatements
  BY BoundAssumption, NamesCount DEF Next, AliasTypes
<1>3. Value(frame[x].v)
  BY DEF BuildInv, FrameValues
<1>4. ASSUME NEW idx \in Reads[steps + 1], Get(y, x, idx) PROVE BuildInv'
  <2>1. IsIndex(idx)
    BY <1>2, ValuesAssumption
  <2>2. PICK r :
          /\ r = getitem(frame[x].v, idx)
          /\ last' = [k |-> "get", x |-> frame[x].v, idx |-> idx, r |-> r]
          /\ IF Whole(idx)
             THEN /\ frame' = [frame EXCEPT ![y] = frame[x]] /\ array' = [array EXCEPT ![y] = array[x]]
                  /\ UNCHANGED objects
             ELSE Assigned(y, r.v)
    BY <1>4, Zenon DEF Get
  <2>3. Made(r)
    BY <1>3, <1>4, <2>1, <2>2, GetMade DEF Get
  <2>4. FrameValues'
    <3>1. FrameValues
      BY DEF BuildInv
    <3>2. CASE Whole(idx)
      BY <1>2, <2>2, <3>1, <3>2, CopiedValues
    <3>3. CASE ~Whole(idx)
      BY <1>2, <2>2, <2>3, <3>1, <3>3, AssignedValues DEF Made
    <3> QED
      BY <3>2, <3>3
  <2>5. last'.k = "get" /\ last'.r = r
    BY <2>2
  <2>6. UniqueIsTrue'
    BY <2>3, <2>5, MarkedUnique
  <2> QED
    BY <2>4, <2>5, <2>6 DEF BuildInv, ARangeLength
<1>5. ASSUME NEW idx \in Writes[steps + 1], NEW z, Set(x, idx, z) PROVE BuildInv'
  <2>1. PICK r :
          /\ r = setitem(frame[x].v, idx, frame[z].v)
          /\ last' = [k |-> "set", name |-> x, x |-> frame[x].v, idx |-> idx, z |-> frame[z].v, r |-> r]
          /\ IF r.v = Raised \/ Whole(idx)
             THEN UNCHANGED <<frame, objects>>
             ELSE update_caller_vars(x, r.v)
    BY <1>5, Zenon DEF Set
  <2>2. Made(r)
    <3>1. IsIndex(idx)
      BY <1>2, ValuesAssumption
    <3> QED
      BY <1>3, <1>5, <2>1, <3>1, SetMade DEF Set
  <2>3. FrameValues'
    <3>1. CASE r.v = Raised \/ Whole(idx)
      BY <2>1, <3>1 DEF BuildInv, FrameValues
    <3>2. CASE ~(r.v = Raised \/ Whole(idx))
      <4>1. PICK w : w = r.v /\ Value(w) /\ update_caller_vars(x, w)
        BY <2>1, <2>2, <3>2 DEF Made, Outcome
      <4>2. \A n \in Names : frame'[n].v = w \/ frame'[n].v = frame[n].v
        BY <4>1 DEF update_caller_vars
      <4> QED
        BY <4>1, <4>2 DEF BuildInv, FrameValues
    <3> QED
      BY <3>1, <3>2
  <2>4. last'.k = "set" /\ last'.r = r
    BY <2>1
  <2>5. UniqueIsTrue'
    BY <2>2, <2>4, MarkedUnique
  <2> QED
    BY <2>3, <2>4, <2>5 DEF BuildInv, ARangeLength
<1>6. ASSUME NEW op, NEW z, Compute(y, x, op, z) PROVE BuildInv'
  <2>1. PICK self, v : /\ self = frame[x].v /\ v = binary_op(self, z, op)
                       /\ last' = [k |-> "compute", x |-> self, op |-> op, z |-> z, v |-> v]
                       /\ Assigned(y, v)
    BY <1>6, Zenon DEF Compute
  <2>2. v = Raised \/ (/\ Value(v)
                       /\ \/ z.k = "literal" /\ z.dims = << >> /\ self.k = "tensor"
                          \/ v.data = Elementwise(op, self.data, z.data))
    BY <1>3, <2>1, BinaryOutcome
  <2>3. FrameValues'
    BY <1>2, <2>1, <2>2, AssignedValues DEF BuildInv, Outcome
  <2>4. /\ last'.k = "compute" /\ last'.x = self /\ last'.op = op /\ last'.z = z /\ last'.v = v
    BY <2>1
  <2> QED
    BY <2>3, <2>4 DEF BuildInv, ARangeLength, UniqueIsTrue
<1>7. ASSUME NEW r \in Ranges[steps + 1], Range_(y, r) PROVE BuildInv'
  <2>1. PICK v : /\ v = arange(r.start, r.stop, r.step, r.foldable, r.fold)
                 /\ last' = [k |-> "arange", r |-> r, v |-> v]
                 /\ Assigned(y, v)
    BY <1>7, Zenon DEF Range_
  <2>2. r.start \in Int /\ r.stop \in Int /\ r.step \in Nat \ {0}
    BY <1>2, ValuesAssumption
  <2>3. v = Raised \/ (/\ Value(v)
                       /\ r.step # Absent => v.dims[1] = Len(ARangeLoop(r.start, r.stop, r.step)))
    BY <2>1, <2>2, RangeOutcome
  <2>4. FrameValues'
    BY <1>2, <2>1, <2>3, AssignedValues DEF BuildInv, Outcome
  <2>5. /\ last'.k = "arange" /\ last'.r = r /\ last'.v = v
    BY <2>1
  <2>6. ARangeLength'
    <3>1. PICK start \in Int, stop \in Int, step \in Nat \ {0} : start = r.start /\ stop = r.stop /\ step = r.step
      BY <2>2
    <3>2. SUFFICES ASSUME v # Raised, step # Absent, VerifiesARange(start, stop, step)
                   PROVE  getARangeLen(start, stop, step) = v.dims[1]
      BY <2>5, <3>1 DEF ARangeLength
    <3>3. step \in Nat \ {0} /\ start < stop
      BY <3>2 DEF VerifiesARange
    <3>4. /\ getARangeLen(start, stop, step) = Elems(start, stop, step)
          /\ Len(ARangeLoop(start, stop, step)) = Elems(start, stop, step)
      BY <3>3, GetLen, LoopIs, Zenon
    <3> QED
      BY <2>3, <3>1, <3>2, <3>4
  <2> QED
    BY <2>4, <2>5, <2>6 DEF BuildInv, UniqueIsTrue
<1>8. ASSUME Alias(y, x) PROVE BuildInv'
  <2>1. FrameValues'
    BY <1>2, <1>8, CopiedValues DEF Alias, BuildInv
  <2>2. last'.k = "nothing"
    BY <1>8 DEF Alias, Nothing
  <2> QED
    BY <2>1, <2>2 DEF BuildInv, ARangeLength, UniqueIsTrue
<1> QED
  BY <1>1, <1>4, <1>5, <1>6, <1>7, <1>8, Zenon

(* The inductive invariant: every local variable holds a value whose type  *)
(* says what is known of its sizes, and the last statement was built as it *)
(* runs.                                                                   *)
THEOREM BuildInvAlways == Spec => []BuildInv
<1>1. Init => BuildInv
  <2> SUFFICES ASSUME Init PROVE BuildInv
    OBVIOUS
  <2>1. PICK f \in Frames : frame = [n \in Names |-> [obj |-> f[n].obj, v |-> f[n].v]]
    BY DEF Init
  <2>2. \A n \in Names : frame[n].v = f[n].v /\ IsValue(f[n].v)
    BY <2>1, ValuesAssumption
  <2>3. FrameValues
    BY <2>2, IsValueValue DEF FrameValues
  <2>4. last.k = "nothing"
    BY DEF Init, Nothing
  <2> QED
    BY <2>3, <2>4 DEF BuildInv, ARangeLength, UniqueIsTrue
<1>2. AliasInv /\ BuildInv /\ [Next]_vars => BuildInv'
  <2>1. ASSUME BuildInv, UNCHANGED vars PROVE BuildInv'
    BY <2>1 DEF vars, BuildInv, FrameValues, ARangeLength, UniqueIsTrue
  <2> QED
    BY <2>1, BuildStep DEF AliasInv
<1> QED
  BY <1>1, <1>2, AliasInvAlways, PTL DEF Spec

(* What is worked out while the IR is built is what it computes when it is *)
(* run: static shapes of every variable through any statements, and the    *)
(* length getARangeLen gives a range.                                      *)
THEOREM BuildAlways == Spec => []BuildAgreesWithRun
<1>1. BuildInv => BuildAgreesWithRun
  <2> SUFFICES ASSUME BuildInv PROVE BuildAgreesWithRun
    OBVIOUS
  <2>1. ASSUME NEW n \in Names
        PROVE  LET v == frame[n].v
               IN Len(v.shape) = Len(v.dims) /\ \A i \in DOMAIN v.dims : v.shape[i] \in {Dyn, v.dims[i]}
    <3>1. PICK v : v = frame[n].v /\ Value(v)
      BY DEF BuildInv, FrameValues
    <3>2. DOMAIN v.dims = 1 .. Len(v.dims)
      BY <3>1 DEF Value, Parallel, IsSeq
    <3> QED
      BY <3>1, <3>2 DEF Value, Parallel
  <2>2. StaticShapes
    BY <2>1 DEF StaticShapes
  <2> QED
    BY <2>2 DEF BuildInv, BuildAgreesWithRun
<1> QED
  BY <1>1, BuildInvAlways, PTL

(* An op that _build_gather or _build_scatter marks unique never meets a   *)
(* coordinate twice: a folded index tensor was looked at, and the ranges   *)
(* and scalars of a basic index, joined column by column, are told apart   *)
(* by their first column, whatever the sizes at run time.                  *)
THEOREM UniqueAlways == Spec => []UniqueIsTrue
  BY BuildInvAlways, PTL DEF BuildInv
=============================================================================
