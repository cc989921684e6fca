------------------------- MODULE JascScheduleProofs -------------------------
(***************************************************************************)
(* Proofs about the handles of a Jasc schedule, for any number of calls,    *)
(* handles and contexts: which handles the interpreter still accepts, what  *)
(* a handle may believe of its payload, and what a transform finds.         *)
(***************************************************************************)
EXTENDS JascSchedule, WellFoundedInduction, SequenceTheorems, FiniteSetTheorems, TLAPS

-----------------------------------------------------------------------------
(* Induction, as the existence of a least counterexample.                  *)
LEMMA Least ==
  ASSUME NEW T \in SUBSET Nat, T # {}
  PROVE  \E x \in T : \A y \in T : x <= y
<1> DEFINE R == {ss \in Nat \X Nat : ss[1] < ss[2]}
<1>1. IsWellFoundedOn(R, Nat)
  BY NatLessThanWellFounded DEF OpToRel
<1>2. PICK x \in T : \A y \in T : ~ (<<y, x>> \in R)
  <2> HIDE DEF R
  <2> QED BY <1>1, WFMin
<1>3. \A y \in T : ~ (y < x)
  BY <1>2
<1> QED BY <1>3

-----------------------------------------------------------------------------
(* The ancestors of a handle.                                              *)
Forms == {AnyForm, LoopNormalform}
Excuses == {"untracked", "sibling", "narrow"}
HandleType == [value : Nat, normalform : Forms, parent : Nat, excuse : SUBSET Excuses,
               lost : SUBSET (Consuming \cup {"other"})]
Parented(hs) == \A h \in 1 .. Len(hs) : hs[h].parent \in 0 .. h - 1

(* One line of parents, up to the handle n.                                *)
IsUp(f, hs, n) ==
  f = [h \in 0 .. n |-> IF h = 0 \/ hs[h].parent = 0 THEN {} ELSE {hs[h].parent} \cup f[hs[h].parent]]

(* A function as the definition of Ancestors wants it exists.              *)
LEMMA UpExists ==
  ASSUME NEW hs, Len(hs) \in Nat, Parented(hs)
  PROVE  \A n \in 0 .. Len(hs) : \E f : IsUp(f, hs, n)
<1> DEFINE T == {n \in 0 .. Len(hs) : ~ \E f : IsUp(f, hs, n)}
<1> SUFFICES ASSUME T # {} PROVE FALSE
  OBVIOUS
<1>1. T \in SUBSET Nat
  OBVIOUS
<1>2. PICK n \in T : \A y \in T : n <= y
  <2> HIDE DEF T
  <2> QED BY <1>1, Least
<1>3. n # 0
  <2> DEFINE f == [h \in 0 .. 0 |-> {}]
  <2>1. IsUp(f, hs, 0)
    BY DEF IsUp
  <2> HIDE DEF f
  <2> QED BY <2>1
<1>4. n \in 1 .. Len(hs) /\ n - 1 \in 0 .. Len(hs)
  BY <1>3
<1>5. PICK f : IsUp(f, hs, n - 1)
  BY <1>2, <1>4
<1> DEFINE g == [h \in 0 .. n |-> IF h < n THEN f[h]
                   ELSE IF hs[n].parent = 0 THEN {} ELSE {hs[n].parent} \cup f[hs[n].parent]]
<1>6. IsUp(g, hs, n)
  <2>1. ASSUME NEW h \in 0 .. n, h # 0, hs[h].parent # 0
        PROVE  hs[h].parent \in 0 .. n - 1 /\ g[hs[h].parent] = f[hs[h].parent]
    <3>1. PICK p \in 0 .. h - 1 : p = hs[h].parent
      BY <2>1, <1>4 DEF Parented
    <3>2. p \in 0 .. n - 1 /\ p \in 0 .. n /\ p < n
      BY <3>1, <1>4
    <3>3. g[p] = f[p]
      BY <3>2
    <3> QED BY <3>1, <3>2, <3>3
  <2>2. ASSUME NEW h \in 0 .. n, h < n
        PROVE  f[h] = IF h = 0 \/ hs[h].parent = 0 THEN {} ELSE {hs[h].parent} \cup f[hs[h].parent]
    <3>1. h \in 0 .. n - 1
      BY <2>2, <1>4
    <3> QED BY <3>1, <1>5, Zenon DEF IsUp
  <2>3. ASSUME NEW h \in 0 .. n
        PROVE  g[h] = IF h = 0 \/ hs[h].parent = 0 THEN {} ELSE {hs[h].parent} \cup g[hs[h].parent]
    <3>1. CASE h < n
      <4>1. g[h] = f[h]
        BY <3>1
      <4> HIDE DEF g
      <4> QED BY <3>1, <4>1, <2>1, <2>2
    <3>2. CASE h = n
      <4>1. g[n] = IF hs[n].parent = 0 THEN {} ELSE {hs[n].parent} \cup f[hs[n].parent]
        BY <1>4
      <4> HIDE DEF g
      <4>2. h # 0 /\ h \in 0 .. n
        BY <3>2, <1>4
      <4>3. CASE hs[h].parent = 0
        BY <3>2, <4>1, <4>3
      <4>4. CASE hs[h].parent # 0
        BY <3>2, <4>1, <4>2, <4>4, <2>1
      <4> QED BY <4>3, <4>4
    <3> QED BY <3>1, <3>2, <1>4
  <2> HIDE DEF g
  <2>4. g = [h \in 0 .. n |-> g[h]]
    BY DEF g
  <2> QED BY <2>3, <2>4 DEF IsUp
<1> HIDE DEF g
<1> QED BY <1>6

(* So the ancestors are the parent and its ancestors.                      *)
LEMMA AncestorsAre ==
  ASSUME NEW hs, Len(hs) \in Nat, Parented(hs)
  PROVE  IsUp(Ancestors(hs), hs, Len(hs))
<1>1. PICK f : IsUp(f, hs, Len(hs))
  BY UpExists
<1> QED BY <1>1, Zenon DEF Ancestors, IsUp

(* The ancestors of one handle.                                            *)
LEMMA AncestorsOf ==
  ASSUME NEW hs, Len(hs) \in Nat, Parented(hs), NEW h \in 1 .. Len(hs)
  PROVE  /\ hs[h].parent = 0 => Ancestors(hs)[h] = {}
         /\ hs[h].parent # 0 => Ancestors(hs)[h] = {hs[h].parent} \cup Ancestors(hs)[hs[h].parent]
<1>1. h \in 0 .. Len(hs) /\ h # 0
  OBVIOUS
<1>2. IsUp(Ancestors(hs), hs, Len(hs))
  BY AncestorsAre
<1> QED BY <1>1, <1>2, Zenon DEF IsUp

(* A parent is made before its children.                                   *)
LEMMA AncestorsBefore ==
  ASSUME NEW hs, Len(hs) \in Nat, Parented(hs)
  PROVE  \A h \in 1 .. Len(hs) : Ancestors(hs)[h] \subseteq 1 .. h - 1
<1> DEFINE T == {h \in 1 .. Len(hs) : ~ (Ancestors(hs)[h] \subseteq 1 .. h - 1)}
<1> SUFFICES ASSUME T # {} PROVE FALSE
  OBVIOUS
<1>1. T \in SUBSET Nat
  OBVIOUS
<1>2. PICK h \in T : \A y \in T : h <= y
  <2> HIDE DEF T
  <2> QED BY <1>1, Least
<1>3. h \in 1 .. Len(hs) /\ ~ (Ancestors(hs)[h] \subseteq 1 .. h - 1)
  OBVIOUS
<1>4. hs[h].parent # 0
  BY <1>3, AncestorsOf
<1>5. hs[h].parent \in 1 .. h - 1
  BY <1>3, <1>4 DEF Parented
<1>6. Ancestors(hs)[hs[h].parent] \subseteq 1 .. hs[h].parent - 1
  BY <1>2, <1>3, <1>5
<1>7. Ancestors(hs)[h] = {hs[h].parent} \cup Ancestors(hs)[hs[h].parent]
  BY <1>3, <1>4, AncestorsOf
<1>8. Ancestors(hs)[h] \subseteq 1 .. h - 1
  <2> DEFINE p == hs[h].parent
  <2>1. p \in 1 .. h - 1 /\ Ancestors(hs)[p] \subseteq 1 .. p - 1 /\ Ancestors(hs)[h] = {p} \cup Ancestors(hs)[p]
    BY <1>5, <1>6, <1>7
  <2> HIDE DEF p
  <2> QED BY <2>1, <1>3
<1> QED BY <1>3, <1>8

(* Handles that are made later, and other fields, change no ancestors.     *)
LEMMA AncestorsKept ==
  ASSUME NEW hs, Len(hs) \in Nat, Parented(hs), NEW gs, Len(gs) \in Nat, Parented(gs),
         Len(hs) <= Len(gs), \A h \in 1 .. Len(hs) : gs[h].parent = hs[h].parent
  PROVE  \A h \in 1 .. Len(hs) : Ancestors(gs)[h] = Ancestors(hs)[h]
<1> DEFINE T == {h \in 1 .. Len(hs) : Ancestors(gs)[h] # Ancestors(hs)[h]}
<1> SUFFICES ASSUME T # {} PROVE FALSE
  OBVIOUS
<1>1. T \in SUBSET Nat
  OBVIOUS
<1>2. PICK h \in T : \A y \in T : h <= y
  <2> HIDE DEF T
  <2> QED BY <1>1, Least
<1>3. h \in 1 .. Len(hs) /\ h \in 1 .. Len(gs) /\ Ancestors(gs)[h] # Ancestors(hs)[h]
  OBVIOUS
<1>4. gs[h].parent = hs[h].parent /\ hs[h].parent \in 0 .. h - 1
  BY <1>3 DEF Parented
<1>5. CASE hs[h].parent = 0
  <2>1. Ancestors(hs)[h] = {}
    BY <1>3, <1>5, AncestorsOf
  <2>2. gs[h].parent = 0
    BY <1>4, <1>5
  <2>3. Ancestors(gs)[h] = {}
    BY <1>3, <2>2, AncestorsOf
  <2> QED BY <1>3, <2>1, <2>3
<1>6. CASE hs[h].parent # 0
  <2>1. hs[h].parent \in 1 .. Len(hs) /\ hs[h].parent < h
    BY <1>3, <1>4, <1>6
  <2>2. Ancestors(gs)[hs[h].parent] = Ancestors(hs)[hs[h].parent]
    BY <1>2, <1>3, <2>1
  <2>3. Ancestors(gs)[h] = {gs[h].parent} \cup Ancestors(gs)[gs[h].parent]
    BY <1>3, <1>4, <1>6, AncestorsOf
  <2>4. Ancestors(hs)[h] = {hs[h].parent} \cup Ancestors(hs)[hs[h].parent]
    BY <1>3, <1>6, AncestorsOf
  <2> QED BY <1>3, <1>4, <2>2, <2>3, <2>4
<1> QED BY <1>5, <1>6

-----------------------------------------------------------------------------
(* The payload is a forest: what encloses an op forms a chain that begins   *)
(* with the op.                                                             *)
IsForest(pl) ==
  /\ \A o \in DOMAIN pl : o \in pl[o] /\ pl[o] \subseteq DOMAIN pl
  /\ \A o \in DOMAIN pl : \A p \in pl[o] : pl[p] \subseteq pl[o]
  /\ \A o \in DOMAIN pl : \A p \in pl[o] : o \in pl[p] => p = o
  /\ \A o \in DOMAIN pl : \A p, q \in pl[o] : p \in pl[q] \/ q \in pl[p]

(* ql has the new ops N besides: those of M have a target in S, and those of *)
(* L enclose it.                                                           *)
Grown(pl, S, N, M, T, L, ql) ==
  /\ S \in SUBSET DOMAIN pl /\ N \cap DOMAIN pl = {}
  /\ M \in SUBSET N /\ T \in [M -> S] /\ (L = {} \/ L = M)
  /\ L = {} \/ \A l, k \in L : T[l] = T[k] => l = k
  /\ DOMAIN ql = DOMAIN pl \cup N
  /\ \A o \in DOMAIN pl : ql[o] = pl[o] \cup {l \in L : T[l] \in pl[o]}
  /\ \A o \in M : ql[o] = {o} \cup (pl[T[o]] \ {T[o]}) \cup {l \in L : T[l] \in pl[T[o]]}
  /\ \A o \in N \ M : ql[o] = {o}

(* New ops, each beside a target or enclosing it, leave a forest.          *)
LEMMA ForestGrows ==
  ASSUME NEW pl, IsForest(pl), NEW S, NEW N, NEW M, NEW T, NEW L, NEW ql,
         Grown(pl, S, N, M, T, L, ql)
  PROVE  IsForest(ql)
<1> DEFINE D == DOMAIN pl
<1>1. /\ \A o \in D : o \in pl[o] /\ pl[o] \subseteq D
      /\ \A o \in D : \A p \in pl[o] : pl[p] \subseteq pl[o]
      /\ \A o \in D : \A p \in pl[o] : o \in pl[p] => p = o
      /\ \A o \in D : \A p, q \in pl[o] : p \in pl[q] \/ q \in pl[p]
  BY DEF IsForest
<1>2. /\ \A o \in M : T[o] \in S /\ T[o] \in D
      /\ L \in SUBSET M /\ (L = {} \/ L = M)
      /\ L = {} \/ \A l, k \in L : T[l] = T[k] => l = k
  BY DEF Grown
<1>3. /\ DOMAIN ql = D \cup N /\ N \cap D = {} /\ M \in SUBSET N
      /\ \A o \in D : ql[o] = pl[o] \cup {l \in L : T[l] \in pl[o]}
      /\ \A o \in M : ql[o] = {o} \cup (pl[T[o]] \ {T[o]}) \cup {l \in L : T[l] \in pl[T[o]]}
      /\ \A o \in N \ M : ql[o] = {o}
  BY DEF Grown
<1> HIDE DEF D
<1>4. \A o \in DOMAIN ql : o \in ql[o] /\ ql[o] \subseteq DOMAIN ql
  BY <1>1, <1>2, <1>3
<1>5. ASSUME NEW o \in DOMAIN ql, NEW p \in ql[o]
      PROVE  ql[p] \subseteq ql[o]
  <2>1. CASE o \in D /\ p \in pl[o]
    BY <2>1, <1>1, <1>2, <1>3
  <2>2. CASE o \in D /\ p \in L /\ T[p] \in pl[o]
    BY <2>2, <1>1, <1>2, <1>3
  <2>3. CASE o \in M /\ p \in pl[T[o]] /\ p # T[o]
    BY <2>3, <1>1, <1>2, <1>3
  <2>4. CASE o \in M /\ p \in L /\ T[p] \in pl[T[o]]
    BY <2>4, <1>1, <1>2, <1>3
  <2>5. CASE o = p
    BY <2>5
  <2> QED BY <2>1, <2>2, <2>3, <2>4, <2>5, <1>3
<1>6. ASSUME NEW o \in DOMAIN ql, NEW p \in ql[o], o \in ql[p]
      PROVE  p = o
  <2>1. CASE o \in D /\ p \in pl[o]
    BY <2>1, <1>1, <1>2, <1>3, <1>6
  <2>2. CASE o \in D /\ p \in L /\ T[p] \in pl[o]
    BY <2>2, <1>1, <1>2, <1>3, <1>6
  <2>3. CASE o \in M /\ p \in pl[T[o]] /\ p # T[o]
    <3>1. p \in D /\ o \in L /\ T[o] \in pl[p]
      BY <2>3, <1>1, <1>2, <1>3, <1>6
    <3> QED BY <2>3, <3>1, <1>1, <1>2
  <2>4. CASE o \in M /\ p \in L /\ T[p] \in pl[T[o]] /\ p # o
    <3>1. o \in L /\ T[o] \in pl[T[p]]
      BY <2>4, <1>1, <1>2, <1>3, <1>6
    <3>2. T[p] = T[o]
      BY <2>4, <3>1, <1>1, <1>2
    <3> QED BY <2>4, <3>1, <3>2, <1>2
  <2> QED BY <2>1, <2>2, <2>3, <2>4, <1>3
<1>7. ASSUME NEW o \in DOMAIN ql, NEW p \in ql[o], NEW q \in ql[o]
      PROVE  p \in ql[q] \/ q \in ql[p]
  <2>1. CASE o \in D
    <3>1. CASE p \in pl[o] /\ q \in pl[o]
      BY <2>1, <3>1, <1>1, <1>3
    <3>2. CASE p \in pl[o] /\ q \in L /\ T[q] \in pl[o]
      <4>1. p \in pl[T[q]] \/ T[q] \in pl[p]
        BY <2>1, <3>2, <1>1
      <4> QED BY <2>1, <3>2, <4>1, <1>1, <1>2, <1>3
    <3>3. CASE q \in pl[o] /\ p \in L /\ T[p] \in pl[o]
      <4>1. q \in pl[T[p]] \/ T[p] \in pl[q]
        BY <2>1, <3>3, <1>1
      <4> QED BY <2>1, <3>3, <4>1, <1>1, <1>2, <1>3
    <3>4. CASE p \in L /\ T[p] \in pl[o] /\ q \in L /\ T[q] \in pl[o]
      <4>1. T[q] \in pl[T[p]] \/ T[p] \in pl[T[q]]
        BY <2>1, <3>4, <1>1
      <4> QED BY <3>4, <4>1, <1>2, <1>3
    <3> QED BY <2>1, <3>1, <3>2, <3>3, <3>4, <1>3
  <2>2. CASE o \in M
    <3>1. CASE p = o \/ q = o
      BY <3>1
    <3>2. CASE p \in pl[T[o]] /\ p # T[o] /\ q \in pl[T[o]] /\ q # T[o]
      BY <2>2, <3>2, <1>1, <1>2, <1>3
    <3>3. CASE p \in pl[T[o]] /\ p # T[o] /\ q \in L /\ T[q] \in pl[T[o]]
      <4>1. p \in pl[T[q]] \/ T[q] \in pl[p]
        BY <2>2, <3>3, <1>1, <1>2
      <4> QED BY <2>2, <3>3, <4>1, <1>1, <1>2, <1>3
    <3>4. CASE q \in pl[T[o]] /\ q # T[o] /\ p \in L /\ T[p] \in pl[T[o]]
      <4>1. q \in pl[T[p]] \/ T[p] \in pl[q]
        BY <2>2, <3>4, <1>1, <1>2
      <4> QED BY <2>2, <3>4, <4>1, <1>1, <1>2, <1>3
    <3>5. CASE p \in L /\ T[p] \in pl[T[o]] /\ q \in L /\ T[q] \in pl[T[o]]
      <4>1. T[q] \in pl[T[p]] \/ T[p] \in pl[T[q]]
        BY <2>2, <3>5, <1>1, <1>2
      <4> QED BY <3>5, <4>1, <1>2, <1>3
    <3> QED BY <2>2, <3>1, <3>2, <3>3, <3>4, <3>5, <1>3
  <2>3. CASE o \in N \ M
    BY <2>3, <1>3
  <2> QED BY <2>1, <2>2, <2>3, <1>3
<1> QED BY <1>4, <1>5, <1>6, <1>7 DEF IsForest

(* Ops S that are fused into the op c, with what is inside them.           *)
Fused(pl, S, c, ql) ==
  /\ S \in SUBSET DOMAIN pl /\ c \in DOMAIN pl /\ DOMAIN ql = DOMAIN pl
  /\ \A s \in S : pl[s] \ {s} \subseteq pl[c] /\ s \notin pl[c]
  /\ \A o \in DOMAIN pl : ql[o] = IF pl[o] \cap S # {} THEN pl[o] \cup pl[c] ELSE pl[o]

(* Fusing leaves a forest, because the containing op is inside all that     *)
(* enclosed the fused ones.                                                 *)
LEMMA ForestFuses ==
  ASSUME NEW pl, IsForest(pl), NEW S, NEW c, NEW ql, Fused(pl, S, c, ql)
  PROVE  IsForest(ql)
<1> DEFINE D == DOMAIN pl
<1>1. /\ \A o \in D : o \in pl[o] /\ pl[o] \subseteq D
      /\ \A o \in D : \A p \in pl[o] : pl[p] \subseteq pl[o]
      /\ \A o \in D : \A p \in pl[o] : o \in pl[p] => p = o
      /\ \A o \in D : \A p, q \in pl[o] : p \in pl[q] \/ q \in pl[p]
  BY DEF IsForest
<1>2. /\ DOMAIN ql = D /\ c \in D /\ S \subseteq D
      /\ \A s \in S : pl[s] \ {s} \subseteq pl[c] /\ s \notin pl[c]
      /\ \A o \in D : pl[o] \cap S # {} => ql[o] = pl[o] \cup pl[c]
      /\ \A o \in D : pl[o] \cap S = {} => ql[o] = pl[o]
  BY DEF Fused
<1> HIDE DEF D
<1>3. \A p \in pl[c] : p \in D /\ pl[p] \cap S = {} /\ ql[p] = pl[p] /\ pl[p] \subseteq pl[c]
  BY <1>1, <1>2
<1>4. \A o \in D : \A p \in pl[o] : pl[o] \cap S = {} => pl[p] \cap S = {}
  BY <1>1
<1>5. \A o \in DOMAIN ql : o \in ql[o] /\ ql[o] \subseteq DOMAIN ql
  BY <1>1, <1>2
<1>6. ASSUME NEW o \in DOMAIN ql, NEW p \in ql[o]
      PROVE  ql[p] \subseteq ql[o]
  <2>1. CASE p \in pl[o]
    BY <2>1, <1>1, <1>2, <1>4
  <2>2. CASE p \in pl[c] /\ pl[o] \cap S # {}
    BY <2>2, <1>2, <1>3
  <2> QED BY <2>1, <2>2, <1>2
<1>7. ASSUME NEW o \in DOMAIN ql, NEW p \in ql[o], o \in ql[p]
      PROVE  p = o
  <2>1. CASE p \in pl[o] /\ o \in pl[p]
    BY <2>1, <1>1, <1>2
  <2>2. CASE p \in pl[c] /\ pl[o] \cap S # {}
    BY <2>2, <1>2, <1>3, <1>7
  <2>3. CASE p \in pl[o] /\ o \in pl[c] /\ pl[p] \cap S # {}
    BY <2>3, <1>1, <1>2, <1>3
  <2> QED BY <2>1, <2>2, <2>3, <1>1, <1>2, <1>7
<1>8. ASSUME NEW o \in DOMAIN ql, NEW p \in pl[o], NEW q \in pl[c], pl[o] \cap S # {}
      PROVE  p \in ql[q] \/ q \in ql[p]
  <2>1. PICK s \in S : s \in pl[o]
    BY <1>8
  <2>2. p \in pl[s] \/ s \in pl[p]
    BY <2>1, <1>1, <1>2
  <2>3. CASE s \in pl[p]
    BY <2>3, <1>1, <1>2
  <2>4. CASE p \in pl[s] /\ p # s
    <3>1. p \in pl[c]
      BY <2>4, <1>2
    <3> QED BY <3>1, <1>1, <1>2, <1>3
  <2> QED BY <2>2, <2>3, <2>4, <1>1, <1>2
<1>9. ASSUME NEW o \in DOMAIN ql, NEW p \in ql[o], NEW q \in ql[o]
      PROVE  p \in ql[q] \/ q \in ql[p]
  <2>1. CASE p \in pl[o] /\ q \in pl[o]
    BY <2>1, <1>1, <1>2
  <2>2. CASE p \in pl[o] /\ q \in pl[c] /\ pl[o] \cap S # {}
    BY <2>2, <1>8
  <2>3. CASE q \in pl[o] /\ p \in pl[c] /\ pl[o] \cap S # {}
    BY <2>3, <1>8
  <2>4. CASE p \in pl[c] /\ q \in pl[c]
    BY <2>4, <1>1, <1>2, <1>3
  <2> QED BY <2>1, <2>2, <2>3, <2>4, <1>2
<1> QED BY <1>5, <1>6, <1>7, <1>9 DEF IsForest

-----------------------------------------------------------------------------
(* The numbers of new ops.                                                 *)
LEMMA Ranks ==
  ASSUME NEW n \in Nat, NEW S \in SUBSET (0 .. n - 1)
  PROVE  /\ Cardinality(S) \in Nat
         /\ \A s \in S : Rank(S, s) \in 1 .. Cardinality(S)
         /\ \A s, t \in S : Rank(S, s) = Rank(S, t) => s = t
<1> DEFINE B(o) == {p \in S : p <= o}
<1>1. IsFiniteSet(S)
  <2>1. IsFiniteSet(0 .. n - 1)
    BY FS_Interval
  <2> QED BY <2>1, FS_Subset
<1>2. Cardinality(S) \in Nat
  BY <1>1, FS_CardinalityType
<1>3. ASSUME NEW s \in S
      PROVE  IsFiniteSet(B(s)) /\ Cardinality(B(s)) \in Nat /\ Cardinality(B(s)) <= Cardinality(S) /\ Cardinality(B(s)) # 0
  <2>1. B(s) \in SUBSET S /\ B(s) # {}
    BY <1>3
  <2> HIDE DEF B
  <2>2. IsFiniteSet(B(s)) /\ Cardinality(B(s)) <= Cardinality(S)
    BY <1>1, <2>1, FS_Subset
  <2> QED BY <2>1, <2>2, FS_CardinalityType, FS_EmptySet
<1>4. ASSUME NEW s \in S, NEW t \in S, s < t
      PROVE  Cardinality(B(s)) # Cardinality(B(t))
  <2>1. B(s) \in SUBSET B(t) /\ B(s) # B(t)
    <3>1. t \in B(t) /\ t \notin B(s)
      <4>1. s \in 0 .. n - 1 /\ t \in 0 .. n - 1
        OBVIOUS
      <4> QED BY <4>1, <1>4
    <3>2. ASSUME NEW p \in B(s)
          PROVE  p \in B(t)
      <4>1. p \in 0 .. n - 1 /\ s \in 0 .. n - 1 /\ t \in 0 .. n - 1 /\ p <= s
        OBVIOUS
      <4> QED BY <4>1, <1>4
    <3> QED BY <3>1, <3>2
  <2> HIDE DEF B
  <2> QED BY <1>3, <2>1, FS_Subset
<1>5. \A s \in S : Rank(S, s) = Cardinality(B(s))
  BY DEF Rank
<1>6. ASSUME NEW s \in S, NEW t \in S, Rank(S, s) = Rank(S, t)
      PROVE  s = t
  <2> HIDE DEF B
  <2>1. ~ (s < t) /\ ~ (t < s)
    BY <1>4, <1>5, <1>6
  <2> QED BY <2>1
<1>7. ASSUME NEW s \in S
      PROVE  Rank(S, s) \in 1 .. Cardinality(S)
  <2> HIDE DEF B
  <2> QED BY <1>2, <1>3, <1>5
<1> QED BY <1>2, <1>6, <1>7

(* The ops that k results of a method make for the targets S have numbers   *)
(* from n up to q, each its own.                                            *)
Numbered(n, S, k, q) ==
  /\ q \in Nat /\ n <= q
  /\ \A i \in 1 .. k : \A s \in S : NewOp(n, S, i, s) \in n .. q - 1
  /\ \A i, j \in 1 .. k : \A s, t \in S : NewOp(n, S, i, s) = NewOp(n, S, j, t) => s = t /\ i = j

(* The numbers that the methods give to new ops are of that kind.           *)
LEMMA NewOps ==
  ASSUME NEW n \in Nat, NEW S \in SUBSET (0 .. n - 1), NEW k \in 0 .. 2,
         NEW q, q = n + k * Cardinality(S)
  PROVE  Numbered(n, S, k, q)
<1>1. /\ Cardinality(S) \in Nat
      /\ \A s \in S : Rank(S, s) \in 1 .. Cardinality(S)
      /\ \A s, t \in S : Rank(S, s) = Rank(S, t) => s = t
  BY Ranks
<1>2. PICK c \in Nat : c = Cardinality(S)
  BY <1>1
<1>3. ASSUME NEW s \in S
      PROVE  NewOp(n, S, 1, s) = n + Rank(S, s) - 1 /\ NewOp(n, S, 2, s) = n + c + Rank(S, s) - 1
  <2>1. PICK r \in 1 .. c : r = Rank(S, s)
    BY <1>1, <1>2
  <2>2. /\ NewOp(n, S, 1, s) = n + (1 - 1) * c + r - 1
        /\ NewOp(n, S, 2, s) = n + (2 - 1) * c + r - 1
    BY <1>2, <2>1 DEF NewOp
  <2> QED BY <2>1, <2>2
<1>4. /\ q \in Nat /\ n <= q
      /\ k = 1 => q = n + c
      /\ k = 2 => q = n + c + c
  BY <1>2
<1>5. ASSUME NEW i \in 1 .. k, NEW s \in S
      PROVE  NewOp(n, S, i, s) \in n .. q - 1
  <2>1. PICK r \in 1 .. c : r = Rank(S, s)
    BY <1>1, <1>2
  <2>2. (i = 1 /\ (k = 1 \/ k = 2)) \/ (i = 2 /\ k = 2)
    BY <1>5
  <2> QED BY <1>3, <1>4, <2>1, <2>2
<1>6. ASSUME NEW i \in 1 .. k, NEW j \in 1 .. k, NEW s \in S, NEW t \in S,
             NewOp(n, S, i, s) = NewOp(n, S, j, t)
      PROVE  s = t /\ i = j
  <2>1. PICK r \in 1 .. c, p \in 1 .. c : r = Rank(S, s) /\ p = Rank(S, t)
    BY <1>1, <1>2
  <2>2. (i = 1 \/ i = 2) /\ (j = 1 \/ j = 2)
    BY <1>6
  <2>3. r = p /\ i = j
    BY <1>3, <1>6, <2>1, <2>2
  <2> QED BY <2>1, <2>3, <1>1
<1> QED BY <1>4, <1>5, <1>6 DEF Numbered

-----------------------------------------------------------------------------
(* What the methods have in common.                                        *)
Makes == {<<>>, <<"same">>, <<"parent">>, <<"producer">>, <<"loop">>, <<"beside">>,
          <<"beside", "same">>, <<"beside", "beside">>}
Careless == {"vectorize", "interchange", "create_async_groups", "bufferize_to_allocation"}
IsMethod(m) ==
  /\ m.makes \in Makes /\ m.updates \in BOOLEAN /\ m.transform \in BOOLEAN
  /\ m.op \in Harmless => /\ m.makes \in {<<>>, <<"same">>, <<"parent">>, <<"producer">>}
                          /\ ~m.transform /\ m.op # "fuse_into"
  /\ (m.op \in Consuming /\ ~m.updates) => m.op \in Careless
  /\ m.op = "fuse_into" => m.makes = <<>>

(* Every method of the table is as the proofs need it.                      *)
LEMMA MethodsAre == \A m \in Methods \cup {tile_using_for, tile_using_forall, fuse_into} : IsMethod(m)
<1> USE DEF IsMethod, Method, Transform, Makes, Careless, Harmless, Consuming
<1>1. IsMethod(alloca_to_global) /\ IsMethod(apply_cse) /\ IsMethod(apply_dce)
  BY DEF alloca_to_global, apply_cse, apply_dce
<1>2. IsMethod(apply_licm) /\ IsMethod(apply_patterns) /\ IsMethod(apply_tuning_config)
  BY DEF apply_licm, apply_patterns, apply_tuning_config
<1>3. IsMethod(buffer_loop_hoisting) /\ IsMethod(bufferize_to_allocation) /\ IsMethod(bufferize_destination)
  BY DEF buffer_loop_hoisting, bufferize_to_allocation, bufferize_destination
<1>4. IsMethod(cast) /\ IsMethod(create_async_groups) /\ IsMethod(eliminate_empty_tensors)
  BY DEF cast, create_async_groups, eliminate_empty_tensors
<1>5. IsMethod(foreach) /\ IsMethod(fuse_into) /\ IsMethod(get_parent_op)
  BY DEF foreach, fuse_into, get_parent_op
<1>6. IsMethod(get_producer_of_operand) /\ IsMethod(hoist_pad) /\ IsMethod(hoist_redundant_vector_transfers)
  BY DEF get_producer_of_operand, hoist_pad, hoist_redundant_vector_transfers
<1>7. IsMethod(insert_slice_to_copy) /\ IsMethod(interchange) /\ IsMethod(map_forall_to_blocks)
  BY DEF insert_slice_to_copy, interchange, map_forall_to_blocks
<1>8. IsMethod(map_copy_to_threads) /\ IsMethod(map_nested_forall_to_threads) /\ IsMethod(vectorize)
  BY DEF map_copy_to_threads, map_nested_forall_to_threads, vectorize
<1>9. IsMethod(one_shot_bufferize) /\ IsMethod(pad) /\ IsMethod(print)
  BY DEF one_shot_bufferize, pad, print
<1>10. IsMethod(rewrite_in_destination_passing_style) /\ IsMethod(select) /\ IsMethod(synchronize)
  BY DEF rewrite_in_destination_passing_style, select, synchronize
<1>11. IsMethod(take_assumed_branch) /\ IsMethod(tile_using_for) /\ IsMethod(tile_using_forall)
  BY DEF take_assumed_branch, tile_using_for, tile_using_forall
<1>12. IsMethod(replace_with_alloc_tensor) /\ IsMethod(vectorize_children_and_apply_patterns)
  BY DEF replace_with_alloc_tensor, vectorize_children_and_apply_patterns
<1> HIDE DEF IsMethod
<1> QED BY <1>1, <1>2, <1>3, <1>4, <1>5, <1>6, <1>7, <1>8, <1>9, <1>10, <1>11, <1>12 DEF Methods

(* The results that are new ops come first, and are at most two.            *)
LEMMA FreshOps ==
  ASSUME NEW m, m.makes \in Makes
  PROVE  \E k \in 0 .. 2 :
           /\ Fresh(m) = 1 .. k /\ Cardinality(Fresh(m)) = k
           /\ m.makes = <<"loop">> => k = 1
           /\ Len(m.makes) \in Nat /\ DOMAIN m.makes = 1 .. Len(m.makes)
<1>1. m.makes \in {<<>>, <<"same">>, <<"parent">>, <<"producer">>} => Fresh(m) = 1 .. 0
  BY DEF Fresh
<1>2. m.makes \in {<<"beside">>, <<"beside", "same">>} => Fresh(m) = 1 .. 1
  BY DEF Fresh
<1>3. m.makes = <<"loop">> => Fresh(m) = 1 .. 1
  BY DEF Fresh
<1>4. m.makes = <<"beside", "beside">> => Fresh(m) = 1 .. 2
  BY DEF Fresh
<1>5. ASSUME NEW k \in 0 .. 2
      PROVE  Cardinality(1 .. k) = k
  <2>1. 1 \in Int /\ k \in Int
    OBVIOUS
  <2>2. Cardinality(1 .. k) = IF 1 > k THEN 0 ELSE k - 1 + 1
    BY <2>1, FS_Interval, Zenon
  <2> QED BY <2>2
<1>6. Len(m.makes) \in Nat /\ DOMAIN m.makes = 1 .. Len(m.makes)
  <2> DEFINE K == {"same", "parent", "producer", "loop", "beside"}
  <2>1. /\ <<>> \in Seq(K) /\ <<"same">> \in Seq(K) /\ <<"parent">> \in Seq(K)
        /\ <<"producer">> \in Seq(K) /\ <<"loop">> \in Seq(K) /\ <<"beside">> \in Seq(K)
    OBVIOUS
  <2>2. <<"beside", "same">> \in Seq(K) /\ <<"beside", "beside">> \in Seq(K)
    OBVIOUS
  <2> HIDE DEF K
  <2>3. m.makes \in Seq(K)
    BY <2>1, <2>2 DEF Makes
  <2> QED BY <2>3
<1>7. CASE m.makes = <<"loop">>
  BY <1>3, <1>5, <1>6, <1>7
<1>8. CASE m.makes # <<"loop">>
  <2>1. PICK k \in 0 .. 2 : Fresh(m) = 1 .. k
    BY <1>1, <1>2, <1>4, <1>8 DEF Makes
  <2> QED BY <1>5, <1>6, <1>8, <2>1
<1> QED BY <1>7, <1>8

-----------------------------------------------------------------------------
(* What a method makes of the payload.                                     *)
NumOps == Cardinality(DOMAIN payload)
PayloadTypes == NumOps \in Nat /\ DOMAIN payload = 0 .. NumOps - 1 /\ IsForest(payload)

(* A method that makes ops leaves a forest: a loop encloses its target, any *)
(* other op stands beside it.                                               *)
LEMMA PayloadGrows ==
  ASSUME PayloadTypes, NEW h, Ops(h) \in SUBSET DOMAIN payload,
         NEW m, m.makes \in Makes, m.op # "fuse_into", NEW into
  PROVE  LET ql == NewPayload(h, m, into) IN
         /\ IsForest(ql)
         /\ \E q \in Nat : NumOps <= q /\ DOMAIN ql = 0 .. q - 1
         /\ \A o \in DOMAIN payload : payload[o] \subseteq ql[o]
         /\ \A i \in Fresh(m), s \in Ops(h) : NewOp(NumOps, Ops(h), i, s) \in DOMAIN ql
<1> DEFINE S == Ops(h)  c == Cardinality(S)  n == NumOps  k == Cardinality(Fresh(m))
           q == n + k * c
           ql == NewPayload(h, m, into)
           W(i, s) == NewOp(n, S, i, s)
           loops(o) == IF m.makes = <<"loop">> THEN {W(1, s) : s \in S \cap payload[o]} ELSE {}
           fused(o) == IF m.op = "fuse_into" /\ o \in Inside(S) THEN Around(Ops(into)) ELSE {}
           targets(o) == {s \in S : \E i \in Fresh(m) : W(i, s) = o}
           N == n .. q - 1
           M == {o \in N : targets(o) # {}}
           T == [o \in M |-> CHOOSE s \in S : s \in targets(o)]
           L == IF m.makes = <<"loop">> THEN M ELSE {}
<1>1. /\ k \in 0 .. 2 /\ Fresh(m) = 1 .. k
      /\ m.makes = <<"loop">> => k = 1
  BY FreshOps
<1>2. n \in Nat /\ DOMAIN payload = 0 .. n - 1 /\ S \in SUBSET (0 .. n - 1)
  BY DEF PayloadTypes
<1>3. ql = [o \in 0 .. n + k * c - 1 |->
              IF o < n THEN payload[o] \cup loops(o) \cup fused(o)
              ELSE {o} \cup UNION {(payload[s] \ {s}) \cup loops(s) : s \in targets(o)}]
  BY Zenon DEF NewPayload, NumOps
<1> HIDE DEF S, n, k
<1>4. q = n + k * Cardinality(S)
  OBVIOUS
<1>5. /\ q \in Nat /\ n <= q
      /\ \A i \in 1 .. k : \A s \in S : W(i, s) \in N
      /\ \A i, j \in 1 .. k : \A s, t \in S : W(i, s) = W(j, t) => s = t /\ i = j
  <2>1. k \in 0 .. 2 /\ n \in Nat /\ S \in SUBSET (0 .. n - 1)
    BY <1>1, <1>2
  <2>2. Numbered(n, S, k, q)
    <3> HIDE DEF q
    <3> QED BY <2>1, <1>4, NewOps, Zenon
  <2> HIDE DEF q
  <2> QED BY <2>2 DEF Numbered
<1> HIDE DEF W
<1>6. /\ DOMAIN ql = 0 .. q - 1
      /\ \A o \in 0 .. n - 1 : ql[o] = payload[o] \cup loops(o)
      /\ \A o \in N : ql[o] = {o} \cup UNION {(payload[s] \ {s}) \cup loops(s) : s \in targets(o)}
  <2>1. \A o : fused(o) = {}
    OBVIOUS
  <2>2. /\ \A o \in 0 .. n - 1 : o \in 0 .. q - 1 /\ o < n
        /\ \A o \in N : o \in 0 .. q - 1 /\ ~ (o < n)
    BY <1>2, <1>5
  <2>3. n + k * c - 1 = q - 1
    <3>1. c \in Nat
      BY <1>2, Ranks
    <3> HIDE DEF c
    <3>2. PICK d \in Int : d = k * c
      BY <1>1, <3>1
    <3> QED BY <3>2, <1>2
  <2> HIDE DEF loops, fused, targets, ql, N, q
  <2> QED BY <1>3, <2>1, <2>2, <2>3
<1>7. N \cap DOMAIN payload = {} /\ DOMAIN ql = DOMAIN payload \cup N
  <2> HIDE DEF loops, targets, ql
  <2> QED BY <1>2, <1>5, <1>6
<1> HIDE DEF ql, q, c
<1>8. ASSUME NEW o \in M
      PROVE  T[o] \in S /\ targets(o) = {T[o]} /\ \E i \in 1 .. k : W(i, T[o]) = o
  <2>1. T[o] \in S /\ T[o] \in targets(o)
    <3>1. \E s \in S : s \in targets(o)
      OBVIOUS
    <3>2. T[o] = CHOOSE s \in S : s \in targets(o)
      OBVIOUS
    <3> HIDE DEF targets, T, M
    <3> QED BY <3>1, <3>2
  <2> HIDE DEF T, M, N
  <2>2. \A s \in targets(o) : s = T[o]
    BY <1>1, <1>5, <2>1
  <2>3. \E i \in 1 .. k : W(i, T[o]) = o
    BY <1>1, <2>1
  <2> HIDE DEF targets
  <2> QED BY <2>1, <2>2, <2>3
<1>9. T \in [M -> S]
  <2> HIDE DEF M, targets
  <2>1. T = [o \in M |-> T[o]]
    OBVIOUS
  <2> HIDE DEF T
  <2> QED BY <1>8, <2>1
<1>10. ASSUME m.makes = <<"loop">>
       PROVE  /\ \A s \in S : W(1, s) \in M /\ T[W(1, s)] = s
              /\ \A l \in M : l = W(1, T[l])
  <2>1. 1 .. k = {1}
    BY <1>1, <1>10
  <2>2. ASSUME NEW s \in S
        PROVE  W(1, s) \in M /\ T[W(1, s)] = s
    <3>1. W(1, s) \in N /\ s \in targets(W(1, s))
      <4> HIDE DEF N
      <4> QED BY <2>1, <1>1, <1>5
    <3>2. W(1, s) \in M
      BY <3>1
    <3>3. targets(W(1, s)) = {T[W(1, s)]}
      BY <3>2, <1>8
    <3> HIDE DEF T, M, targets
    <3> QED BY <3>1, <3>2, <3>3
  <2>3. ASSUME NEW l \in M
        PROVE  l = W(1, T[l])
    <3>1. PICK i \in 1 .. k : W(i, T[l]) = l
      BY <1>8
    <3>2. i = 1
      BY <2>1
    <3> QED BY <3>1, <3>2
  <2> HIDE DEF M, T
  <2> QED BY <2>2, <2>3
<1>11. \A o \in 0 .. n - 1 : loops(o) = {l \in L : T[l] \in payload[o]}
  <2>1. CASE m.makes # <<"loop">>
    BY <2>1
  <2>2. CASE m.makes = <<"loop">>
    <3>1. L = M
      BY <2>2
    <3>2. \A o : loops(o) = {W(1, s) : s \in S \cap payload[o]}
      BY <2>2
    <3>3. \A l \in M : T[l] \in S
      BY <1>8
    <3> HIDE DEF T, M, L, loops
    <3>4. \A s \in S : W(1, s) \in M /\ T[W(1, s)] = s
      BY <2>2, <1>10
    <3>5. \A l \in M : l = W(1, T[l])
      BY <2>2, <1>10
    <3>6. ASSUME NEW o, NEW l \in {W(1, s) : s \in S \cap payload[o]}
          PROVE  l \in L /\ T[l] \in payload[o]
      BY <3>1, <3>4
    <3>7. ASSUME NEW o, NEW l \in L, T[l] \in payload[o]
          PROVE  l \in {W(1, s) : s \in S \cap payload[o]}
      BY <3>1, <3>3, <3>5, <3>7
    <3> QED BY <3>2, <3>6, <3>7
  <2> QED BY <2>1, <2>2
<1>12. \A o \in DOMAIN payload : ql[o] = payload[o] \cup {l \in L : T[l] \in payload[o]}
  <2> HIDE DEF loops, targets, T, M, L
  <2> QED BY <1>2, <1>6, <1>11
<1>13. ASSUME NEW o \in M
       PROVE  ql[o] = {o} \cup (payload[T[o]] \ {T[o]}) \cup {l \in L : T[l] \in payload[T[o]]}
  <2>1. o \in N /\ T[o] \in 0 .. n - 1 /\ targets(o) = {T[o]}
    BY <1>2, <1>8
  <2> HIDE DEF loops, targets, T, M, N, L
  <2>2. ql[o] = {o} \cup UNION {(payload[s] \ {s}) \cup loops(s) : s \in {T[o]}}
    BY <1>6, <2>1
  <2>3. ql[o] = {o} \cup ((payload[T[o]] \ {T[o]}) \cup loops(T[o]))
    BY <2>2
  <2> QED BY <2>1, <2>3, <1>11
<1>14. ASSUME NEW o \in N \ M
       PROVE  ql[o] = {o}
  <2>1. o \in N /\ targets(o) = {}
    OBVIOUS
  <2> HIDE DEF loops, targets, M, N
  <2>2. ql[o] = {o} \cup UNION {(payload[s] \ {s}) \cup loops(s) : s \in {}}
    BY <2>1, <1>6
  <2> QED BY <2>2
<1>15. L \in SUBSET M /\ (L = {} \/ L = M) /\ M \in SUBSET N
  OBVIOUS
<1>16. L = {} \/ \A l, j \in L : T[l] = T[j] => l = j
  <2>1. CASE m.makes # <<"loop">>
    BY <2>1
  <2>2. CASE m.makes = <<"loop">>
    <3> HIDE DEF T, M, L
    <3> QED BY <2>2, <1>10, <1>15
  <2> QED BY <2>1, <2>2
<1>17. S \in SUBSET DOMAIN payload
  BY <1>2
<1> HIDE DEF N, M, T, L, loops, targets
<1>18. IsForest(ql)
  <2>1. Grown(payload, S, N, M, T, L, ql)
    BY <1>7, <1>9, <1>12, <1>13, <1>14, <1>15, <1>16, <1>17 DEF Grown
  <2> QED BY <2>1, ForestGrows DEF PayloadTypes
<1>19. \A i \in Fresh(m), s \in S : W(i, s) \in DOMAIN ql
  BY <1>1, <1>5, <1>7
<1>20. \A o \in DOMAIN payload : payload[o] \subseteq ql[o]
  BY <1>12
<1> QED BY <1>5, <1>6, <1>18, <1>19, <1>20 DEF ql, W, S, n

(* The ops that are fused stay where they are and move into another one.   *)
LEMMA PayloadFuses ==
  ASSUME PayloadTypes, NEW h, Ops(h) \in SUBSET DOMAIN payload,
         NEW into, NEW c \in DOMAIN payload, Ops(into) = {c},
         \A s \in Ops(h) : payload[s] \ {s} \subseteq payload[c] /\ s \notin payload[c]
  PROVE  LET ql == NewPayload(h, fuse_into, into) IN
         /\ IsForest(ql)
         /\ DOMAIN ql = DOMAIN payload
         /\ \A o \in DOMAIN payload : payload[o] \subseteq ql[o]
<1> DEFINE S == Ops(h)  ql == NewPayload(h, fuse_into, into)  n == NumOps
           fused(o) == IF o \in Inside(S) THEN Around(Ops(into)) ELSE {}
           none(o) == {s \in S : \E i \in {} : NewOp(n, S, i, s) = o}
<1>1. fuse_into.op = "fuse_into" /\ fuse_into.makes = <<>>
  BY DEF fuse_into, Transform
<1>2. Fresh(fuse_into) = {} /\ Cardinality(Fresh(fuse_into)) = 0
  BY <1>1, FS_EmptySet DEF Fresh
<1>3. DOMAIN ql = 0 .. n + 0 * Cardinality(S) - 1
  BY <1>2 DEF NewPayload, NumOps
<1>4. DOMAIN ql = DOMAIN payload
  <2>1. n \in Nat /\ DOMAIN payload = 0 .. n - 1 /\ S \in SUBSET (0 .. n - 1)
    BY DEF PayloadTypes
  <2>2. Cardinality(S) \in Nat
    BY <2>1, Ranks
  <2> HIDE DEF n, S, ql
  <2>3. 0 * Cardinality(S) = 0
    BY <2>2
  <2> QED BY <1>3, <2>1, <2>3
<1>5. Around(Ops(into)) = payload[c] /\ \A o \in DOMAIN payload : o \in Inside(S) <=> payload[o] \cap S # {}
  BY DEF Around, Inside
<1>6. ASSUME NEW o \in DOMAIN payload
      PROVE  ql[o] = IF payload[o] \cap S # {} THEN payload[o] \cup payload[c] ELSE payload[o]
  <2>1. o \in 0 .. n - 1 /\ o < n
    BY DEF PayloadTypes
  <2>2. ql[o] = payload[o] \cup {} \cup fused(o)
    <3>1. o \in DOMAIN ql
      BY <1>4
    <3>2. ~ (fuse_into.makes = <<"loop">>)
      BY <1>1
    <3> QED BY <2>1, <3>1, <3>2, <1>1, <1>3 DEF NewPayload, NumOps
  <2> HIDE DEF S, ql
  <2> QED BY <2>2, <1>5
<1>7. IsForest(ql)
  <2>1. IsForest(payload) /\ S \in SUBSET DOMAIN payload
    BY DEF PayloadTypes
  <2> HIDE DEF ql
  <2>2. Fused(payload, S, c, ql)
    BY <2>1, <1>4, <1>6 DEF Fused
  <2> QED BY <2>1, <2>2, ForestFuses
<1> HIDE DEF ql
<1>8. \A o \in DOMAIN payload : payload[o] \subseteq ql[o]
  BY <1>6
<1> QED BY <1>4, <1>7, <1>8 DEF ql

-----------------------------------------------------------------------------
(* What the state looks like.                                              *)
ValueType == [ops : SUBSET DOMAIN payload, live : BOOLEAN]
HandleTypes ==
  /\ values \in Seq(ValueType)
  /\ handles \in Seq(HandleType) /\ Parented(handles)
  /\ \A h \in Handles : handles[h].value \in 1 .. Len(values)
Types == PayloadTypes /\ HandleTypes /\ DOMAIN kind = DOMAIN payload

(* What the types say of one handle.                                        *)
LEMMA HandleParts ==
  ASSUME Types, NEW h \in Handles
  PROVE  /\ handles[h] \in HandleType /\ handles[h].value \in 1 .. Len(values)
         /\ handles[h].parent \in 0 .. h - 1
         /\ values[handles[h].value] \in ValueType
         /\ Ops(h) \in SUBSET DOMAIN payload /\ Live(h) \in BOOLEAN
<1>1. values[handles[h].value] \in ValueType
  BY DEF Types, HandleTypes
<1> QED BY <1>1 DEF Types, HandleTypes, Handles, Parented, Ops, Live, ValueType

(* The setter of the normal form changes nothing else.                     *)
Reached(hs, h, form) ==
  {h} \cup (IF form.propagate_up THEN propagate_up_normalform(hs, h) ELSE {})
      \cup (IF form.propagate_down THEN propagate_down_normalform(hs, h) ELSE {})
FormsSet(hs, h, form, e, gs) ==
  /\ gs \in Seq(HandleType) /\ Len(gs) = Len(hs)
  /\ \A g \in 1 .. Len(hs) :
       /\ gs[g].value = hs[g].value /\ gs[g].parent = hs[g].parent /\ gs[g].lost = hs[g].lost
       /\ g \in Reached(hs, h, form) => gs[g].normalform = form /\ gs[g].excuse = e
       /\ g \notin Reached(hs, h, form) => gs[g] = hs[g]

(* So says the setter.                                                      *)
LEMMA Setter ==
  ASSUME NEW hs \in Seq(HandleType), NEW h, NEW form \in Forms, NEW e \in SUBSET Excuses
  PROVE  FormsSet(hs, h, form, e, set_normalform(hs, h, form, e))
<1> DEFINE gs == set_normalform(hs, h, form, e)
           one(g) == [hs[g] EXCEPT !.normalform = form, !.excuse = e]
<1>1. gs = [g \in 1 .. Len(hs) |-> IF g \in Reached(hs, h, form) THEN one(g) ELSE hs[g]]
  BY DEF set_normalform, Reached
<1>2. ASSUME NEW g \in 1 .. Len(hs)
      PROVE  /\ hs[g] \in HandleType /\ one(g) \in HandleType
             /\ one(g).value = hs[g].value /\ one(g).parent = hs[g].parent /\ one(g).lost = hs[g].lost
             /\ one(g).normalform = form /\ one(g).excuse = e
  <2>1. PICK r \in HandleType : r = hs[g]
    OBVIOUS
  <2>2. one(g) = [r EXCEPT !.normalform = form, !.excuse = e]
    BY <2>1
  <2> HIDE DEF one
  <2> QED BY <2>1, <2>2 DEF HandleType
<1> HIDE DEF one, gs
<1>3. gs \in Seq(HandleType) /\ Len(gs) = Len(hs)
  <2>1. gs \in [1 .. Len(hs) -> HandleType]
    BY <1>1, <1>2
  <2> QED BY <2>1
<1> QED BY <1>1, <1>2, <1>3 DEF gs, FormsSet

-----------------------------------------------------------------------------
(* What a method does to the handles and to the values.                    *)
First(m) == Len(values) + (IF m.updates THEN 1 ELSE 0)

(* The results of a method are a sequence.                                  *)
LEMMA MakesLen ==
  ASSUME NEW m, IsMethod(m)
  PROVE  Len(m.makes) \in Nat /\ DOMAIN m.makes = 1 .. Len(m.makes)
BY FreshOps DEF IsMethod

(* The old handles keep their place and the new ones follow.                *)
LEMMA EmittedIs ==
  ASSUME Types, NEW h \in Handles, NEW m, IsMethod(m)
  PROVE  LET es == Emitted(h, m) IN
         /\ es \in Seq(HandleType) /\ Len(es) = Len(handles) + Len(m.makes)
         /\ \A g \in Handles :
              /\ es[g].value = IF g = h /\ m.updates THEN First(m) ELSE handles[g].value
              /\ es[g].parent = handles[g].parent /\ es[g].normalform = handles[g].normalform
              /\ handles[g].excuse \subseteq es[g].excuse
              /\ (handles[g].normalform = LoopNormalform /\ m.op \notin Harmless) =>
                   (es[g].excuse \ {"narrow"} # {} \/ (m.transform /\ Related(handles, g, h)))
              /\ ~Invalidates(h, m, handles[g].value) => es[g].lost = handles[g].lost
              /\ (Invalidates(h, m, handles[g].value) /\ g # h) => "other" \in es[g].lost
              /\ (Invalidates(h, m, handles[g].value) /\ g = h /\ ~m.updates) => m.op \in es[g].lost
         /\ \A i \in 1 .. Len(m.makes) : es[Len(handles) + i] = NewHandle(First(m) + i, 0)
<1> DEFINE k == Len(m.makes)
           lost(g) == IF ~Invalidates(h, m, handles[g].value) THEN handles[g].lost
                      ELSE IF g # h THEN handles[g].lost \cup {"other"}
                      ELSE IF m.updates THEN {} ELSE handles[g].lost \cup {m.op}
           excuse(g) == IF m.op \in Harmless \/ handles[g].normalform # LoopNormalform THEN {}
                        ELSE IF ~m.transform THEN {"untracked"}
                        ELSE IF Related(handles, g, h) THEN {} ELSE {"sibling"}
           one(g) == [handles[g] EXCEPT
                        !.value = IF g = h /\ m.updates THEN First(m) ELSE @,
                        !.lost = lost(g), !.excuse = @ \cup excuse(g)]
           old == [g \in Handles |-> one(g)]
           new == [i \in DOMAIN m.makes |-> NewHandle(First(m) + i, 0)]
<1>1. Emitted(h, m) = old \o new
  BY DEF Emitted, First
<1>2. k \in Nat /\ DOMAIN m.makes = 1 .. k
  BY MakesLen
<1>3. First(m) \in Nat
  BY DEF First, Types, HandleTypes
<1>4. ASSUME NEW g \in Handles
      PROVE  /\ one(g) \in HandleType
             /\ one(g).value = IF g = h /\ m.updates THEN First(m) ELSE handles[g].value
             /\ one(g).parent = handles[g].parent /\ one(g).normalform = handles[g].normalform
             /\ one(g).lost = lost(g) /\ one(g).excuse = handles[g].excuse \cup excuse(g)
  <2>1. PICK r \in HandleType : r = handles[g]
    BY HandleParts
  <2>2. lost(g) \in SUBSET (Consuming \cup {"other"}) /\ excuse(g) \in SUBSET Excuses
    <3>1. Invalidates(h, m, handles[g].value) => m.op \in Consuming
      BY DEF Invalidates
    <3> QED BY <2>1, <3>1 DEF HandleType, Excuses
  <2>3. PICK v : v = IF g = h /\ m.updates THEN First(m) ELSE handles[g].value
    OBVIOUS
  <2>4. PICK x : x = handles[g].excuse \cup excuse(g)
    OBVIOUS
  <2>5. one(g) = [r EXCEPT !.value = v, !.lost = lost(g), !.excuse = x]
    BY <2>1, <2>3, <2>4
  <2>6. v \in Nat /\ x \in SUBSET Excuses
    <3> HIDE DEF excuse
    <3> QED BY <2>1, <2>2, <2>3, <2>4, <1>3 DEF HandleType
  <2> HIDE DEF one, lost, excuse
  <2>7. one(g) \in HandleType
    BY <2>1, <2>2, <2>5, <2>6 DEF HandleType
  <2>8. /\ one(g).value = v /\ one(g).lost = lost(g) /\ one(g).excuse = x
        /\ one(g).parent = r.parent /\ one(g).normalform = r.normalform
    BY <2>1, <2>5 DEF HandleType
  <2> QED BY <2>1, <2>3, <2>4, <2>7, <2>8
<1>5. \A i \in 1 .. k : NewHandle(First(m) + i, 0) \in HandleType
  BY <1>2, <1>3 DEF NewHandle, HandleType, Forms
<1> HIDE DEF one
<1>6. old \in Seq(HandleType) /\ Len(old) = Len(handles) /\ \A g \in Handles : old[g] = one(g)
  <2>1. old \in [Handles -> HandleType]
    BY <1>4
  <2>2. \A g \in Handles : old[g] = one(g)
    OBVIOUS
  <2>3. Len(handles) \in Nat /\ Handles = 1 .. Len(handles)
    BY DEF Types, HandleTypes, Handles
  <2> HIDE DEF old
  <2> QED BY <2>1, <2>2, <2>3
<1>7. new \in Seq(HandleType) /\ Len(new) = k /\ \A i \in 1 .. k : new[i] = NewHandle(First(m) + i, 0)
  <2>1. new \in [1 .. k -> HandleType]
    BY <1>2, <1>5
  <2>2. \A i \in 1 .. k : new[i] = NewHandle(First(m) + i, 0)
    BY <1>2
  <2> HIDE DEF new, k
  <2> QED BY <2>1, <2>2, <1>2
<1> DEFINE es == Emitted(h, m)
<1>8. /\ es \in Seq(HandleType) /\ Len(es) = Len(handles) + k
      /\ \A g \in Handles : es[g] = one(g)
      /\ \A i \in 1 .. k : es[Len(handles) + i] = NewHandle(First(m) + i, 0)
  <2>1. Len(handles) \in Nat /\ Handles = 1 .. Len(handles)
    BY DEF Types, HandleTypes, Handles
  <2>2. /\ old \o new \in Seq(HandleType) /\ Len(old \o new) = Len(old) + Len(new)
        /\ \A i \in 1 .. Len(old) + Len(new) :
             (old \o new)[i] = IF i <= Len(old) THEN old[i] ELSE new[i - Len(old)]
    <3>1. old \in Seq(HandleType) /\ new \in Seq(HandleType)
      BY <1>6, <1>7
    <3> HIDE DEF old, new
    <3> QED BY <3>1, ConcatProperties
  <2> HIDE DEF old, new, k
  <2>3. ASSUME NEW g \in Handles
        PROVE  es[g] = one(g)
    <3>1. g \in 1 .. Len(old) + Len(new) /\ g <= Len(old)
      BY <1>2, <1>6, <1>7, <2>1
    <3> QED BY <3>1, <2>2, <1>1, <1>6
  <2>4. ASSUME NEW i \in 1 .. k
        PROVE  es[Len(handles) + i] = NewHandle(First(m) + i, 0)
    <3> DEFINE j == Len(handles) + i
    <3>1. j \in 1 .. Len(old) + Len(new) /\ ~ (j <= Len(old)) /\ j - Len(old) = i
      BY <1>2, <1>6, <1>7, <2>1
    <3> HIDE DEF j
    <3>2. es[j] = new[j - Len(old)]
      BY <3>1, <2>2, <1>1
    <3> QED BY <3>1, <3>2, <1>7 DEF j
  <2> QED BY <1>1, <1>6, <1>7, <2>2, <2>3, <2>4
<1>9. ASSUME NEW g \in Handles
      PROVE  /\ handles[g].excuse \subseteq es[g].excuse
             /\ (handles[g].normalform = LoopNormalform /\ m.op \notin Harmless) =>
                   (es[g].excuse \ {"narrow"} # {} \/ (m.transform /\ Related(handles, g, h)))
             /\ ~Invalidates(h, m, handles[g].value) => es[g].lost = handles[g].lost
             /\ (Invalidates(h, m, handles[g].value) /\ g # h) => "other" \in es[g].lost
             /\ (Invalidates(h, m, handles[g].value) /\ g = h /\ ~m.updates) => m.op \in es[g].lost
  <2>1. es[g].lost = lost(g) /\ es[g].excuse = handles[g].excuse \cup excuse(g)
    BY <1>4, <1>8
  <2> HIDE DEF es
  <2> QED BY <2>1
<1> HIDE DEF es, lost, excuse
<1> QED BY <1>4, <1>8, <1>9 DEF es

(* A method keeps the ops of the old values, leaves values live only if     *)
(* they were, and adds live ones.                                           *)
ValuesMade(h, m, D, vs) ==
  /\ vs \in Seq([ops : SUBSET D, live : BOOLEAN]) /\ Len(vs) = First(m) + Len(m.makes)
  /\ \A v \in 1 .. Len(values) :
       /\ vs[v].ops = values[v].ops
       /\ vs[v].live => values[v].live
       /\ ~Invalidates(h, m, v) => vs[v].live = values[v].live
  /\ m.updates => vs[First(m)].ops = Ops(h) /\ vs[First(m)].live
  /\ \A i \in 1 .. Len(m.makes) : vs[First(m) + i].live

(* The values after a method are of that kind.                              *)
LEMMA NewValuesAre ==
  ASSUME Types, NEW h \in Handles, NEW m, IsMethod(m), NEW other,
         NEW D, DOMAIN payload \subseteq D,
         \A i \in 1 .. Len(m.makes) : MadeOps(h, m, i, other) \subseteq D
  PROVE  ValuesMade(h, m, D, NewValues(h, m, other))
<1> DEFINE k == Len(m.makes)
           V == [ops : SUBSET D, live : BOOLEAN]
           one(v) == [values[v] EXCEPT !.live = @ /\ ~Invalidates(h, m, v)]
           old == [v \in DOMAIN values |-> one(v)]
           mine == IF m.updates THEN <<[ops |-> Ops(h), live |-> TRUE]>> ELSE <<>>
           new == [i \in DOMAIN m.makes |-> [ops |-> MadeOps(h, m, i, other), live |-> TRUE]]
           vs == NewValues(h, m, other)
<1>1. vs = (old \o mine) \o new
  BY DEF NewValues
<1>2. k \in Nat /\ DOMAIN m.makes = 1 .. k
  BY MakesLen
<1>3. Len(values) \in Nat /\ DOMAIN values = 1 .. Len(values)
  BY DEF Types, HandleTypes
<1>4. ASSUME NEW v \in 1 .. Len(values)
      PROVE  /\ one(v) \in V /\ one(v).ops = values[v].ops /\ (one(v).live => values[v].live)
             /\ ~Invalidates(h, m, v) => one(v).live = values[v].live
  <2>1. values[v] \in ValueType
    BY DEF Types, HandleTypes
  <2>2. values[v].ops \in SUBSET D /\ values[v].live \in BOOLEAN
    BY <2>1 DEF ValueType
  <2>3. PICK r \in ValueType, b \in BOOLEAN : r = values[v] /\ b = (values[v].live /\ ~Invalidates(h, m, v))
    BY <2>1
  <2>4. one(v) = [r EXCEPT !.live = b]
    BY <2>3
  <2>5. /\ [r EXCEPT !.live = b].ops = values[v].ops /\ [r EXCEPT !.live = b].live = b
        /\ [r EXCEPT !.live = b] \in V
    BY <2>2, <2>3 DEF ValueType
  <2>6. b => values[v].live
    BY <2>3
  <2>7. ~Invalidates(h, m, v) => b = values[v].live
    BY <2>2, <2>3
  <2> HIDE DEF one, V
  <2> QED BY <2>4, <2>5, <2>6, <2>7
<1>5. old \in Seq(V) /\ Len(old) = Len(values) /\ \A v \in 1 .. Len(values) : old[v] = one(v)
  <2>1. old \in [1 .. Len(values) -> V]
    BY <1>3, <1>4
  <2>2. \A v \in 1 .. Len(values) : old[v] = one(v)
    BY <1>3
  <2> HIDE DEF old, V
  <2> QED BY <2>1, <2>2, <1>3
<1>6. Ops(h) \in SUBSET D
  BY HandleParts
<1>7. /\ mine \in Seq(V) /\ Len(mine) = IF m.updates THEN 1 ELSE 0
      /\ m.updates => mine[1] = [ops |-> Ops(h), live |-> TRUE]
  <2>1. CASE m.updates
    <3>1. [ops |-> Ops(h), live |-> TRUE] \in V
      BY <1>6
    <3>2. mine = <<[ops |-> Ops(h), live |-> TRUE]>>
      BY <2>1
    <3> HIDE DEF mine, V
    <3> QED BY <2>1, <3>1, <3>2
  <2>2. CASE ~m.updates
    BY <2>2
  <2> QED BY <2>1, <2>2
<1>8. new \in Seq(V) /\ Len(new) = k /\ \A i \in 1 .. k : new[i].live
  <2>1. ASSUME NEW i \in 1 .. k
        PROVE  new[i] = [ops |-> MadeOps(h, m, i, other), live |-> TRUE] /\ new[i] \in V /\ new[i].live
    BY <1>2
  <2>2. new \in [1 .. k -> V]
    BY <1>2
  <2> HIDE DEF new, k, V
  <2> QED BY <2>1, <2>2, <1>2
<1> HIDE DEF one, old, mine, new, V, k
<1>9. /\ old \o mine \in Seq(V) /\ Len(old \o mine) = Len(old) + Len(mine)
      /\ \A i \in 1 .. Len(old) + Len(mine) :
           (old \o mine)[i] = IF i <= Len(old) THEN old[i] ELSE mine[i - Len(old)]
  <2>1. old \in Seq(V) /\ mine \in Seq(V)
    BY <1>5, <1>7
  <2> QED BY <2>1, ConcatProperties
<1> DEFINE both == old \o mine
<1>10. vs = both \o new
  BY <1>1
<1>11. /\ both \o new \in Seq(V) /\ Len(both \o new) = Len(both) + Len(new)
       /\ \A i \in 1 .. Len(both) + Len(new) :
            (both \o new)[i] = IF i <= Len(both) THEN both[i] ELSE new[i - Len(both)]
  <2>1. both \in Seq(V) /\ new \in Seq(V)
    BY <1>8, <1>9
  <2> HIDE DEF both
  <2> QED BY <2>1, ConcatProperties
<1>12. First(m) \in Nat /\ Len(both) = First(m) /\ First(m) = Len(values) + Len(mine) /\ Len(mine) \in Nat
  BY <1>3, <1>5, <1>7, <1>9 DEF First
<1>13. vs \in Seq(V) /\ Len(vs) = First(m) + k
  BY <1>1, <1>8, <1>11, <1>12
<1>14. ASSUME NEW v \in 1 .. Len(values)
       PROVE  vs[v] = one(v)
  <2>1. v \in 1 .. Len(both) + Len(new) /\ v <= Len(both) /\ v \in 1 .. Len(old) + Len(mine) /\ v <= Len(old)
    BY <1>2, <1>3, <1>5, <1>8, <1>12
  <2>2. vs[v] = both[v]
    <3> HIDE DEF both
    <3> QED BY <2>1, <1>10, <1>11
  <2>3. both[v] = old[v]
    BY <2>1, <1>9
  <2> QED BY <2>2, <2>3, <1>5
<1>15. ASSUME m.updates
       PROVE  vs[First(m)] = [ops |-> Ops(h), live |-> TRUE]
  <2> DEFINE v == First(m)
  <2>1. v \in 1 .. Len(both) + Len(new) /\ v <= Len(both) /\ v \in 1 .. Len(old) + Len(mine) /\ ~ (v <= Len(old)) /\ v - Len(old) = 1
    BY <1>2, <1>3, <1>5, <1>7, <1>8, <1>12, <1>15
  <2> HIDE DEF v
  <2>2. vs[v] = both[v]
    <3> HIDE DEF both
    <3> QED BY <2>1, <1>10, <1>11
  <2>3. both[v] = mine[v - Len(old)]
    BY <2>1, <1>9
  <2> QED BY <2>1, <2>2, <2>3, <1>7, <1>15 DEF v
<1>16. ASSUME NEW i \in 1 .. k
       PROVE  vs[First(m) + i].live
  <2> DEFINE v == First(m) + i
  <2>1. v \in 1 .. Len(both) + Len(new) /\ ~ (v <= Len(both)) /\ v - Len(both) = i
    BY <1>2, <1>8, <1>12
  <2> HIDE DEF v
  <2>2. vs[v] = new[v - Len(both)]
    <3> HIDE DEF both
    <3> QED BY <2>1, <1>10, <1>11
  <2> QED BY <2>1, <2>2, <1>8 DEF v
<1> HIDE DEF vs
<1>17. m.updates => vs[First(m)].ops = Ops(h) /\ vs[First(m)].live
  BY <1>15
<1> QED BY <1>4, <1>13, <1>14, <1>16, <1>17 DEF vs, V, k, ValuesMade

(* The two normal forms, and where they propagate.                          *)
LEMMA FormsDiffer == AnyForm # LoopNormalform /\ AnyForm.propagate_up /\ AnyForm.propagate_down
                     /\ ~LoopNormalform.propagate_up /\ LoopNormalform.propagate_down
BY DEF AnyForm, LoopNormalform

(* After a transform no handle that was told of it is in loop normal form,  *)
(* and the others have an excuse.                                          *)
LEMMA TransformedAre ==
  ASSUME Types, NEW h \in Handles, NEW m, IsMethod(m)
  PROVE  LET gs == jasc_transform(Emitted(h, m), h, m)  es == Emitted(h, m) IN
         /\ gs \in Seq(HandleType) /\ Len(gs) = Len(handles) + Len(m.makes)
         /\ \A g \in Handles :
              /\ gs[g].value = es[g].value /\ gs[g].parent = handles[g].parent /\ gs[g].lost = es[g].lost
              /\ gs[g].normalform = LoopNormalform =>
                   /\ handles[g].normalform = LoopNormalform
                   /\ handles[g].excuse \subseteq gs[g].excuse
                   /\ m.op \notin Harmless => gs[g].excuse \ {"narrow"} # {}
         /\ \A i \in 1 .. Len(m.makes) :
              /\ gs[Len(handles) + i].value = First(m) + i /\ gs[Len(handles) + i].parent = 0
              /\ gs[Len(handles) + i].normalform = AnyForm
<1> DEFINE es == Emitted(h, m)  gs == jasc_transform(es, h, m)  k == Len(m.makes)
<1>1. /\ es \in Seq(HandleType) /\ Len(es) = Len(handles) + k
      /\ \A g \in Handles :
           /\ es[g].parent = handles[g].parent /\ es[g].normalform = handles[g].normalform
           /\ handles[g].excuse \subseteq es[g].excuse
           /\ (handles[g].normalform = LoopNormalform /\ m.op \notin Harmless) =>
                   (es[g].excuse \ {"narrow"} # {} \/ (m.transform /\ Related(handles, g, h)))
  BY EmittedIs
<1>2. \A i \in 1 .. k : es[Len(handles) + i] = NewHandle(First(m) + i, 0)
  BY EmittedIs
<1>3. /\ Len(handles) \in Nat /\ Handles = 1 .. Len(handles) /\ k \in Nat /\ Parented(handles)
      /\ Len(es) \in Nat
  BY <1>1, MakesLen DEF Types, HandleTypes, Handles
<1> HIDE DEF es, k
<1>4. \A i \in 1 .. k : /\ es[Len(handles) + i].value = First(m) + i
                        /\ es[Len(handles) + i].parent = 0 /\ es[Len(handles) + i].normalform = AnyForm
  <2>1. \A v : NewHandle(v, 0).value = v /\ NewHandle(v, 0).parent = 0 /\ NewHandle(v, 0).normalform = AnyForm
    BY DEF NewHandle
  <2> QED BY <1>2, <2>1
<1>5. CASE ~m.transform
  <2>1. gs = es
    BY <1>5 DEF jasc_transform
  <2> QED BY <1>1, <1>4, <1>5, <2>1 DEF es, k
<1>6. CASE m.transform
  <2>1. gs = set_normalform(es, h, AnyForm, {})
    BY <1>6 DEF jasc_transform
  <2>2. AnyForm \in Forms /\ {} \in SUBSET Excuses
    BY DEF Forms
  <2>3. /\ gs \in Seq(HandleType) /\ Len(gs) = Len(es)
        /\ \A g \in 1 .. Len(es) :
             /\ gs[g].value = es[g].value /\ gs[g].parent = es[g].parent /\ gs[g].lost = es[g].lost
             /\ g \in Reached(es, h, AnyForm) => gs[g].normalform = AnyForm
             /\ g \notin Reached(es, h, AnyForm) => gs[g] = es[g]
    <3>1. es \in Seq(HandleType)
      BY <1>1
    <3>2. FormsSet(es, h, AnyForm, {}, gs)
      BY <2>1, <2>2, <3>1, Setter
    <3> HIDE DEF gs
    <3> QED BY <3>2 DEF FormsSet
  <2> HIDE DEF gs
  <2>4. Parented(es)
    <3>1. ASSUME NEW g \in 1 .. Len(es)
          PROVE  es[g].parent \in 0 .. g - 1
      <4>1. CASE g \in Handles
        BY <4>1, <1>1, <1>3 DEF Parented
      <4>2. CASE g \notin Handles
        <5>1. g - Len(handles) \in 1 .. k /\ Len(handles) + (g - Len(handles)) = g
          BY <4>2, <1>1, <1>3
        <5>2. es[g].parent = 0
          BY <5>1, <1>4
        <5> QED BY <5>2
      <4> QED BY <4>1, <4>2
    <3> QED BY <3>1 DEF Parented
  <2>5. \A g \in Handles : Ancestors(es)[g] = Ancestors(handles)[g]
    <3>1. Len(handles) <= Len(es) /\ \A g \in 1 .. Len(handles) : es[g].parent = handles[g].parent
      BY <1>1, <1>3
    <3>2. \A g \in 1 .. Len(handles) : Ancestors(es)[g] = Ancestors(handles)[g]
      BY <3>1, <1>3, <2>4, AncestorsKept
    <3> QED BY <3>2, <1>3
  <2>6. \A g \in Handles : Related(handles, g, h) => g \in Reached(es, h, AnyForm)
    <3>1. Handles \subseteq 1 .. Len(es)
      BY <1>1, <1>3
    <3>2. Reached(es, h, AnyForm) = {h} \cup Ancestors(es)[h] \cup {c \in 1 .. Len(es) : h \in Ancestors(es)[c]}
      BY FormsDiffer DEF Reached, propagate_up_normalform, propagate_down_normalform
    <3> QED BY <3>1, <3>2, <2>5 DEF Related
  <2>7. ASSUME NEW g \in Handles
        PROVE  /\ gs[g].value = es[g].value /\ gs[g].parent = handles[g].parent /\ gs[g].lost = es[g].lost
               /\ gs[g].normalform = LoopNormalform =>
                    /\ handles[g].normalform = LoopNormalform
                    /\ handles[g].excuse \subseteq gs[g].excuse
                    /\ m.op \notin Harmless => gs[g].excuse \ {"narrow"} # {}
    <3>1. g \in 1 .. Len(es)
      BY <1>1, <1>3
    <3>2. gs[g].value = es[g].value /\ gs[g].parent = handles[g].parent /\ gs[g].lost = es[g].lost
      BY <3>1, <2>3, <1>1
    <3>3. CASE g \in Reached(es, h, AnyForm)
      <4>1. gs[g].normalform # LoopNormalform
        BY <3>1, <3>3, <2>3, FormsDiffer
      <4> QED BY <3>2, <4>1
    <3>4. CASE g \notin Reached(es, h, AnyForm)
      <4>1. gs[g] = es[g] /\ ~Related(handles, g, h)
        BY <3>1, <3>4, <2>3, <2>6
      <4> QED BY <3>2, <4>1, <1>1
    <3> QED BY <3>3, <3>4
  <2>8. ASSUME NEW i \in 1 .. k
        PROVE  /\ gs[Len(handles) + i].value = First(m) + i /\ gs[Len(handles) + i].parent = 0
               /\ gs[Len(handles) + i].normalform = AnyForm
    <3> DEFINE g == Len(handles) + i
    <3>1. g \in 1 .. Len(es)
      BY <1>1, <1>3
    <3>2. es[g].value = First(m) + i /\ es[g].parent = 0 /\ es[g].normalform = AnyForm
      BY <1>4
    <3> HIDE DEF g
    <3>3. gs[g].normalform = AnyForm
      BY <3>1, <3>2, <2>3
    <3> QED BY <3>1, <3>2, <3>3, <2>3 DEF g
  <2>9. Len(gs) = Len(handles) + k
    BY <1>1, <2>3
  <2> QED BY <2>3, <2>7, <2>8, <2>9 DEF gs, es, k
<1>7. m.transform \in BOOLEAN
  BY DEF IsMethod
<1> QED BY <1>5, <1>6, <1>7

-----------------------------------------------------------------------------
(* The inductive invariant.  A handle stands for ops inside those of its    *)
(* ancestors, so that what is normalised through an ancestor is normalised  *)
(* for it; a handle that believes in loop normal form and has no excuse at  *)
(* all knows it of the functions around its ops too.                        *)
Enclosed == \A g \in Handles : \A a \in Ancestors(handles)[g] : Ops(g) \subseteq Inside(Ops(a))
Believed ==
  \A h \in Handles : (Live(h) /\ handles[h].normalform = LoopNormalform) =>
    /\ handles[h].excuse \ {"narrow"} = {} => Ops(h) \subseteq normal
    /\ handles[h].excuse = {} => ParentFuncs(h) \subseteq normal
ScheduleInv == Types /\ Enclosed /\ Believed /\ LostOnlyToOthers /\ TransformsPrepared

(* What a call of a method leaves of a handle, and what it makes.           *)
Kept(g, m) ==
  /\ handles'[g].parent = handles[g].parent /\ handles'[g].value \in 1 .. Len(values')
  /\ Ops(g)' = Ops(g) /\ (Live(g)' => Live(g))
  /\ \/ handles'[g].lost = handles[g].lost /\ Live(g)' = Live(g)
     \/ Live(g)'
     \/ handles'[g].lost \cap (Careless \cup {"other"}) # {}
  /\ handles'[g].normalform = LoopNormalform =>
       /\ handles[g].normalform = LoopNormalform /\ handles[g].excuse \subseteq handles'[g].excuse
       /\ m.op \notin Harmless => handles'[g].excuse \ {"narrow"} # {}
Added(g) ==
  /\ handles'[g].parent = 0 /\ handles'[g].value \in 1 .. Len(values')
  /\ handles'[g].normalform = AnyForm /\ Live(g)'
Applied(m) ==
  /\ values' \in Seq([ops : SUBSET DOMAIN payload', live : BOOLEAN]) /\ handles' \in Seq(HandleType)
  /\ Len(handles) <= Len(handles')
  /\ \A g \in Handles : Kept(g, m)
  /\ \A g \in 1 .. Len(handles') : g \notin Handles => Added(g)

(* A method keeps the old handles so, and adds handles without a parent.    *)
LEMMA MethodApplied ==
  ASSUME Types, NEW h \in Handles, NEW m, IsMethod(m), Live(h), NEW other,
         DOMAIN payload \subseteq DOMAIN payload',
         \A i \in 1 .. Len(m.makes) : MadeOps(h, m, i, other) \subseteq DOMAIN payload',
         handles' = jasc_transform(Emitted(h, m), h, m), values' = NewValues(h, m, other)
  PROVE  Applied(m)
<1> DEFINE es == Emitted(h, m)  k == Len(m.makes)  D == DOMAIN payload'
<1>1. /\ handles' \in Seq(HandleType) /\ Len(handles') = Len(handles) + k
      /\ \A g \in Handles :
              /\ handles'[g].value = es[g].value /\ handles'[g].parent = handles[g].parent
              /\ handles'[g].lost = es[g].lost
              /\ handles'[g].normalform = LoopNormalform =>
                   /\ handles[g].normalform = LoopNormalform
                   /\ handles[g].excuse \subseteq handles'[g].excuse
                   /\ m.op \notin Harmless => handles'[g].excuse \ {"narrow"} # {}
      /\ \A i \in 1 .. k :
              /\ handles'[Len(handles) + i].value = First(m) + i /\ handles'[Len(handles) + i].parent = 0
              /\ handles'[Len(handles) + i].normalform = AnyForm
  BY TransformedAre
<1>2. \A g \in Handles :
        /\ es[g].value = IF g = h /\ m.updates THEN First(m) ELSE handles[g].value
        /\ ~Invalidates(h, m, handles[g].value) => es[g].lost = handles[g].lost
        /\ (Invalidates(h, m, handles[g].value) /\ g # h) => "other" \in es[g].lost
        /\ (Invalidates(h, m, handles[g].value) /\ g = h /\ ~m.updates) => m.op \in es[g].lost
  BY EmittedIs
<1>3. /\ values' \in Seq([ops : SUBSET D, live : BOOLEAN]) /\ Len(values') = First(m) + k
      /\ \A v \in 1 .. Len(values) :
              /\ values'[v].ops = values[v].ops
              /\ values'[v].live => values[v].live
              /\ ~Invalidates(h, m, v) => values'[v].live = values[v].live
      /\ m.updates => values'[First(m)].ops = Ops(h) /\ values'[First(m)].live
      /\ \A i \in 1 .. k : values'[First(m) + i].live
  <2>1. DOMAIN payload \subseteq D /\ \A i \in 1 .. Len(m.makes) : MadeOps(h, m, i, other) \subseteq D
    OBVIOUS
  <2> HIDE DEF D
  <2>2. ValuesMade(h, m, D, values')
    BY <2>1, NewValuesAre
  <2> QED BY <2>2 DEF ValuesMade
<1>4. /\ Len(handles) \in Nat /\ Handles = 1 .. Len(handles) /\ k \in Nat /\ Len(values) \in Nat
      /\ First(m) \in Nat /\ Len(values) <= First(m) /\ (m.updates => First(m) = Len(values) + 1)
  BY MakesLen DEF Types, HandleTypes, Handles, First
<1> HIDE DEF es, k, D
<1>5. ASSUME NEW g \in Handles
      PROVE  Kept(g, m)
  <2>1. handles[g].value \in 1 .. Len(values) /\ Live(g) \in BOOLEAN
    BY HandleParts
  <2>2. CASE g = h /\ m.updates
    <3>1. handles'[g].value = First(m)
      BY <2>2, <1>1, <1>2
    <3>2. First(m) \in 1 .. Len(values')
      BY <2>2, <1>3, <1>4
    <3>3. Ops(g)' = Ops(g) /\ Live(g)'
      BY <2>2, <3>1, <1>3 DEF Ops, Live
    <3> QED BY <2>2, <3>1, <3>2, <3>3, <1>1 DEF Kept
  <2>3. CASE ~ (g = h /\ m.updates)
    <3>1. handles'[g].value = handles[g].value
      BY <2>3, <1>1, <1>2
    <3>2. handles[g].value \in 1 .. Len(values')
      BY <2>1, <1>3, <1>4
    <3>3. /\ Ops(g)' = Ops(g) /\ (Live(g)' => Live(g))
          /\ ~Invalidates(h, m, handles[g].value) => Live(g)' = Live(g)
      BY <2>1, <3>1, <1>3 DEF Ops, Live
    <3>4. ~Invalidates(h, m, handles[g].value) => handles'[g].lost = handles[g].lost
      BY <1>1, <1>2
    <3>5. Invalidates(h, m, handles[g].value) => handles'[g].lost \cap (Careless \cup {"other"}) # {}
      <4>1. CASE Invalidates(h, m, handles[g].value) /\ g # h
        BY <4>1, <1>1, <1>2
      <4>2. CASE Invalidates(h, m, handles[g].value) /\ g = h
        <5>1. ~m.updates /\ m.op \in Careless
          BY <4>2, <2>3 DEF IsMethod, Invalidates
        <5> QED BY <4>2, <5>1, <1>1, <1>2
      <4> QED BY <4>1, <4>2
    <3> QED BY <3>1, <3>2, <3>3, <3>4, <3>5, <1>1 DEF Kept
  <2> QED BY <2>2, <2>3
<1>6. ASSUME NEW g \in 1 .. Len(handles'), g \notin Handles
      PROVE  Added(g)
  <2>1. PICK i \in 1 .. k : g = Len(handles) + i
    <3>1. g - Len(handles) \in 1 .. k /\ g = Len(handles) + (g - Len(handles))
      BY <1>1, <1>4, <1>6
    <3> QED BY <3>1
  <2>2. First(m) + i \in 1 .. Len(values')
    BY <1>3, <1>4
  <2> QED BY <2>1, <2>2, <1>1, <1>3 DEF Added, Live
<1>7. Len(handles) <= Len(handles')
  BY <1>1, <1>4
<1> QED BY <1>1, <1>3, <1>5, <1>6, <1>7 DEF Applied, D

(* A step of the interpreter leaves a forest, adds ops, and adds to what    *)
(* encloses an op; a harmless one leaves all as it is.                      *)
PayloadStep(m) ==
  /\ IsForest(payload') /\ \E q \in Nat : DOMAIN payload' = 0 .. q - 1
  /\ DOMAIN payload \subseteq DOMAIN payload'
  /\ \A o \in DOMAIN payload : payload[o] \subseteq payload'[o]
  /\ m.op \in Harmless => /\ DOMAIN payload' = DOMAIN payload
                          /\ \A o \in DOMAIN payload : payload'[o] = payload[o]

(* Such a step keeps the ops numbered from 0 on.                            *)
LEMMA PayloadTypesNext ==
  ASSUME NEW m, PayloadStep(m)
  PROVE  PayloadTypes'
<1>1. PICK q \in Nat : DOMAIN payload' = 0 .. q - 1
  BY DEF PayloadStep
<1>2. Cardinality(0 .. q - 1) = q
  <2>1. 0 \in Int /\ q - 1 \in Int
    OBVIOUS
  <2>2. Cardinality(0 .. q - 1) = IF 0 > q - 1 THEN 0 ELSE q - 1 - 0 + 1
    BY <2>1, FS_Interval, Zenon
  <2> QED BY <2>2
<1>3. NumOps' = q
  BY <1>1, <1>2 DEF NumOps
<1> QED BY <1>1, <1>3 DEF PayloadTypes, PayloadStep

(* The ancestors after handles were added that have none, or one.          *)
LEMMA AncestorsNext ==
  ASSUME Types, NEW gs, Len(gs) \in Nat, Parented(gs), Len(handles) <= Len(gs),
         \A g \in Handles : gs[g].parent = handles[g].parent
  PROVE  /\ \A g \in Handles : Ancestors(gs)[g] = Ancestors(handles)[g] /\ Ancestors(handles)[g] \subseteq Handles
         /\ \A g \in 1 .. Len(gs) : gs[g].parent = 0 => Ancestors(gs)[g] = {}
<1>1. Len(handles) \in Nat /\ Handles = 1 .. Len(handles) /\ Parented(handles)
  BY DEF Types, HandleTypes, Handles
<1>2. \A g \in 1 .. Len(handles) : Ancestors(gs)[g] = Ancestors(handles)[g]
  BY <1>1, AncestorsKept
<1>3. \A g \in 1 .. Len(handles) : Ancestors(handles)[g] \subseteq 1 .. g - 1
  BY <1>1, AncestorsBefore
<1>4. \A g \in 1 .. Len(gs) : gs[g].parent = 0 => Ancestors(gs)[g] = {}
  BY AncestorsOf
<1>5. \A g \in Handles : Ancestors(handles)[g] \subseteq Handles
  BY <1>1, <1>3
<1> QED BY <1>1, <1>2, <1>4, <1>5

(* A transform or another method that the interpreter accepts keeps the      *)
(* invariant.                                                               *)
LEMMA ApplyKeeps ==
  ASSUME ScheduleInv, NEW h \in Handles, NEW m, IsMethod(m), Interpretable(h, m),
         NEW other, NEW into, Apply(h, m, other, into), PayloadStep(m),
         \A i \in 1 .. Len(m.makes) : MadeOps(h, m, i, other) \subseteq DOMAIN payload'
  PROVE  ScheduleInv'
<1> DEFINE S == Ops(h)
           ready == IF auto_normalize_parent_func(h, m) THEN normal \cup Inside(ParentFuncs(h)) ELSE normal
<1>1. Types /\ Enclosed /\ Believed /\ LostOnlyToOthers /\ prepared
  BY DEF ScheduleInv, TransformsPrepared
<1>2. /\ handles' = jasc_transform(Emitted(h, m), h, m) /\ values' = NewValues(h, m, other)
      /\ kind' = [o \in DOMAIN payload' |-> IF o \in DOMAIN kind THEN kind[o]
                    ELSE IF m.makes = <<"loop">> THEN "loop" ELSE "other"]
      /\ normal' = IF m.op \in Harmless THEN ready ELSE ready \ (Around(S) \cup Inside(S))
      /\ prepared' = (prepared /\ (m.transform /\ auto => S \cup ParentFuncs(h) \subseteq ready \/ handles[h].excuse # {}))
  BY DEF Apply
<1>3. Live(h) /\ (auto_normalize_parent_func(h, m) => HasParentFunc(h))
  BY DEF Interpretable
<1>4. DOMAIN payload \subseteq DOMAIN payload'
  BY DEF PayloadStep
<1>5. Applied(m)
  BY <1>1, <1>2, <1>3, <1>4, MethodApplied
<1>6. /\ Len(handles) \in Nat /\ Handles = 1 .. Len(handles) /\ Parented(handles)
      /\ Len(handles') \in Nat /\ Handles' = 1 .. Len(handles') /\ Handles \subseteq Handles'
      /\ \A g \in Handles' \ Handles : Added(g)
      /\ \A g \in Handles : Kept(g, m)
  BY <1>1, <1>5 DEF Types, HandleTypes, Handles, Applied
<1>7. Types'
  <2>1. PayloadTypes'
    BY PayloadTypesNext
  <2>2. values' \in Seq(ValueType)' /\ handles' \in Seq(HandleType)
    BY <1>5 DEF Applied, ValueType
  <2>3. \A g \in Handles' : handles'[g].value \in 1 .. Len(values')
    BY <1>6 DEF Kept, Added
  <2>4. Parented(handles')
    <3>1. ASSUME NEW g \in Handles'
          PROVE  handles'[g].parent \in 0 .. g - 1
      <4>1. g \in Nat /\ g >= 1
        BY <1>6
      <4>2. CASE g \in Handles
        <5>1. handles'[g].parent = handles[g].parent /\ handles[g].parent \in 0 .. g - 1
          BY <4>2, <1>6 DEF Kept, Parented
        <5> QED BY <5>1
      <4>3. CASE g \notin Handles
        <5>1. handles'[g].parent = 0
          BY <4>3, <1>6 DEF Added
        <5> QED BY <4>1, <5>1
      <4> QED BY <4>2, <4>3
    <3> QED BY <3>1, <1>6 DEF Parented
  <2>5. DOMAIN kind' = DOMAIN payload'
    BY <1>2
  <2> QED BY <2>1, <2>2, <2>3, <2>4, <2>5 DEF Types, HandleTypes
<1>8. /\ \A g \in Handles : Ancestors(handles')[g] = Ancestors(handles)[g] /\ Ancestors(handles)[g] \subseteq Handles
      /\ \A g \in Handles' \ Handles : Ancestors(handles')[g] = {}
  <2>1. Parented(handles') /\ Len(handles) <= Len(handles')
    BY <1>5, <1>7 DEF Types, HandleTypes, Applied
  <2>2. \A g \in Handles : handles'[g].parent = handles[g].parent
    BY <1>6 DEF Kept
  <2>3. \A g \in Handles' \ Handles : handles'[g].parent = 0
    BY <1>6 DEF Added
  <2>4. /\ \A g \in Handles : Ancestors(handles')[g] = Ancestors(handles)[g] /\ Ancestors(handles)[g] \subseteq Handles
        /\ \A g \in 1 .. Len(handles') : handles'[g].parent = 0 => Ancestors(handles')[g] = {}
    BY <1>1, <1>6, <2>1, <2>2, AncestorsNext
  <2> QED BY <1>6, <2>3, <2>4
<1>9. Enclosed'
  <2>1. ASSUME NEW g \in Handles, NEW a \in Ancestors(handles)[g]
        PROVE  Ops(g)' \subseteq Inside(Ops(a))'
    <3>1. a \in Handles /\ Ops(g)' = Ops(g) /\ Ops(a)' = Ops(a) /\ Ops(g) \subseteq Inside(Ops(a))
      BY <1>1, <1>6, <1>8 DEF Kept, Enclosed
    <3> QED BY <3>1, <1>4 DEF Inside, PayloadStep
  <2> QED BY <2>1, <1>6, <1>8 DEF Enclosed
<1>10. LostOnlyToOthers'
  <2>1. ASSUME NEW g \in Handles', ~Live(g)'
        PROVE  handles'[g].lost \cap (Careless \cup {"other"}) # {}
    <3>1. g \in Handles
      BY <2>1, <1>6 DEF Added
    <3>2. CASE handles'[g].lost = handles[g].lost /\ Live(g)' = Live(g)
      BY <2>1, <3>1, <3>2, <1>1 DEF LostOnlyToOthers, NotUpdated, Careless
    <3> QED BY <2>1, <3>1, <3>2, <1>6 DEF Kept
  <2> QED BY <2>1 DEF LostOnlyToOthers, NotUpdated, Careless
<1>11. normal \subseteq ready
  OBVIOUS
<1>12. Believed'
  <2>1. ASSUME NEW g \in Handles', Live(g)', handles'[g].normalform = LoopNormalform,
               handles'[g].excuse \ {"narrow"} = {}
        PROVE  /\ Ops(g)' \subseteq normal'
               /\ handles'[g].excuse = {} => ParentFuncs(g)' \subseteq normal'
    <3>1. g \in Handles
      BY <2>1, <1>6, FormsDiffer DEF Added
    <3>2. /\ Ops(g)' = Ops(g) /\ Live(g) /\ handles[g].normalform = LoopNormalform
          /\ handles[g].excuse \subseteq handles'[g].excuse /\ m.op \in Harmless
      BY <2>1, <3>1, <1>6 DEF Kept
    <3>3. normal \subseteq normal'
      BY <3>2, <1>2, <1>11
    <3>4. Ops(g) \subseteq normal /\ (handles[g].excuse = {} => ParentFuncs(g) \subseteq normal)
      BY <2>1, <3>1, <3>2, <1>1 DEF Believed
    <3>5. ParentFuncs(g)' = ParentFuncs(g)
      <4>1. Ops(g) \in SUBSET DOMAIN payload /\ DOMAIN kind = DOMAIN payload
        BY <1>1, <3>1, HandleParts DEF Types
      <4>2. \A o \in DOMAIN payload : payload'[o] = payload[o] /\ payload[o] \subseteq DOMAIN payload
        BY <1>1, <3>2 DEF PayloadStep, Types, PayloadTypes, IsForest
      <4>3. Around(Ops(g))' = Around(Ops(g)) /\ Around(Ops(g)) \subseteq DOMAIN payload
        BY <3>2, <4>1, <4>2 DEF Around
      <4>4. \A o \in DOMAIN payload : kind'[o] = kind[o]
        BY <4>1, <1>2, <1>4
      <4> QED BY <3>2, <4>3, <4>4 DEF ParentFuncs
    <3> QED BY <2>1, <3>2, <3>3, <3>4, <3>5
  <2> QED BY <2>1 DEF Believed
<1>13. prepared'
  <2>1. ASSUME m.transform, auto, handles[h].excuse = {}
        PROVE  S \cup ParentFuncs(h) \subseteq ready
    <3>1. CASE handles[h].normalform = LoopNormalform
      BY <2>1, <3>1, <1>1, <1>3, <1>11 DEF Believed
    <3>2. CASE handles[h].normalform # LoopNormalform
      <4>1. auto_normalize_parent_func(h, m) /\ HasParentFunc(h)
        BY <2>1, <3>2, <1>3 DEF auto_normalize_parent_func
      <4>2. S \in SUBSET DOMAIN payload
        BY <1>1, HandleParts
      <4>3. \A o \in DOMAIN payload : o \in payload[o] /\ payload[o] \subseteq DOMAIN payload
        BY <1>1 DEF Types, PayloadTypes, IsForest
      <4>4. ParentFuncs(h) \subseteq DOMAIN payload
        BY <4>2, <4>3 DEF ParentFuncs, Around
      <4>5. S \subseteq Inside(ParentFuncs(h))
        BY <4>1, <4>2 DEF HasParentFunc, Inside
      <4>6. ParentFuncs(h) \subseteq Inside(ParentFuncs(h))
        BY <4>3, <4>4 DEF Inside
      <4> QED BY <4>1, <4>5, <4>6
    <3> QED BY <3>1, <3>2
  <2> QED BY <2>1, <1>1, <1>2
<1> QED BY <1>7, <1>9, <1>10, <1>12, <1>13 DEF ScheduleInv, TransformsPrepared

-----------------------------------------------------------------------------
(* A method that makes no op leaves the payload as it is.                  *)
LEMMA PayloadStays ==
  ASSUME PayloadTypes, NEW h, Ops(h) \in SUBSET DOMAIN payload, NEW m, Fresh(m) = {},
         m.makes # <<"loop">>, m.op # "fuse_into", NEW into
  PROVE  LET ql == NewPayload(h, m, into) IN
         DOMAIN ql = DOMAIN payload /\ \A o \in DOMAIN payload : ql[o] = payload[o]
<1> DEFINE S == Ops(h)  ql == NewPayload(h, m, into)  n == NumOps
<1>1. Cardinality(Fresh(m)) = 0
  BY FS_EmptySet
<1>2. DOMAIN ql = 0 .. n + 0 * Cardinality(S) - 1
  BY <1>1 DEF NewPayload, NumOps
<1>3. DOMAIN ql = DOMAIN payload
  <2>1. n \in Nat /\ DOMAIN payload = 0 .. n - 1 /\ S \in SUBSET (0 .. n - 1)
    BY DEF PayloadTypes
  <2>2. Cardinality(S) \in Nat
    BY <2>1, Ranks
  <2> HIDE DEF n, S, ql
  <2>3. 0 * Cardinality(S) = 0
    BY <2>2
  <2> QED BY <1>2, <2>1, <2>3
<1>4. ASSUME NEW o \in DOMAIN payload
      PROVE  ql[o] = payload[o]
  <2>1. o \in 0 .. n - 1 /\ o < n
    BY DEF PayloadTypes
  <2>2. o \in DOMAIN ql
    BY <1>3
  <2>3. ql[o] = payload[o] \cup {} \cup {}
    BY <2>1, <2>2, <1>2 DEF NewPayload, NumOps
  <2> HIDE DEF ql
  <2> QED BY <2>3
<1> QED BY <1>3, <1>4

(* The methods other than fuse_into meet what ApplyKeeps asks of them.     *)
LEMMA CallSteps ==
  ASSUME Types, NEW h \in Handles, NEW m, IsMethod(m), m.op # "fuse_into",
         NEW other \in Others(h, m), NEW into, payload' = NewPayload(h, m, into)
  PROVE  PayloadStep(m) /\ \A i \in 1 .. Len(m.makes) : MadeOps(h, m, i, other) \subseteq DOMAIN payload'
<1>1. PayloadTypes /\ Ops(h) \in SUBSET DOMAIN payload /\ m.makes \in Makes
  BY HandleParts DEF Types, IsMethod
<1>2. /\ IsForest(payload')
      /\ \E q \in Nat : NumOps <= q /\ DOMAIN payload' = 0 .. q - 1
      /\ \A o \in DOMAIN payload : payload[o] \subseteq payload'[o]
      /\ \A i \in Fresh(m), s \in Ops(h) : NewOp(NumOps, Ops(h), i, s) \in DOMAIN payload'
  BY <1>1, PayloadGrows
<1>3. DOMAIN payload \subseteq DOMAIN payload'
  <2>1. PICK q \in Nat : NumOps <= q /\ DOMAIN payload' = 0 .. q - 1
    BY <1>2
  <2>2. NumOps \in Nat /\ DOMAIN payload = 0 .. NumOps - 1
    BY <1>1 DEF PayloadTypes
  <2> QED BY <2>1, <2>2
<1>4. ASSUME m.op \in Harmless
      PROVE  DOMAIN payload' = DOMAIN payload /\ \A o \in DOMAIN payload : payload'[o] = payload[o]
  <2>1. m.makes \in {<<>>, <<"same">>, <<"parent">>, <<"producer">>}
    BY <1>4 DEF IsMethod
  <2>2. Fresh(m) = {}
    BY <2>1 DEF Fresh
  <2>3. m.makes # <<"loop">>
    BY <2>1
  <2> QED BY <1>1, <2>2, <2>3, PayloadStays
<1>5. ASSUME NEW i \in 1 .. Len(m.makes)
      PROVE  MadeOps(h, m, i, other) \subseteq DOMAIN payload'
  <2>1. i \in DOMAIN m.makes
    BY MakesLen
  <2>2. CASE m.makes[i] = "same"
    BY <2>2, <1>1, <1>3 DEF MadeOps
  <2>3. CASE m.makes[i] \in {"loop", "beside"}
    <3>1. MadeOps(h, m, i, other) = {NewOp(NumOps, Ops(h), i, s) : s \in Ops(h)}
      BY <2>3 DEF MadeOps, NumOps
    <3>2. i \in Fresh(m)
      BY <2>1, <2>3 DEF Fresh
    <3> QED BY <3>1, <3>2, <1>2
  <2>4. CASE m.makes[i] \notin {"same", "loop", "beside"}
    <3>1. MadeOps(h, m, i, other) = {other}
      BY <2>4 DEF MadeOps
    <3>2. m.makes = <<"parent">> \/ m.makes = <<"producer">>
      BY <2>1, <2>4, <1>1 DEF Makes
    <3>3. \A o \in DOMAIN payload : payload[o] \subseteq DOMAIN payload
      BY <1>1 DEF PayloadTypes, IsForest
    <3>4. other \in DOMAIN payload
      <4>1. CASE m.makes = <<"parent">>
        <5>1. other \in Around(Ops(h))
          BY <4>1 DEF Others
        <5> QED BY <5>1, <3>3, <1>1 DEF Around
      <4>2. CASE m.makes = <<"producer">>
        <5>1. m.makes # <<"parent">>
          BY <4>2
        <5> QED BY <4>2, <5>1 DEF Others
      <4> QED BY <3>2, <4>1, <4>2
    <3> QED BY <3>1, <3>4, <1>3
  <2> QED BY <2>2, <2>3, <2>4
<1> QED BY <1>2, <1>3, <1>4, <1>5 DEF PayloadStep

(* So every method but fuse_into keeps the invariant.                       *)
LEMMA MethodKeeps ==
  ASSUME ScheduleInv, NEW h \in Handles, NEW m, IsMethod(m), m.op # "fuse_into", Interpretable(h, m),
         NEW other \in Others(h, m), NEW into, Apply(h, m, other, into)
  PROVE  ScheduleInv'
<1>1. Types /\ payload' = NewPayload(h, m, into)
  BY DEF ScheduleInv, Apply
<1>2. PayloadStep(m) /\ \A i \in 1 .. Len(m.makes) : MadeOps(h, m, i, other) \subseteq DOMAIN payload'
  BY <1>1, CallSteps
<1> QED BY <1>2, ApplyKeeps

(* fuse_into moves the ops into the one op of the other handle.            *)
LEMMA FuseKeeps ==
  ASSUME ScheduleInv, NEW h \in Handles, NEW into \in Handles, Interpretable(h, fuse_into),
         Cardinality(Ops(into)) = 1,
         \A o \in Ops(h) : payload[o] \ {o} \subseteq Around(Ops(into)) /\ o \notin Around(Ops(into)),
         Apply(h, fuse_into, 0, into)
  PROVE  ScheduleInv'
<1>1. Types /\ payload' = NewPayload(h, fuse_into, into) /\ IsMethod(fuse_into)
  BY MethodsAre DEF ScheduleInv, Apply
<1>2. PayloadTypes /\ Ops(h) \in SUBSET DOMAIN payload /\ Ops(into) \in SUBSET DOMAIN payload
  BY <1>1, HandleParts DEF Types
<1>3. PICK c : Ops(into) = {c}
  <2>1. PICK n \in Nat : DOMAIN payload = 0 .. n - 1
    BY <1>2 DEF PayloadTypes
  <2>2. IsFiniteSet(0 .. n - 1)
    BY FS_Interval
  <2>3. IsFiniteSet(Ops(into))
    BY <1>2, <2>1, <2>2, FS_Subset
  <2> QED BY <2>3, FS_Singleton
<1>4. c \in DOMAIN payload /\ Around(Ops(into)) = payload[c]
  BY <1>2, <1>3 DEF Around
<1>5. /\ IsForest(payload') /\ DOMAIN payload' = DOMAIN payload
      /\ \A o \in DOMAIN payload : payload[o] \subseteq payload'[o]
  BY <1>1, <1>2, <1>3, <1>4, PayloadFuses
<1>6. fuse_into.makes = <<>> /\ fuse_into.op = "fuse_into" /\ "fuse_into" \notin Harmless
  BY DEF fuse_into, Transform, Harmless
<1>7. PayloadStep(fuse_into)
  <2>1. \E q \in Nat : DOMAIN payload' = 0 .. q - 1
    BY <1>2, <1>5 DEF PayloadTypes
  <2> QED BY <1>5, <1>6, <2>1 DEF PayloadStep
<1>8. \A i \in 1 .. Len(fuse_into.makes) : MadeOps(h, fuse_into, i, 0) \subseteq DOMAIN payload'
  BY <1>6
<1> QED BY <1>1, <1>7, <1>8, ApplyKeeps

-----------------------------------------------------------------------------
(* The other calls.                                                        *)
(* A call that fails or raises, or concerns the normalisation switch only,   *)
(* changes nothing the invariant is about.                                 *)
LEMMA NothingChanges ==
  ASSUME ScheduleInv, UNCHANGED <<handles, values, payload, kind, normal, prepared>>
  PROVE  ScheduleInv'
<1>1. Types'
  BY DEF ScheduleInv, Types, PayloadTypes, NumOps, HandleTypes, ValueType, Handles
<1>2. Enclosed'
  BY DEF ScheduleInv, Enclosed, Handles, Ops, Inside
<1>3. Believed'
  BY DEF ScheduleInv, Believed, Handles, Ops, Live, ParentFuncs, Around
<1>4. LostOnlyToOthers' /\ TransformsPrepared'
  BY DEF ScheduleInv, LostOnlyToOthers, TransformsPrepared, Handles, Live
<1> QED BY <1>1, <1>2, <1>3, <1>4 DEF ScheduleInv

(* A matched handle stands for ops inside those of its parent, and so inside *)
(* those of every ancestor of its parent.                                  *)
LEMMA MatchKeeps ==
  ASSUME ScheduleInv, NEW h \in Handles, NEW seen,
         values' = Append(values, [ops |-> {o \in Inside(Ops(h)) : kind[o] \in seen}, live |-> TRUE]),
         handles' = Append(handles, NewHandle(Len(values) + 1, h)),
         UNCHANGED <<payload, kind, normal, prepared>>
  PROVE  ScheduleInv'
<1> DEFINE M == {o \in Inside(Ops(h)) : kind[o] \in seen}
           v == [ops |-> M, live |-> TRUE]
           r == NewHandle(Len(values) + 1, h)
<1>1. Types /\ Enclosed /\ Believed /\ LostOnlyToOthers /\ prepared
  BY DEF ScheduleInv, TransformsPrepared
<1>2. /\ Len(handles) \in Nat /\ Handles = 1 .. Len(handles) /\ Parented(handles) /\ handles \in Seq(HandleType)
      /\ Len(values) \in Nat /\ values \in Seq(ValueType)
  BY <1>1 DEF Types, HandleTypes, Handles
<1>3. PICK new \in Nat : new = Len(handles) + 1
  BY <1>2
<1>4. v \in ValueType /\ v.ops = M /\ v.live
  BY DEF ValueType, Inside
<1>5. r \in HandleType /\ r.parent = h /\ r.value = Len(values) + 1 /\ r.normalform = AnyForm
  BY <1>2 DEF NewHandle, HandleType, Forms
<1>6. /\ values' \in Seq(ValueType) /\ Len(values') = Len(values) + 1 /\ values'[Len(values) + 1] = v
      /\ \A i \in 1 .. Len(values) : values'[i] = values[i]
  <2>1. values' = Append(values, v)
    OBVIOUS
  <2> HIDE DEF v
  <2> QED BY <1>2, <1>4, <2>1
<1>7. /\ handles' \in Seq(HandleType) /\ Len(handles') = new /\ handles'[new] = r
      /\ \A g \in Handles : handles'[g] = handles[g]
      /\ Handles' = Handles \cup {new} /\ new \notin Handles /\ new \in Nat
  <2>1. handles' = Append(handles, r)
    OBVIOUS
  <2> HIDE DEF r
  <2>2. /\ handles' \in Seq(HandleType) /\ Len(handles') = new /\ handles'[new] = r
        /\ \A g \in 1 .. Len(handles) : handles'[g] = handles[g]
    BY <1>3, <1>2, <1>5, <2>1
  <2>3. 1 .. new = 1 .. Len(handles) \cup {new} /\ new \notin 1 .. Len(handles)
    BY <1>3, <1>2
  <2> QED BY <1>2, <2>2, <2>3 DEF Handles
<1> HIDE DEF v, r
<1>8. \A g \in Handles : handles[g].value \in 1 .. Len(values) /\ handles[g].parent \in 0 .. g - 1
  BY <1>1, HandleParts
<1>9. Parented(handles')
  <2>1. ASSUME NEW g \in Handles'
        PROVE  handles'[g].parent \in 0 .. g - 1
    <3>1. CASE g \in Handles
      <4>1. handles'[g] = handles[g] /\ handles[g].parent \in 0 .. g - 1
        BY <3>1, <1>7, <1>8
      <4> QED BY <4>1
    <3>2. CASE g = new
      <4>1. handles'[g].parent = h
        BY <3>2, <1>5, <1>7
      <4> QED BY <3>2, <4>1, <1>3, <1>2
    <3> QED BY <3>1, <3>2, <1>7
  <2> QED BY <2>1 DEF Parented, Handles
<1>10. /\ \A g \in Handles : handles'[g].value \in 1 .. Len(values')
      /\ handles'[new].value \in 1 .. Len(values')
  BY <1>2, <1>5, <1>6, <1>7, <1>8
<1>11. Types'
  <2>1. PayloadTypes' /\ ValueType' = ValueType /\ DOMAIN kind' = DOMAIN payload'
    BY <1>1 DEF Types, PayloadTypes, NumOps, ValueType
  <2>2. HandleTypes'
    BY <2>1, <1>6, <1>7, <1>9, <1>10 DEF HandleTypes
  <2> QED BY <2>1, <2>2 DEF Types
<1>12. /\ \A g \in Handles : Ops(g)' = Ops(g) /\ Live(g)' = Live(g)
       /\ Ops(new)' = M /\ Live(new)'
  <2>1. \A g \in Handles : Ops(g)' = Ops(g) /\ Live(g)' = Live(g)
    BY <1>6, <1>7, <1>8 DEF Ops, Live
  <2>2. Ops(new)' = v.ops /\ Live(new)' = v.live
    BY <1>5, <1>6, <1>7 DEF Ops, Live
  <2> QED BY <2>1, <2>2, <1>4
<1>13. /\ \A g \in Handles : Ancestors(handles')[g] = Ancestors(handles)[g] /\ Ancestors(handles)[g] \subseteq Handles
       /\ Ancestors(handles')[new] = {h} \cup Ancestors(handles)[h]
  <2>1. /\ Len(handles') \in Nat /\ Len(handles) <= Len(handles')
        /\ \A g \in Handles : handles'[g].parent = handles[g].parent
    BY <1>3, <1>2, <1>7
  <2>2. \A g \in Handles : Ancestors(handles')[g] = Ancestors(handles)[g] /\ Ancestors(handles)[g] \subseteq Handles
    BY <1>1, <1>9, <2>1, AncestorsNext
  <2>3. new \in 1 .. Len(handles') /\ handles'[new].parent = h /\ h # 0
    BY <1>3, <1>2, <1>5, <1>7
  <2>4. Ancestors(handles')[new] = {h} \cup Ancestors(handles')[h]
    BY <1>9, <2>1, <2>3, AncestorsOf
  <2> QED BY <2>2, <2>4
<1>14. \A S : Inside(S)' = Inside(S)
  BY DEF Inside
<1>15. Enclosed'
  <2>1. ASSUME NEW g \in Handles, NEW a \in Ancestors(handles)[g]
        PROVE  Ops(g)' \subseteq Inside(Ops(a))'
    <3>1. a \in Handles /\ Ops(g) \subseteq Inside(Ops(a))
      BY <1>1, <1>13 DEF Enclosed
    <3> QED BY <3>1, <1>12 DEF Inside
  <2>2. ASSUME NEW a \in Ancestors(handles)[h]
        PROVE  M \subseteq Inside(Ops(a))'
    <3>1. a \in Handles /\ Ops(h) \subseteq Inside(Ops(a)) /\ Ops(a)' = Ops(a)
      BY <1>1, <1>12, <1>13 DEF Enclosed
    <3>2. \A o \in DOMAIN payload : \A p \in payload[o] : payload[p] \subseteq payload[o]
      BY <1>1 DEF Types, PayloadTypes, IsForest
    <3>3. M \subseteq Inside(Ops(a))
      BY <3>1, <3>2 DEF Inside
    <3> QED BY <3>1, <3>3 DEF Inside
  <2>3. M \subseteq Inside(Ops(h))'
    <3>1. Ops(h)' = Ops(h)
      BY <1>12
    <3> QED BY <3>1 DEF Inside
  <2> QED BY <2>1, <2>2, <2>3, <1>7, <1>12, <1>13 DEF Enclosed
<1>16. Believed'
  <2>1. ASSUME NEW g \in Handles', handles'[g].normalform = LoopNormalform
        PROVE  g \in Handles /\ handles'[g] = handles[g] /\ ParentFuncs(g)' = ParentFuncs(g)
    <3>1. g \in Handles /\ handles'[g] = handles[g]
      BY <2>1, <1>5, <1>7, FormsDiffer
    <3>2. Ops(g)' = Ops(g)
      BY <3>1, <1>12
    <3> QED BY <3>1, <3>2 DEF ParentFuncs, Around
  <2>2. \A g \in Handles : Live(g)' = Live(g) /\ Ops(g)' = Ops(g)
    BY <1>12
  <2>3. normal' = normal
    OBVIOUS
  <2> QED BY <2>1, <2>2, <2>3, <1>1, Zenon DEF Believed
<1>17. LostOnlyToOthers'
  BY <1>1, <1>7, <1>12 DEF LostOnlyToOthers
<1> QED BY <1>1, <1>11, <1>15, <1>16, <1>17 DEF ScheduleInv, TransformsPrepared

(* Normalising reaches what is inside the ops, and so the ops of every      *)
(* descendant; a function around those that is not around the ops is inside *)
(* them, because what encloses an op forms a chain.                         *)
LEMMA NormalizeKeeps ==
  ASSUME ScheduleInv, NEW h \in Handles, NEW form \in Forms,
         normal' = IF form = LoopNormalform THEN normal \cup Inside(Ops(h)) ELSE normal,
         handles' = set_normalform(handles, h, form, IF ParentFuncs(h) = {} THEN {} ELSE {"narrow"}),
         UNCHANGED <<values, payload, kind, prepared>>
  PROVE  ScheduleInv'
<1> DEFINE e == IF ParentFuncs(h) = {} THEN {} ELSE {"narrow"}
<1>1. Types /\ Enclosed /\ Believed /\ LostOnlyToOthers /\ prepared
  BY DEF ScheduleInv, TransformsPrepared
<1>2. /\ Len(handles) \in Nat /\ Handles = 1 .. Len(handles) /\ Parented(handles) /\ handles \in Seq(HandleType)
  BY <1>1 DEF Types, HandleTypes, Handles
<1>3. FormsSet(handles, h, form, e, handles')
  <2>1. e \in SUBSET Excuses /\ handles' = set_normalform(handles, h, form, e)
    BY DEF Excuses
  <2> HIDE DEF e
  <2> QED BY <2>1, <1>2, Setter
<1>4. /\ handles' \in Seq(HandleType) /\ Len(handles') = Len(handles) /\ Handles' = Handles
      /\ \A g \in Handles :
            /\ handles'[g].value = handles[g].value /\ handles'[g].parent = handles[g].parent
            /\ handles'[g].lost = handles[g].lost
            /\ g \in Reached(handles, h, form) => handles'[g].normalform = form /\ handles'[g].excuse = e
            /\ g \notin Reached(handles, h, form) => handles'[g] = handles[g]
  BY <1>2, <1>3 DEF FormsSet, Handles
<1>5. Parented(handles')
  BY <1>2, <1>4 DEF Parented
<1>6. Types'
  BY <1>1, <1>4, <1>5 DEF Types, PayloadTypes, NumOps, HandleTypes, ValueType
<1>7. \A g \in Handles : Ops(g)' = Ops(g) /\ Live(g)' = Live(g)
  BY <1>4 DEF Ops, Live
<1>8. \A g \in Handles : Ancestors(handles')[g] = Ancestors(handles)[g] /\ Ancestors(handles)[g] \subseteq Handles
  <2>1. Len(handles') \in Nat /\ Len(handles) <= Len(handles') /\ \A g \in Handles : handles'[g].parent = handles[g].parent
    BY <1>2, <1>4
  <2> QED BY <1>1, <1>5, <2>1, AncestorsNext
<1>9. Enclosed'
  <2>1. ASSUME NEW g \in Handles, NEW a \in Ancestors(handles)[g]
        PROVE  Ops(g)' \subseteq Inside(Ops(a))'
    <3>1. a \in Handles /\ Ops(g) \subseteq Inside(Ops(a))
      BY <1>1, <1>8 DEF Enclosed
    <3> QED BY <3>1, <1>7 DEF Inside
  <2> QED BY <2>1, <1>4, <1>8 DEF Enclosed
<1>10. LostOnlyToOthers'
  BY <1>1, <1>4, <1>7 DEF LostOnlyToOthers
<1>11. /\ \A o \in DOMAIN payload : o \in payload[o] /\ payload[o] \subseteq DOMAIN payload
       /\ \A o \in DOMAIN payload : \A p, q \in payload[o] : p \in payload[q] \/ q \in payload[p]
  BY <1>1 DEF Types, PayloadTypes, IsForest
<1>12. Ops(h) \in SUBSET DOMAIN payload /\ Ops(h) \subseteq Inside(Ops(h))
  BY <1>1, <1>11, HandleParts DEF Inside
<1>13. \A g \in Handles : ParentFuncs(g)' = ParentFuncs(g)
  BY <1>7 DEF ParentFuncs, Around
<1>14. Believed'
  <2>1. ASSUME NEW g \in Handles, Live(g)', handles'[g].normalform = LoopNormalform
        PROVE  /\ handles'[g].excuse \ {"narrow"} = {} => Ops(g) \subseteq normal'
               /\ handles'[g].excuse = {} => ParentFuncs(g) \subseteq normal'
    <3>1. normal \subseteq normal'
      OBVIOUS
    <3>2. CASE g \notin Reached(handles, h, form)
      <4>1. handles'[g] = handles[g] /\ Live(g)
        BY <2>1, <3>2, <1>4, <1>7
      <4> QED BY <2>1, <3>1, <4>1, <1>1 DEF Believed
    <3>3. CASE g \in Reached(handles, h, form)
      <4>1. form = LoopNormalform /\ handles'[g].excuse = e /\ normal' = normal \cup Inside(Ops(h))
        BY <2>1, <3>3, <1>4
      <4>2. g = h \/ h \in Ancestors(handles)[g]
        BY <3>3, <4>1, FormsDiffer DEF Reached, propagate_up_normalform, propagate_down_normalform
      <4>3. Ops(g) \subseteq Inside(Ops(h))
        BY <4>2, <1>1, <1>12 DEF Enclosed
      <4>4. ASSUME e = {}, NEW f \in ParentFuncs(g)
            PROVE  f \in Inside(Ops(h))
        <5>1. PICK o \in Ops(g) : f \in payload[o] /\ kind[f] = "func"
          BY DEF ParentFuncs, Around
        <5>2. PICK p \in Ops(h) : p \in payload[o] /\ o \in DOMAIN payload
          BY <4>3 DEF Inside
        <5>3. f \in DOMAIN payload /\ (f \in payload[p] \/ p \in payload[f])
          BY <5>1, <5>2, <1>11
        <5>4. CASE p \in payload[f]
          BY <5>3, <5>4 DEF Inside
        <5>5. CASE f \in payload[p]
          <6>1. ParentFuncs(h) = {}
            BY <4>4
          <6>2. f \in Around(Ops(h))
            BY <5>5 DEF Around
          <6>3. f \in Ops(h)
            BY <5>1, <6>1, <6>2 DEF ParentFuncs
          <6> QED BY <6>3, <1>12
        <5> QED BY <5>3, <5>4, <5>5
      <4>5. e = {} => ParentFuncs(g) \subseteq Inside(Ops(h))
        BY <4>4, Zenon
      <4> HIDE DEF e
      <4>6. Ops(g) \subseteq normal'
        BY <4>1, <4>3
      <4>7. handles'[g].excuse = {} => ParentFuncs(g) \subseteq normal'
        BY <4>1, <4>5
      <4> QED BY <4>6, <4>7
    <3> QED BY <3>2, <3>3
  <2>2. ASSUME NEW g \in Handles', Live(g)', handles'[g].normalform = LoopNormalform
        PROVE  /\ handles'[g].excuse \ {"narrow"} = {} => Ops(g)' \subseteq normal'
               /\ handles'[g].excuse = {} => ParentFuncs(g)' \subseteq normal'
    <3>1. g \in Handles
      BY <1>4
    <3>2. Ops(g)' = Ops(g) /\ ParentFuncs(g)' = ParentFuncs(g)
      BY <3>1, <1>7, <1>13
    <3> QED BY <2>1, <2>2, <3>1, <3>2
  <2> QED BY <2>2, Zenon DEF Believed
<1> QED BY <1>1, <1>6, <1>9, <1>10, <1>14 DEF ScheduleInv, TransformsPrepared

-----------------------------------------------------------------------------
(* The module a schedule starts from.                                       *)
LEMMA InitKeeps ==
  ASSUME ScheduleInit
  PROVE  ScheduleInv
<1>1. /\ DOMAIN payload = 0 .. 3 /\ DOMAIN kind = 0 .. 3
      /\ payload[0] = {0} /\ payload[1] = {0, 1} /\ payload[2] = {0, 1, 2} /\ payload[3] = {0, 1, 3}
  BY DEF ScheduleInit
<1>2. values = <<[ops |-> {0}, live |-> TRUE]>> /\ handles = <<NewHandle(1, 0)>> /\ prepared
  BY DEF ScheduleInit
<1>3. NumOps = 4
  <2>1. 0 \in Int /\ 3 \in Int
    OBVIOUS
  <2>2. Cardinality(0 .. 3) = IF 0 > 3 THEN 0 ELSE 3 - 0 + 1
    BY <2>1, FS_Interval, Zenon
  <2> QED BY <1>1, <2>2 DEF NumOps
<1>4. 0 .. 3 = {0, 1, 2, 3}
  OBVIOUS
<1>5. IsForest(payload)
  BY <1>1, <1>4 DEF IsForest
<1>6. PayloadTypes
  BY <1>1, <1>3, <1>5 DEF PayloadTypes
<1>7. NewHandle(1, 0) \in HandleType /\ NewHandle(1, 0).value = 1 /\ NewHandle(1, 0).parent = 0
      /\ NewHandle(1, 0).normalform = AnyForm
  BY DEF NewHandle, HandleType, Forms
<1>8. [ops |-> {0}, live |-> TRUE] \in ValueType
  BY <1>1 DEF ValueType
<1>9. /\ Len(handles) = 1 /\ handles[1] = NewHandle(1, 0) /\ handles \in Seq(HandleType) /\ Handles = {1}
      /\ Len(values) = 1 /\ values[1] = [ops |-> {0}, live |-> TRUE] /\ values \in Seq(ValueType)
  BY <1>2, <1>7, <1>8 DEF Handles
<1>10. Parented(handles)
  BY <1>7, <1>9 DEF Parented
<1>11. Types
  BY <1>1, <1>6, <1>7, <1>9, <1>10 DEF Types, HandleTypes
<1>12. Ancestors(handles)[1] = {}
  BY <1>7, <1>9, <1>10, AncestorsOf
<1>13. Enclosed
  BY <1>9, <1>12 DEF Enclosed
<1>14. Live(1) /\ handles[1].normalform # LoopNormalform
  BY <1>7, <1>9, FormsDiffer DEF Live
<1>15. Believed
  BY <1>9, <1>14 DEF Believed
<1>16. LostOnlyToOthers
  BY <1>9, <1>14 DEF LostOnlyToOthers
<1> QED BY <1>2, <1>11, <1>13, <1>15, <1>16 DEF ScheduleInv, TransformsPrepared

(* Only fuse_into fuses.                                                    *)
LEMMA NeverFuse == \A m \in Methods \cup {tile_using_for, tile_using_forall} : m.op # "fuse_into"
BY DEF Methods, Method, Transform, alloca_to_global, apply_cse, apply_dce, apply_licm, apply_patterns,
       apply_tuning_config, buffer_loop_hoisting, bufferize_to_allocation, bufferize_destination, cast,
       create_async_groups, eliminate_empty_tensors, foreach, get_parent_op, get_producer_of_operand,
       hoist_pad, hoist_redundant_vector_transfers, insert_slice_to_copy, interchange,
       map_forall_to_blocks, map_copy_to_threads, map_nested_forall_to_threads, vectorize,
       one_shot_bufferize, pad, print, rewrite_in_destination_passing_style, select, synchronize,
       take_assumed_branch, replace_with_alloc_tensor, vectorize_children_and_apply_patterns,
       tile_using_for, tile_using_forall

(* Every call keeps the invariant.                                          *)
LEMMA NextKeeps ==
  ASSUME ScheduleInv, [ScheduleNext]_scheduleVars
  PROVE  ScheduleInv'
<1>1. ASSUME NEW h \in Handles, NEW m \in Methods, CallMethod(h, m)
      PROVE  ScheduleInv'
  <2>1. IsMethod(m) /\ m.op # "fuse_into"
    BY MethodsAre, NeverFuse
  <2>2. CASE Interpretable(h, m)
    <3>1. PICK other \in Others(h, m) : Apply(h, m, other, h)
      BY <1>1, <2>2 DEF CallMethod
    <3> QED BY <2>1, <2>2, <3>1, MethodKeeps
  <2>3. CASE ~Interpretable(h, m)
    BY <1>1, <2>3, NothingChanges DEF CallMethod, Fails
  <2> QED BY <2>2, <2>3
<1>2. ASSUME NEW h \in Handles, NEW a \in TileArguments, Tile(h, a)
      PROVE  ScheduleInv'
  <2>1. CASE TileRefuses(a)
    BY <1>2, <2>1, NothingChanges DEF Tile, Raised
  <2>2. CASE ~TileRefuses(a)
    <3>1. PICK m \in {tile_using_for, tile_using_forall} :
            IF Interpretable(h, m) THEN Apply(h, m, 0, h) ELSE Fails
      <4>1. CASE a.loop = "FOR"
        BY <1>2, <2>2, <4>1 DEF Tile
      <4>2. CASE a.loop # "FOR"
        BY <1>2, <2>2, <4>2 DEF Tile
      <4> QED BY <4>1, <4>2
    <3>2. IsMethod(m) /\ m.op # "fuse_into"
      BY MethodsAre, NeverFuse
    <3>3. 0 \in Others(h, m)
      <4>1. m.makes = <<"loop">>
        BY DEF tile_using_for, tile_using_forall, Transform
      <4>2. m.makes # <<"parent">> /\ m.makes # <<"producer">>
        BY <4>1
      <4> QED BY <4>2 DEF Others
    <3>4. CASE Interpretable(h, m)
      BY <3>1, <3>2, <3>3, <3>4, MethodKeeps
    <3>5. CASE ~Interpretable(h, m)
      BY <3>1, <3>5, NothingChanges DEF Fails
    <3> QED BY <3>4, <3>5
  <2> QED BY <2>1, <2>2
<1>3. ASSUME NEW h \in Handles, NEW into \in Handles, FuseInto(h, into)
      PROVE  ScheduleInv'
  <2> DEFINE may == /\ Interpretable(h, fuse_into) /\ Live(into) /\ Cardinality(Ops(into)) = 1
                    /\ \A o \in Ops(h) : /\ payload[o] \ {o} \subseteq Around(Ops(into))
                                         /\ o \notin Around(Ops(into))
  <2>1. IF may THEN Apply(h, fuse_into, 0, into) ELSE Fails
    BY <1>3 DEF FuseInto
  <2>2. CASE may
    BY <2>1, <2>2, FuseKeeps
  <2>3. CASE ~may
    <3> HIDE DEF may
    <3> QED BY <2>1, <2>3, NothingChanges DEF Fails
  <2> QED BY <2>2, <2>3
<1>4. ASSUME NEW h \in Handles, NEW seen, Match(h, seen)
      PROVE  ScheduleInv'
  <2>1. CASE Live(h) /\ Cardinality(Ops(h)) = 1
    BY <1>4, <2>1, MatchKeeps DEF Match
  <2>2. CASE ~ (Live(h) /\ Cardinality(Ops(h)) = 1)
    BY <1>4, <2>2, NothingChanges DEF Match, Fails
  <2> QED BY <2>1, <2>2
<1>5. ASSUME NEW h \in Handles, NEW form \in Forms, normalize(h, form)
      PROVE  ScheduleInv'
  <2>1. CASE form = LoopNormalform /\ ~Live(h)
    BY <1>5, <2>1, NothingChanges DEF normalize, Fails
  <2>2. CASE ~ (form = LoopNormalform /\ ~Live(h))
    BY <1>5, <2>2, NormalizeKeeps DEF normalize
  <2> QED BY <2>1, <2>2
<1>6. ASSUME NEW h \in Handles, OnHandle(h)
      PROVE  ScheduleInv'
  <2>1. AnyForm \in Forms /\ LoopNormalform \in Forms
    BY DEF Forms
  <2> QED BY <1>1, <1>2, <1>3, <1>4, <1>5, <1>6, <2>1
          DEF OnHandle, match_ops, match_tag, match_sparse_inout_ops
<1>7. CASE \E activate \in BOOLEAN : set_auto_normalization(activate) \/ EnterAutonormalize(activate)
  BY <1>7, NothingChanges DEF set_auto_normalization, EnterAutonormalize
<1>8. CASE ExitAutonormalize \/ Return
  BY <1>8, NothingChanges DEF ExitAutonormalize, Return
<1>9. CASE ScheduleOver \/ UNCHANGED scheduleVars
  BY <1>9, NothingChanges DEF ScheduleOver, scheduleVars
<1> QED BY <1>6, <1>7, <1>8, <1>9 DEF ScheduleNext

(* The invariant holds of every schedule.                                   *)
LEMMA ScheduleAlways == ScheduleSpec => []ScheduleInv
BY InitKeeps, NextKeeps, PTL DEF ScheduleSpec

(* In every schedule, whatever its length, a handle whose value the         *)
(* interpreter no longer accepts was overtaken by a call on another handle, *)
(* or was used by vectorize, interchange, create_async_groups or            *)
(* bufferize_to_allocation, which consume the value and leave it in the     *)
(* handle: every other method of jasc.py puts the result there.             *)
THEOREM LostAlways == ScheduleSpec => []LostOnlyToOthers
<1>1. ScheduleInv => LostOnlyToOthers
  BY DEF ScheduleInv
<1> QED BY <1>1, ScheduleAlways, PTL

(* A handle that jasc.py takes to be in loop normal form is right about it, *)
(* unless an undecorated method or a handle that is neither an ancestor nor *)
(* a descendant changed the payload since: the setter of Value.normalform   *)
(* tells all the others.                                                    *)
THEOREM NormalformAlways == ScheduleSpec => []NormalformSound
<1>1. ScheduleInv => NormalformSound
  <2> SUFFICES ASSUME ScheduleInv, NEW h \in Handles, Live(h), handles[h].normalform = LoopNormalform
               PROVE  Ops(h) \subseteq normal \/ handles[h].excuse \ {"narrow"} # {}
    BY DEF NormalformSound
  <2> QED BY DEF ScheduleInv, Believed
<1> QED BY <1>1, ScheduleAlways, PTL

(* With automatic normalisation on, jasc_transform hands every transform an *)
(* op and the functions around it in loop normal form, unless the handle    *)
(* has one of those two excuses or was normalised below the function.       *)
THEOREM PreparedAlways == ScheduleSpec => []TransformsPrepared
<1>1. ScheduleInv => TransformsPrepared
  BY DEF ScheduleInv
<1> QED BY <1>1, ScheduleAlways, PTL

=============================================================================
