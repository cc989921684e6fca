------------------------------ MODULE RelData ------------------------------
(***************************************************************************)
(* What the dialects and passes of the SQL prototype share: data types, the *)
(* Python idioms the passes are written with, and exceptions.              *)
(*                                                                         *)
(* An operation is a record with the dialect d it belongs to and its name  *)
(* op; a region or an operand that holds one operation is that record, a   *)
(* region that lists several is a sequence.  Operands are single-use in    *)
(* every dialect here, so the SSA form of a query is a tree as well: the   *)
(* program order is the tree's post-order.                                 *)
(***************************************************************************)
EXTENDS Integers, Sequences

(* xDSL raises; a pass that raises stops, and the module it was rewriting   *)
(* is lost with it.                                                        *)
Raise(why) == [d |-> "raise", op |-> "raise", why |-> why]
IsRaise(x) == x.op = "raise"

(* Go on with F unless x raised; with F unless an element of s raised.      *)
Then(x, F(_)) == IF IsRaise(x) THEN x ELSE F(x)
ThenAll(s, F(_)) ==
  IF \E i \in DOMAIN s : IsRaise(s[i])
  THEN s[CHOOSE i \in DOMAIN s : IsRaise(s[i]) /\ \A j \in 1..(i - 1) : ~IsRaise(s[j])]
  ELSE F(s)

(* [f(x) for x in s], zip(s, u), list(dict.fromkeys(s)), any/all as \E/\A.  *)
Map(F(_), s) == [i \in DOMAIN s |-> F(s[i])]
Pairs(s, u) == [i \in 1..(IF Len(s) < Len(u) THEN Len(s) ELSE Len(u)) |-> <<s[i], u[i]>>]
FromKeys(s) ==
  LET Firsts == SelectSeq([i \in DOMAIN s |-> <<i, s[i]>>],
                          LAMBDA p : \A j \in 1..(p[1] - 1) : s[j] # p[2])
  IN  Map(LAMBDA p : p[2], Firsts)

Elems(s) == {s[i] : i \in DOMAIN s}

(* A data type: its dialect, its name, and whether it is wrapped in         *)
(* Nullable.  decimal2 and decimal3 are Decimal with scale 2 and 3.         *)
Type(d, t, null) == [d |-> d, t |-> t, null |-> null]
TypeNames == {"int32", "int64", "float64", "string", "timestamp",
              "decimal2", "decimal3"}
DataTypes(d) == {Type(d, t, null) : t \in TypeNames, null \in BOOLEAN}
NoType == Type("none", "none", FALSE)       \* Python's None where a type is expected

DaySeconds == 864          \* a day, in units of 100 seconds

(* A schema: a sequence of [elt_name, elt_type]; a lookup takes the first.  *)
SchemaOf(names, types) ==
  Map(LAMBDA p : [elt_name |-> p[1], elt_type |-> p[2]], Pairs(names, types))
Names(schema) == Map(LAMBDA s : s.elt_name, schema)
Types(schema) == Map(LAMBDA s : s.elt_type, schema)
Position(names, n) == CHOOSE i \in DOMAIN names :
                        names[i] = n /\ \A j \in 1..(i - 1) : names[j] # n
LookupType(schema, n) ==
  IF n \in Elems(Names(schema)) THEN schema[Position(Names(schema), n)].elt_type ELSE NoType
=============================================================================
