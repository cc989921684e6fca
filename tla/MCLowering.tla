----------------------------- MODULE MCLowering -----------------------------
(***************************************************************************)
(* One of the passes runs: the conversion of iterators or a decomposition. *)
(* They share no state; the other one stays at its beginning.              *)
(* The conversion is run on all programs of up to three ops and some       *)
(* longer ones, in modules with symbols that it would have used.  The      *)
(* decompositions have a bundle of two leaves and one that nests it and an *)
(* empty bundle, the way the tests of both passes nest them.               *)
(***************************************************************************)
EXTENDS IteratorConversion, Decomposition

VARIABLE running  \* "conversion" or "decomposition"

Op(n, os) == [name |-> n, operands |-> os]

\* The ops that may come after the ops before them.
Streams(p, n) == {j \in 1 .. n : p[j].name \in IteratorOps}
Values(p, n) == {0} \cup {j \in 1 .. n : p[j].name = "stream_to_value"}

MCOps(p, n) ==
  {Op("constantstream", << >>)}
  \cup {Op("value_to_stream", <<v>>) : v \in Values(p, n)}
  \cup {Op(o, <<j>>) : o \in {"map", "sink", "stream_to_value"}, j \in Streams(p, n)}
  \cup {Op("zip", <<j, k>>) : j \in Streams(p, n), k \in Streams(p, n)}

Longer(p, n) == {[i \in 1 .. n + 1 |-> IF i <= n THEN p[i] ELSE o] : o \in MCOps(p, n)}
Extended(ps, n) == UNION {Longer(p, n) : p \in ps}

Ones == Extended({<< >>}, 0)
Twos == Extended(Ones, 1)
Threes == Extended(Twos, 2)

\* A stream made of a value that comes from another stream, and two consumers.
Fours == {p \in Extended(Threes, 3) :
            /\ p[1].name = "constantstream"
            /\ p[2].name = "stream_to_value"
            /\ p[3].name \in {"value_to_stream", "constantstream"}}

MCPrograms == Ones \cup Twos \cup Threes \cup Fours

S(name, kind) == [name |-> name, kind |-> kind]
MCUserSymbols ==
  {{},
   {S(Name("map", "open", 0), "func"), S(Name("map", "close", 1), "func")},
   {S(Name("constantstream", "next", 0), "func"), S(Name("zip", "open", 1), "func")},
   {S(Name("constant_stream_data", "", 0), "global"), S(Name("frmt_spec", "", -1), "global"),
    S(Name("frmt_spec", "", 1), "func")},
   {S(Printf, "func")},
   {S(Printf, "llvm.func"), S(Name("map", "next", 0), "global")}}

MCFields == [pair |-> <<"leaf", "leaf">>, empty |-> << >>, outer |-> <<"empty", "leaf", "pair">>]

MCInit ==
  \/ running = "conversion" /\ Init /\ DecompositionInit /\ pass = "states"
  \/ running = "decomposition" /\ DecompositionInit /\ Init
       /\ prog = <<Op("constantstream", << >>)>> /\ cut = 0 /\ table = {}

MCNext ==
  \/ running = "conversion" /\ Next /\ UNCHANGED <<decompositionVars, running>>
  \/ running = "decomposition" /\ DecompositionNext /\ UNCHANGED <<vars, running>>

MCSpec == MCInit /\ [][MCNext]_<<vars, decompositionVars, running>>
=============================================================================
