--------------------------- MODULE StreamSemantics ---------------------------
(***************************************************************************)
(* The stream each node of a plan stands for, as the descriptions of the   *)
(* iterator ops define it: the reference that the generated code, the      *)
(* module IteratorsToLLVM, is checked against.                             *)
(***************************************************************************)
EXTENDS Naturals, Sequences

CONSTANTS Predicate(_, _), MapFunc(_, _), ReduceFunc(_, _, _)

\* The elements among the first i of s that the function f selects.
MatchingUpTo(f, s) ==
  LET matching[i \in 0 .. Len(s)] ==
        IF i = 0 THEN << >>
        ELSE IF Predicate(f, s[i]) THEN Append(matching[i - 1], s[i])
                                   ELSE matching[i - 1]
  IN matching

Matching(f, s) == MatchingUpTo(f, s)[Len(s)]

\* The first i elements of s, combined by f from the left.
ReducedUpTo(f, s) ==
  LET reduced[i \in 1 .. Len(s)] ==
        IF i = 1 THEN s[1] ELSE ReduceFunc(f, reduced[i - 1], s[i])
  IN reduced

\* The reduction of a stream: empty iff the stream is.
Reduction(f, s) == IF s = << >> THEN << >> ELSE <<ReducedUpTo(f, s)[Len(s)]>>

\* Tuples of the elements at the same position, up to the shortest stream.
Shortest(streams) ==
  CHOOSE l \in {Len(streams[k]) : k \in DOMAIN streams} :
    \A k \in DOMAIN streams : l <= Len(streams[k])

Zipped(streams) ==
  [i \in 1 .. Shortest(streams) |-> [k \in DOMAIN streams |-> streams[k][i]]]

\* The stream of node n of the plan p, given those of its operands.
StreamOfNode(p, stream, n) ==
  LET input == stream[p.ups[n][1]] IN
  CASE p.kind[n] = "filter" -> Matching(p.func[n], input)
    [] p.kind[n] = "map" -> [i \in 1 .. Len(input) |-> MapFunc(p.func[n], input[i])]
    [] p.kind[n] = "reduce" -> Reduction(p.func[n], input)
    [] p.kind[n] = "zip" -> Zipped([k \in DOMAIN p.ups[n] |-> stream[p.ups[n][k]]])
    [] OTHER -> p.data[n]

Streams(p) ==
  LET stream[n \in p.nodes] == StreamOfNode(p, stream, n) IN stream

=============================================================================
