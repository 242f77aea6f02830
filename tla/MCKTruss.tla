------------------------------ MODULE MCKTruss ------------------------------
(* Model checking instances of KTruss.                                       *)
EXTENDS KTruss

\* The undirected graph with the given edges, each a set of its ends.
Lists(n, edges) ==
    [v \in 0 .. n - 1 |-> SetToSortSeq({w \in 0 .. n - 1 : {v, w} \in edges}, <)]

Pairs(n) == {{v, w} : v, w \in 0 .. n - 1}
Links(n) == {e \in Pairs(n) : Cardinality(e) = 2}

\* Every graph of four vertices without loops and the complete one with them,
\* and the dense graphs of five.
Small == {Lists(4, edges) : edges \in SUBSET Links(4) \cup {Pairs(4)}}
Dense == {Lists(5, Links(5) \ few) : few \in UNION {kSubset(n, Links(5)) : n \in 0 .. 3}}

MCInputs == [graph : Small \cup Dense, tsp : {1, 4}, lockstep : {TRUE}]
              \cup [graph : Small, tsp : {2}, lockstep : {FALSE}]

\* Four triangles and an edge; without the edge every degree is a power of two.
Unpadded ==
    Lists(6, {{0, 2}, {0, 3}, {1, 3}, {2, 3}, {2, 4}, {2, 5}, {3, 4}, {3, 5}})
UnpaddedInput == {[graph |-> Unpadded, tsp |-> 4, lockstep |-> TRUE]}
=============================================================================
