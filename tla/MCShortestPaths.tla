-------------------------- MODULE MCShortestPaths --------------------------
(* Model checking instances of ShortestPaths.                                *)
EXTENDS ShortestPaths

\* Paths with more edges are cheaper, so distances are lowered late; two ways
\* meet in a vertex; an edge back; parallel edges; a cycle without weight.
Detours  == {<<1, 2, 4>>, <<1, 3, 1>>, <<3, 2, 1>>, <<2, 4, 1>>, <<1, 4, 7>>, <<3, 4, 5>>}
Meeting  == {<<1, 2, 2>>, <<1, 3, 1>>, <<2, 4, 1>>, <<3, 4, 3>>, <<4, 1, 1>>, <<3, 2, 0>>}
Parallel == {<<1, 2, 3>>, <<1, 2, 1>>, <<2, 3, 2>>, <<2, 3, 1>>, <<3, 4, 1>>}
Free     == {<<1, 2, 0>>, <<2, 1, 0>>, <<2, 3, 1>>, <<3, 1, 0>>, <<3, 3, 0>>}

\* Every graph on three vertices whose edges weigh nothing or three.
Between == {e \in (1 .. 3) \X (1 .. 3) : e[1] # e[2]}
Weighted(weight) == {<<e[1], e[2], weight[e]>> : e \in {a \in Between : weight[a] >= 0}}
SmallGraphs == {Weighted(weight) : weight \in [Between -> {-1, 0, 3}]}

MCGraphs == {Detours, Meeting, Parallel, Free} \cup SmallGraphs
=============================================================================
