------------------------- MODULE MCTriangleCounting -------------------------
(* Model checking instances of TriangleCounting: every directed graph on     *)
(* three vertices and graphs directed by degree (as the test of the triangle *)
(* counting builds them).                                                    *)
EXTENDS TriangleCounting

Sorted(S) == LET rank(x) == Cardinality({y \in S : y <= x})
             IN  [n \in 1 .. Cardinality(S) |-> CHOOSE x \in S : rank(x) = n]

Lists(n, edges) == [v \in 0 .. n - 1 |-> Sorted({e[2] : e \in {d \in edges : d[1] = v}})]

Pairs(n) == {e \in (0 .. n - 1) \X (0 .. n - 1) : e[1] # e[2]}

Complete4 == Lists(4, {e \in Pairs(4) : e[1] < e[2]})
TwoHubs   == Lists(6, {<<0, 1>>, <<0, 2>>, <<0, 3>>, <<0, 5>>, <<1, 2>>, <<1, 4>>, <<1, 5>>})

MCGraphs == {Lists(3, edges) : edges \in SUBSET Pairs(3)} \cup {Complete4, TwoHubs}
=============================================================================
