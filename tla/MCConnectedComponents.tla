----------------------- MODULE MCConnectedComponents -----------------------
(* Model checking instances of ConnectedComponents.                          *)
EXTENDS ConnectedComponents

Undirected(adjacent, n) == [e \in Edges |->
    IF e \in adjacent \/ <<e[2], e[1]>> \in adjacent THEN n ELSE 0]
Both(g, h) == [e \in Edges |-> g[e] + h[e]]

\* The last two vertices with parallel edges between them, and every graph on
\* the others.
Last == {<<nV - 2, nV - 1>>}
Rest == {e \in Edges : e[1] < e[2] /\ e[2] < nV - 2}
Beside(adjacent) == Both(Undirected(Last, 4), Undirected(adjacent, 1))

\* Connected graphs where many threads of the traversal meet.
Meeting == {Undirected({<<0, 1>>, <<0, 2>>, <<1, 3>>, <<2, 3>>, <<3, 4>>, <<4, 5>>}, 1),
            Undirected({<<0, 1>>, <<0, 2>>, <<1, 2>>, <<1, 3>>, <<2, 3>>, <<3, 4>>,
                        <<3, 5>>}, 1)}

AllGraphs == Meeting \cup {Beside(adjacent) : adjacent \in SUBSET Rest}

\* All other vertices isolated.
IsolatedGraphs == {Beside({})}
=============================================================================
