--------------------------- MODULE MCBottomUpBFS ---------------------------
(* Model checking instance of BottomUpBFS, and of TopDownBFS, which it is if *)
(* only run() is called: six vertices, of which a frontier of one is small. *)
EXTENDS BottomUpBFS

With(counts) == [e \in Edges |-> IF e \in DOMAIN counts THEN counts[e] ELSE 0]
Simple(pairs) == With([e \in pairs |-> 1])

\* Every graph on three vertices, loops included.
SmallGraphs == {Simple(pairs) : pairs \in SUBSET ((1 .. 3) \X (1 .. 3))}

\* Two vertices of a level with a common successor and a way back, parallel
\* edges, and all edges between four vertices.
Diamond  == Simple({<<1, 2>>, <<1, 3>>, <<2, 4>>, <<3, 4>>, <<4, 1>>})
Parallel == With([e \in {<<1, 2>>, <<2, 3>>, <<1, 3>>} |-> 2])
Complete == Simple({e \in (1 .. 4) \X (1 .. 4) : e[1] # e[2]})
Chain    == Simple({<<1, 2>>, <<2, 3>>, <<3, 4>>, <<2, 1>>})

\* Levels of one, two, one and two vertices, so that the directions alternate,
\* and of one, two, two and one, so that queue_inf is kept.
Waves  == Simple({<<1, 2>>, <<1, 3>>, <<2, 4>>, <<3, 4>>, <<4, 5>>, <<4, 6>>, <<6, 5>>, <<5, 1>>})
Ladder == Simple({<<1, 2>>, <<1, 3>>, <<2, 4>>, <<3, 5>>, <<5, 6>>, <<4, 5>>, <<6, 2>>})

MCGraphs == SmallGraphs \cup {Diamond, Parallel, Complete, Chain, Waves, Ladder}
=============================================================================
