---------------------------- MODULE MCCoreNumber ----------------------------
(* Model checking instance of CoreNumber: five vertices.  Every undirected  *)
(* graph without loops on the first four, graphs with a loop or parallel     *)
(* edges, and graphs of five vertices with two or three levels.             *)
EXTENDS CoreNumber

Undirected(counts) ==
    [e \in Edges |-> IF e \in DOMAIN counts THEN counts[e]
                     ELSE IF <<e[2], e[1]>> \in DOMAIN counts
                          THEN counts[<<e[2], e[1]>>] ELSE 0]
Simple(pairs) == Undirected([e \in pairs |-> 1])

SmallGraphs == {Simple(pairs) :
                  pairs \in SUBSET {e \in (1 .. 4) \X (1 .. 4) : e[1] < e[2]}}

Looped   == Simple({<<1, 1>>, <<1, 2>>, <<2, 3>>})
Parallel == Undirected([e \in {<<1, 2>>, <<2, 3>>} |-> IF e[1] = 1 THEN 2 ELSE 1])

Tailed   == Simple({<<1, 2>>, <<1, 3>>, <<2, 3>>, <<3, 4>>, <<4, 5>>})
Kernel   == Simple({e \in (1 .. 4) \X (1 .. 4) : e[1] < e[2]} \cup {<<4, 5>>})
Bow      == Simple({<<1, 2>>, <<1, 3>>, <<2, 3>>, <<3, 4>>, <<3, 5>>, <<4, 5>>})

MCGraphs == SmallGraphs \cup {Looped, Parallel, Tailed, Kernel, Bow}
=============================================================================
