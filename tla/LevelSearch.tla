---------------------------- MODULE LevelSearch ----------------------------
(***************************************************************************)
(* What a top-down breadth-first search promises: it labels the vertices   *)
(* level by level, a whole level at once.  There are no threads, no        *)
(* kernels and no queue here: the frontier is the set of vertices that     *)
(* were labelled last.                                                     *)
(***************************************************************************)
EXTENDS Integers

CONSTANTS Vertices, Graphs, INF

VARIABLES graph,    \* graph[<<u, v>>]: the number of edges u -> v
          dist,     \* the label of every vertex, INF: none
          level,    \* the label that the next vertices get
          phase     \* "ready", "search" or "done"

Unlabelled == [v \in Vertices |-> INF]

Init == /\ graph \in Graphs
        /\ dist = Unlabelled
        /\ level = 1
        /\ phase = "ready"

Start(s) == /\ phase = "ready"
            /\ dist' = [dist EXCEPT ![s] = 0]
            /\ phase' = "search"
            /\ UNCHANGED <<graph, level>>

Frontier == {v \in Vertices : dist[v] = level - 1}

Reached == {v \in Vertices : \E u \in Frontier : graph[<<u, v>>] > 0}

Step == /\ phase = "search"
        /\ Frontier # {}
        /\ dist' = [v \in Vertices |->
                      IF dist[v] = INF /\ v \in Reached THEN level ELSE dist[v]]
        /\ level' = level + 1
        /\ UNCHANGED <<graph, phase>>

Stop == /\ phase = "search"
        /\ Frontier = {}
        /\ phase' = "done"
        /\ UNCHANGED <<graph, dist, level>>

Restart == /\ phase = "done"
           /\ dist' = Unlabelled
           /\ level' = 1
           /\ phase' = "ready"
           /\ UNCHANGED graph

Next == \/ \E s \in Vertices : Start(s)
        \/ Step \/ Stop \/ Restart

Spec == Init /\ [][Next]_<<graph, dist, level, phase>>
============================================================================
