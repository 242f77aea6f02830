----------------------------- MODULE TopDownBFS -----------------------------
(***************************************************************************)
(* Breadth-first search from the top down (BfsTopDown2).  The host loops   *)
(* over levels; one kernel per level runs a thread for every edge out of   *)
(* the frontier, and a thread that wins the atomic on the distance of its  *)
(* target enqueues the target.  Kernels of one stream do not overlap, but  *)
(* the threads of a kernel run in any order.                               *)
(***************************************************************************)
EXTENDS Integers, FiniteSets

CONSTANTS Vertices,
          Graphs,      \* the graphs to search: the number of edges u -> v
          INF          \* the distance of a vertex that is not reached

Edges == Vertices \X Vertices

ASSUME BFSAssumption == /\ IsFiniteSet(Vertices) /\ Vertices # {}
                        /\ Graphs \subseteq [Edges -> Nat]
                        /\ INF \notin Nat

VARIABLES arcs,            \* the graph, which the search does not change
          pc,              \* "ready", "loop" (at the head), "kernel" or "done"
          distances,       \* d_distances
          bfs_source,
          current_level,
          input, output, size,    \* the frontier queue
          visiting,        \* visiting[u, v]: threads before their atomicCAS
          won              \* won[v]: threads that set v and have to enqueue it

queue == <<input, output, size>>
vars  == <<arcs, pc, distances, bfs_source, current_level, queue, visiting, won>>

\* queue(hornet, 5): room for five items per vertex.
Queue == INSTANCE TwoLevelQueue WITH Items <- Vertices,
                                     MaxItems <- 5 * Cardinality(Vertices)

NoThread == [e \in Edges |-> 0]
Nobody   == [v \in Vertices |-> 0]

Init == /\ arcs \in Graphs
        /\ pc = "ready"
        /\ distances = [v \in Vertices |-> INF]
        /\ bfs_source = CHOOSE v \in Vertices : TRUE     \* 0, until it is set
        /\ current_level = 1
        /\ Queue!Init
        /\ visiting = NoThread
        /\ won = Nobody

Reset == /\ pc = "done"
         /\ pc' = "ready"
         /\ current_level' = 1
         /\ Queue!Clear
         /\ distances' = [v \in Vertices |-> INF]
         /\ UNCHANGED <<arcs, bfs_source, visiting, won>>

SetParameters(source) ==
    /\ pc = "ready"
    /\ pc' = "loop"
    /\ bfs_source' = source
    /\ Queue!HostInsert(source)
    /\ distances' = [distances EXCEPT ![source] = 0]
    /\ UNCHANGED <<arcs, current_level, visiting, won>>

-----------------------------------------------------------------------------
(* run()                                                                   *)

\* forAllEdges: a thread for every edge of every item of the queue.
Launch == /\ pc = "loop"
          /\ size > 0
          /\ pc' = "kernel"
          /\ visiting' = [e \in Edges |-> input[e[1]] * arcs[e]]
          /\ UNCHANGED <<arcs, distances, bfs_source, current_level, queue, won>>

\* The atomicCAS of a thread that finds INF: the vertex is its own to enqueue.
Discover(e) ==
    /\ visiting[e] > 0
    /\ distances[e[2]] = INF
    /\ visiting' = [visiting EXCEPT ![e] = @ - 1]
    /\ distances' = [distances EXCEPT ![e[2]] = current_level]
    /\ won' = [won EXCEPT ![e[2]] = @ + 1]
    /\ UNCHANGED <<arcs, pc, bfs_source, current_level, queue>>

\* A thread that also enqueues what another thread of its level has set.
Skip_Revisit(e) ==
    /\ visiting[e] > 0
    /\ distances[e[2]] # INF
    /\ visiting' = [visiting EXCEPT ![e] = @ - 1]
    /\ won' = IF distances[e[2]] = current_level
              THEN [won EXCEPT ![e[2]] = @ + 1] ELSE won
    /\ UNCHANGED <<arcs, pc, distances, bfs_source, current_level, queue>>

\* A thread that repeats its atomicCAS until it succeeds.
Skip_Spin(e) ==
    /\ visiting[e] > 0
    /\ distances[e[2]] # INF
    /\ UNCHANGED vars

\* The atomicCAS of a thread that finds anything else: it has lost.
Skip(e) ==
    /\ visiting[e] > 0
    /\ distances[e[2]] # INF
    /\ visiting' = [visiting EXCEPT ![e] = @ - 1]
    /\ UNCHANGED <<arcs, pc, distances, bfs_source, current_level, queue, won>>

Enqueue(v) ==
    /\ won[v] > 0
    /\ won' = [won EXCEPT ![v] = @ - 1]
    /\ Queue!DeviceInsert(v)
    /\ UNCHANGED <<arcs, pc, distances, bfs_source, current_level, visiting>>

\* The kernel has ended: swap the queue, next level.
NextLevel == /\ pc = "kernel"
             /\ visiting = NoThread
             /\ won = Nobody
             /\ pc' = "loop"
             /\ Queue!Swap
             /\ current_level' = current_level + 1
             /\ UNCHANGED <<arcs, distances, bfs_source, visiting, won>>

Finish == /\ pc = "loop"
          /\ size = 0
          /\ pc' = "done"
          /\ UNCHANGED <<arcs, distances, bfs_source, current_level, queue,
                         visiting, won>>

Run == \/ Launch
       \/ \E e \in Edges : Discover(e) \/ Skip(e)
       \/ \E v \in Vertices : Enqueue(v)
       \/ NextLevel
       \/ Finish

Next == \/ Reset
        \/ \E s \in Vertices : SetParameters(s)
        \/ Run

\* A launched kernel runs to its end and the host thread goes on after it.
Spec == Init /\ [][Next]_vars /\ WF_vars(Run)

-----------------------------------------------------------------------------
(* Properties                                                              *)

Distance == Nat \cup {INF}

\* Distances, levels, queue buffers and threads keep their types.
TypeOK == /\ arcs \in [Edges -> Nat]
          /\ pc \in {"ready", "loop", "kernel", "done"}
          /\ distances \in [Vertices -> Distance]
          /\ bfs_source \in Vertices
          /\ current_level \in Nat \ {0}
          /\ input \in [Vertices -> Nat]
          /\ output \in [Vertices -> Nat]
          /\ size \in Nat
          /\ visiting \in [Edges -> Nat]
          /\ won \in [Vertices -> Nat]

\* However many threads reach a vertex at the same time, it is in the queue
\* (or about to be enqueued) at most once, in the buffer of its level, and
\* the buffers hold no other vertices (the atomicCAS of BFSOperatorAtomic).
EnqueuedOnce ==
    \A v \in Vertices :
      /\ input[v] = IF pc \in {"loop", "kernel"} /\ distances[v] = current_level - 1
                    THEN 1 ELSE 0
      /\ output[v] + won[v] = IF distances[v] = current_level THEN 1 ELSE 0

\* After a run the distances are those of shortest paths: only the source has
\* distance zero, an edge spans at most one level, and every other vertex that
\* was reached has a predecessor one level before it.
DistancesExact ==
    pc = "done" =>
      \A v \in Vertices :
        /\ (distances[v] = 0) = (v = bfs_source)
        /\ \A u \in Vertices :
             arcs[<<u, v>>] > 0 /\ distances[u] # INF =>
               distances[v] # INF /\ distances[v] <= distances[u] + 1
        /\ distances[v] \notin {0, INF} =>
             \E u \in Vertices : /\ arcs[<<u, v>>] > 0
                                 /\ distances[u] # INF
                                 /\ distances[u] + 1 = distances[v]

\* run() returns, in cyclic graphs too.
RunReturns == pc = "loop" ~> pc = "done"

\* Seen from the host, a run labels the vertices level by level: what the
\* threads of a kernel have done so far is hidden.
Labels == [v \in Vertices |-> IF pc = "kernel" /\ distances[v] = current_level
                              THEN INF ELSE distances[v]]

Search == INSTANCE LevelSearch
            WITH graph <- arcs, dist <- Labels, level <- current_level,
                 phase <- IF pc \in {"loop", "kernel"} THEN "search" ELSE pc

ImplementsSearch == Search!Spec
=============================================================================
