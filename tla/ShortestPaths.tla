--------------------------- MODULE ShortestPaths ---------------------------
(***************************************************************************)
(* Single-source shortest paths (SSSP).  The host repeats a kernel over    *)
(* the edges out of the queue until the queue is empty.  A thread loads    *)
(* the distance of its source, adds the weight, and lowers the distance of *)
(* the target with an atomic minimum; if it did lower it, it enqueues the  *)
(* target.  The distance it has loaded may be lowered in the meantime, and *)
(* a vertex may be enqueued several times for the same round.              *)
(***************************************************************************)
EXTENDS Integers, FiniteSets

CONSTANTS Vertices,
          Graphs,      \* sets of edges <<u, v, weight>>
          INF          \* larger than the length of every path

ASSUME SSSPAssumption ==
    /\ IsFiniteSet(Vertices) /\ Vertices # {}
    /\ INF \in Nat \ {0}
    /\ \A g \in Graphs : g \subseteq Vertices \X Vertices \X Nat

VARIABLES arcs,          \* the graph, which does not change
          pc,            \* "ready", "loop" (at the head), "kernel" or "done"
          distances,     \* d_distances
          sssp_source,
          input, output, size,   \* the queue
          starting,      \* threads <<edge, k>>: k-th copy of the source in the queue
          relaxing       \* threads that have computed their tentative distance

queue == <<input, output, size>>
vars  == <<arcs, pc, distances, sssp_source, queue, starting, relaxing>>

\* queue(hornet, 4.0f): room for four items per vertex.
Queue == INSTANCE TwoLevelQueue WITH Items <- Vertices,
                                     MaxItems <- 4 * Cardinality(Vertices)

Unreached == [v \in Vertices |-> INF]

Init == /\ arcs \in Graphs
        /\ pc = "ready"
        /\ distances = Unreached
        /\ sssp_source = CHOOSE v \in Vertices : TRUE      \* 0, until it is set
        /\ Queue!Init
        /\ starting = {}
        /\ relaxing = {}

Reset == /\ pc = "done"
         /\ pc' = "ready"
         /\ Queue!Clear
         /\ distances' = Unreached
         /\ UNCHANGED <<arcs, sssp_source, starting, relaxing>>

SetParameters(source) ==
    /\ pc = "ready"
    /\ pc' = "loop"
    /\ sssp_source' = source
    /\ Queue!HostInsert(source)
    /\ distances' = [distances EXCEPT ![source] = 0]
    /\ UNCHANGED <<arcs, starting, relaxing>>

-----------------------------------------------------------------------------
(* run()                                                                   *)

\* forAllEdges: a thread for every edge of every item of the queue.
Launch == /\ pc = "loop"
          /\ size > 0
          /\ pc' = "kernel"
          /\ starting' = UNION {{e} \X (1 .. input[e[1]]) : e \in arcs}
          /\ UNCHANGED <<arcs, distances, sssp_source, queue, relaxing>>

\* The operator up to its atomic.
Load(t) ==
    /\ t \in starting
    /\ starting' = starting \ {t}
    /\ relaxing' = relaxing \cup
         {[thread |-> t, tentative |-> distances[t[1][1]] + t[1][3]]}
    /\ UNCHANGED <<arcs, pc, distances, sssp_source, queue>>

Target(r) == r.thread[1][2]

\* A thread that enqueues a target for the first distance it gets, one that
\* enqueues it for an equal distance too, and one that stores without comparing.
Lower_First(r) ==
    /\ distances[Target(r)] > r.tentative
    /\ distances' = [distances EXCEPT ![Target(r)] = r.tentative]
    /\ IF distances[Target(r)] = INF THEN Queue!DeviceInsert(Target(r))
                                     ELSE UNCHANGED queue

Lower_Equal(r) ==
    /\ distances[Target(r)] >= r.tentative
    /\ distances' = [distances EXCEPT ![Target(r)] = r.tentative]
    /\ Queue!DeviceInsert(Target(r))

Keep_Stored(r) ==
    /\ distances[Target(r)] <= r.tentative
    /\ distances' = [distances EXCEPT ![Target(r)] = r.tentative]
    /\ UNCHANGED queue

\* The atomicMin: of a thread that lowers the distance, and enqueues the target,
\* and of one that does not.
Lower(r) ==
    /\ distances[Target(r)] > r.tentative
    /\ distances' = [distances EXCEPT ![Target(r)] = r.tentative]
    /\ Queue!DeviceInsert(Target(r))

Keep(r) ==
    /\ distances[Target(r)] <= r.tentative
    /\ UNCHANGED <<distances, queue>>

Relax(r) ==
    /\ r \in relaxing
    /\ relaxing' = relaxing \ {r}
    /\ Lower(r) \/ Keep(r)
    /\ UNCHANGED <<arcs, pc, sssp_source, starting>>

\* The kernel has ended: swap the queue.
NextRound == /\ pc = "kernel"
             /\ starting = {}
             /\ relaxing = {}
             /\ pc' = "loop"
             /\ Queue!Swap
             /\ UNCHANGED <<arcs, distances, sssp_source, starting, relaxing>>

Finish == /\ pc = "loop"
          /\ size = 0
          /\ pc' = "done"
          /\ UNCHANGED <<arcs, distances, sssp_source, queue, starting, relaxing>>

Run == \/ Launch
       \/ \E t \in starting : Load(t)
       \/ \E r \in relaxing : Relax(r)
       \/ NextRound
       \/ Finish

Next == \/ Reset
        \/ \E s \in Vertices : SetParameters(s)
        \/ Run

\* A launched kernel runs to its end and the host thread goes on after it.
Spec == Init /\ [][Next]_vars /\ WF_vars(Run)

-----------------------------------------------------------------------------
(* Properties                                                              *)

Threads == (Vertices \X Vertices \X Nat) \X (Nat \ {0})

\* Distances, queue buffers and threads keep their types.
TypeOK == /\ arcs \subseteq Vertices \X Vertices \X Nat
          /\ pc \in {"ready", "loop", "kernel", "done"}
          /\ distances \in [Vertices -> Nat]
          /\ sssp_source \in Vertices
          /\ input \in [Vertices -> Nat]
          /\ output \in [Vertices -> Nat]
          /\ size \in Nat
          /\ starting \subseteq Threads
          /\ relaxing \subseteq [thread : Threads, tentative : Nat]

Unrelaxed(e) == /\ distances[e[1]] # INF
                /\ distances[e[1]] + e[3] < distances[e[2]]

\* Although threads use distances that are lowered behind their back, no edge is
\* forgotten: one that could lower its target has its source in the queue for
\* the next kernel, or a thread that will see the distance as it is now.
NothingForgotten ==
    pc # "done" =>
      \A e \in arcs : Unrelaxed(e) =>
        \/ output[e[1]] > 0
        \/ pc = "loop" /\ input[e[1]] > 0
        \/ \E t \in starting : t[1] = e
        \/ \E r \in relaxing : /\ r.thread[1] = e
                               /\ r.tentative <= distances[e[1]] + e[3]

\* The lengths of shortest paths, when those with one edge less are w: to each
\* vertex such a path, or one of its edges behind a path to the other end.
Lengths(w, v) == {w[v]} \cup {w[e[1]] + e[3] : e \in {a \in arcs : a[2] = v}}
Longer(w)     == [v \in Vertices |-> CHOOSE l \in Lengths(w, v) :
                                        \A k \in Lengths(w, v) : l <= k]

\* The length of a shortest path from the source with at most n edges.
Within[n \in Nat] == IF n = 0
                     THEN [v \in Vertices |-> IF v = sssp_source THEN 0 ELSE INF]
                     ELSE Longer(Within[n - 1])

Shortest == Within[Cardinality(Vertices) - 1]

\* A finished run leaves the lengths of shortest paths.
DistancesExact == pc = "done" => distances = Shortest

\* run() returns, whatever is enqueued twice.
RunReturns == pc = "loop" ~> pc = "done"
=============================================================================
