----------------------------- MODULE CoreNumber -----------------------------
(***************************************************************************)
(* Core numbers by peeling (CoreNumber), and the variant of the same loop  *)
(* in KCore.  Vertices whose degree has fallen to the current level are    *)
(* peeled; a kernel with a thread per edge of a peeled vertex lowers the   *)
(* degrees at both ends; when nothing is left to peel the vertices of the  *)
(* level get their number, and the level rises.  The kernels over vertices *)
(* are steps: each of their threads reads and writes its own vertex only.  *)
(* The edge kernel is taken thread by thread.                              *)
(***************************************************************************)
EXTENDS Integers, FiniteSets

CONSTANTS Vertices,
          Graphs,      \* undirected graphs: the number of edges u -> v
          Garbage      \* what memory may hold that nobody has written

Edges == Vertices \X Vertices

ASSUME CoreAssumption ==
    /\ IsFiniteSet(Vertices)
    /\ Graphs \subseteq {g \in [Edges -> Nat] :
                            \A u, v \in Vertices : g[<<u, v>>] = g[<<v, u>>]}
    /\ Garbage \subseteq Int

VARIABLES arcs,           \* the graph, which does not change
          kcore,          \* the class: KCore or CoreNumber
          pc,             \* "ready", "loop" or "done"
          vertex_pres,    \* 1: not peeled, 2: peeled at this level, 0: numbered
          vertex_deg,
          core_number,
          n_active, peel,
          activeIn, activeOut, activeSize,     \* active_queue
          peelIn, peelOut, peelSize,           \* peel_vqueue
          iterIn, iterOut, iterSize,           \* iter_queue
          pending         \* pending[u, v]: threads of the edge kernel to come

activeQ == <<activeIn, activeOut, activeSize>>
peelQ   == <<peelIn, peelOut, peelSize>>
iterQ   == <<iterIn, iterOut, iterSize>>
graph   == <<arcs, kcore>>
vars == <<graph, pc, vertex_pres, vertex_deg, core_number, n_active, peel,
          activeQ, peelQ, iterQ, pending>>

Room == 2 * Cardinality(Vertices)

Active == INSTANCE TwoLevelQueue WITH Items <- Vertices, MaxItems <- Room,
            input <- activeIn, output <- activeOut, size <- activeSize
Peel   == INSTANCE TwoLevelQueue WITH Items <- Vertices, MaxItems <- Room,
            input <- peelIn, output <- peelOut, size <- peelSize
Iter   == INSTANCE TwoLevelQueue WITH Items <- Vertices, MaxItems <- Room,
            input <- iterIn, output <- iterOut, size <- iterSize

\* The number of items of a bag of vertices.
Total(bag) == Cardinality(UNION {{v} \X (1 .. bag[v]) : v \in Vertices})
Once(S)    == [v \in Vertices |-> IF v \in S THEN 1 ELSE 0]

Degree(v) == Total([w \in Vertices |-> arcs[<<v, w>>]])

NoThread == [e \in Edges |-> 0]

Init == /\ arcs \in Graphs
        /\ kcore \in BOOLEAN
        /\ pc = "ready"
        /\ vertex_pres \in [Vertices -> Garbage]
        /\ vertex_deg \in [Vertices -> Garbage]
        /\ core_number = [v \in Vertices |-> 0]
        /\ n_active = 0
        /\ peel = 0
        /\ Active!Init /\ Peel!Init /\ Iter!Init
        /\ pending = NoThread

Reset == /\ pc = "done"
         /\ pc' = "ready"
         /\ Active!Swap /\ Peel!Swap /\ Iter!Swap
         /\ UNCHANGED <<graph, vertex_pres, vertex_deg, core_number, n_active,
                        peel, pending>>

-----------------------------------------------------------------------------
(* run(), which may be called again with or without a reset before it      *)

\* The kernel ActiveVertices, its queue swapped, and the locals of the loop.
Begin == LET connected == {v \in Vertices : Degree(v) > 0}
         IN  /\ pc \in {"ready", "done"}
             /\ pc' = "loop"
             /\ vertex_pres' = [v \in Vertices |->
                                  IF v \in connected THEN 1 ELSE vertex_pres[v]]
             /\ vertex_deg' = [v \in Vertices |->
                                 IF v \in connected THEN Degree(v)
                                                    ELSE vertex_deg[v]]
             /\ Active!AppendAndSwap(Once(connected))
             /\ n_active' = activeSize'
             /\ peel' = 0
             /\ UNCHANGED <<graph, core_number, peelQ, iterQ, pending>>

\* A kernel that also takes vertices of the next level.
Peelable_Next == {v \in Vertices : /\ activeIn[v] > 0
                                   /\ vertex_pres[v] = 1
                                   /\ vertex_deg[v] <= peel + 1}

\* What the kernel PeelVertices marks.
Peelable == {v \in Vertices : /\ activeIn[v] > 0
                              /\ vertex_pres[v] = 1
                              /\ vertex_deg[v] <= peel}

\* At the head of the loop, with the last edge kernel ended.
AtHead == pc = "loop" /\ pending = NoThread

\* Vertices are peeled: a thread for each of their edges is launched.
PeelVertices ==
    /\ AtHead
    /\ n_active > 0
    /\ Peelable # {}
    /\ vertex_pres' = [v \in Vertices |->
                         IF v \in Peelable THEN 2 ELSE vertex_pres[v]]
    /\ Peel!Append(Once(Peelable))
    /\ Iter!AppendAndSwap(Once(Peelable))
    /\ n_active' = n_active - iterSize'
    /\ pending' = [e \in Edges |-> iterIn'[e[1]] * arcs[e]]
    /\ UNCHANGED <<graph, pc, vertex_deg, core_number, peel, activeQ>>

\* A thread that leaves the other end to the edge in the other direction.
DecrementDegree_Source(e) ==
    /\ pending[e] > 0
    /\ pending' = [pending EXCEPT ![e] = @ - 1]
    /\ vertex_deg' = [vertex_deg EXCEPT ![e[1]] = @ - 1]
    /\ UNCHANGED <<graph, pc, vertex_pres, core_number, n_active, peel,
                   activeQ, peelQ, iterQ>>

\* A thread of DecrementDegree, with its two atomics.
DecrementDegree(e) ==
    /\ pending[e] > 0
    /\ pending' = [pending EXCEPT ![e] = @ - 1]
    /\ vertex_deg' = [[vertex_deg EXCEPT ![e[1]] = @ - 1] EXCEPT ![e[2]] = @ - 1]
    /\ UNCHANGED <<graph, pc, vertex_pres, core_number, n_active, peel,
                   activeQ, peelQ, iterQ>>

\* The kernel RemovePres.
RemovePres(number) ==
    LET level == {v \in Vertices : activeIn[v] > 0 /\ vertex_pres[v] = 2}
    IN  /\ vertex_pres' = [v \in Vertices |->
                             IF v \in level THEN 0 ELSE vertex_pres[v]]
        /\ core_number' = [v \in Vertices |->
                             IF v \in level THEN number ELSE core_number[v]]

\* A level that CoreNumber, too, stores after it has risen, one that does not
\* rise, and one that does not empty the queue of its vertices.
NextLevel_Raised ==
    /\ AtHead
    /\ n_active > 0
    /\ Peelable = {}
    /\ Iter!AppendAndSwap(Once({}))
    /\ peel' = peel + 1
    /\ Peel!Swap
    /\ RemovePres(peel + 1)
    /\ UNCHANGED <<graph, pc, vertex_deg, n_active, activeQ, pending>>

NextLevel_Stuck ==
    /\ AtHead
    /\ n_active > 0
    /\ Peelable = {}
    /\ Iter!AppendAndSwap(Once({}))
    /\ Peel!Swap
    /\ RemovePres(peel)
    /\ UNCHANGED <<graph, pc, vertex_deg, n_active, peel, activeQ, pending>>

NextLevel_Unswapped ==
    /\ AtHead
    /\ n_active > 0
    /\ Peelable = {}
    /\ Iter!AppendAndSwap(Once({}))
    /\ peel' = peel + 1
    /\ RemovePres(IF kcore THEN peel + 1 ELSE peel)
    /\ UNCHANGED <<graph, pc, vertex_deg, n_active, activeQ, peelQ, pending>>

\* Nothing was peeled: the level is complete.  KCore stores the number of the
\* next level.
NextLevel ==
    /\ AtHead
    /\ n_active > 0
    /\ Peelable = {}
    /\ Iter!AppendAndSwap(Once({}))
    /\ peel' = peel + 1
    /\ Peel!Swap
    /\ RemovePres(IF kcore THEN peel + 1 ELSE peel)
    /\ UNCHANGED <<graph, pc, vertex_deg, n_active, activeQ, pending>>

\* A loop that stores the last level in KCore, too.
Finish_Stored == /\ AtHead
                 /\ n_active <= 0
                 /\ pc' = "done"
                 /\ RemovePres(peel)
                 /\ UNCHANGED <<graph, vertex_deg, n_active, peel, activeQ, peelQ,
                                iterQ, pending>>

\* The loop ends.  KCore leaves the last level as it is.
Finish ==
    /\ AtHead
    /\ n_active <= 0
    /\ pc' = "done"
    /\ IF kcore THEN UNCHANGED <<vertex_pres, core_number>> ELSE RemovePres(peel)
    /\ UNCHANGED <<graph, vertex_deg, n_active, peel, activeQ, peelQ, iterQ,
                   pending>>

Run == \/ PeelVertices
       \/ \E e \in Edges : DecrementDegree(e)
       \/ NextLevel
       \/ Finish

Next == Reset \/ Begin \/ Run

\* A launched kernel runs to its end and the host thread goes on after it.
Spec == Init /\ [][Next]_vars /\ WF_vars(Run)

-----------------------------------------------------------------------------
(* Properties                                                              *)

\* Marks, counters, numbers, queue buffers and threads keep their types.
TypeOK == /\ arcs \in Graphs
          /\ kcore \in BOOLEAN
          /\ pc \in {"ready", "loop", "done"}
          /\ vertex_pres \in [Vertices -> Int]
          /\ vertex_deg \in [Vertices -> Int]
          /\ core_number \in [Vertices -> Nat]
          /\ n_active \in Nat
          /\ peel \in Nat
          /\ activeIn \in [Vertices -> {0, 1}]
          /\ activeOut = Active!Empty
          /\ peelIn \in [Vertices -> {0, 1}]
          /\ peelOut \in [Vertices -> {0, 1}]
          /\ iterIn \in [Vertices -> {0, 1}]
          /\ iterOut = Iter!Empty
          /\ pending \in [Edges -> Nat]

\* The vertices of the active queue that are not peeled.
Remaining == {v \in Vertices : activeIn[v] > 0 /\ vertex_pres[v] = 1}

\* The edges of a vertex to a set of vertices, and the sets in which every
\* vertex has at least k of them.
DegreeIn(S, v) == Total([w \in Vertices |-> IF w \in S THEN arcs[<<v, w>>] ELSE 0])
IsCore(S, k)   == \A v \in S : DegreeIn(S, v) >= k

HasCoreNumber(v, k) == /\ \E S \in SUBSET Vertices : v \in S /\ IsCore(S, k)
                       /\ \A S \in SUBSET Vertices : v \in S => ~IsCore(S, k + 1)

\* Although both ends of an edge may be peeled by one kernel and each edge has
\* two threads then, the counter of a vertex that is not peeled is the number
\* of its edges to others that are not peeled, plus those whose thread is still
\* to come: it is exact when PeelVertices reads it, and never negative, which
\* the unsigned comparison of KCore needs.
DegreesExact ==
    \A v \in Remaining :
        vertex_deg[v] = Total([w \in Vertices |-> IF w \in Remaining
                                                  THEN arcs[<<v, w>>]
                                                  ELSE pending[<<w, v>>]])

\* No vertex is peeled too early: a set in which each vertex has more edges
\* than the level is untouched.
CoresKept ==
    pc = "loop" =>
      \A S \in SUBSET Vertices : IsCore(S, peel + 1) => S \subseteq Remaining

\* n_active is the number of vertices that are not peeled, and peel_vqueue,
\* which run() only ever fills and swaps, has room for what all runs put in.
CountersExact ==
    pc = "loop" => /\ n_active = Cardinality(Remaining)
                   /\ Peel!Fits

\* What run() stores is the largest k such that a k-core has the vertex, for
\* isolated vertices too, whose memory no kernel writes.
CoreNumbersExact ==
    pc = "done" /\ ~kcore => \A v \in Vertices : HasCoreNumber(v, core_number[v])

\* KCore stores one more than that for every vertex but those of the innermost
\* core, whose level is never stored.
KCoreNumbers ==
    pc = "done" /\ kcore =>
      \A v \in {w \in Vertices : Degree(w) > 0} :
        IF vertex_pres[v] = 2 THEN core_number[v] = 0 /\ HasCoreNumber(v, peel)
                              ELSE HasCoreNumber(v, core_number[v] - 1)

\* run() returns.
RunReturns == pc = "loop" ~> pc = "done"
=============================================================================
