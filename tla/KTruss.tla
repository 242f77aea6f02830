------------------------------- MODULE KTruss -------------------------------
(***************************************************************************)
(* K-truss: an edge that is in fewer than k - 2 triangles is erased from   *)
(* the graph, until no edge is.  run() raises k until nothing is left;     *)
(* runForK() stops at the k that it is given.  A kernel counts the common  *)
(* neighbours of the ends of each edge by merging their adjacency lists    *)
(* (module TrussSupport), which needs them sorted; a second one collects   *)
(* the edges with too few; Hornet erases them, which leaves the lists      *)
(* unsorted, and sorts.  The kernels' threads only add to their own cells  *)
(* or to a counter: each kernel is a step.                                 *)
(***************************************************************************)
EXTENDS TrussSupport, SequencesExt

CONSTANTS Inputs,          \* the graph: symmetric adjacency lists, sorted;
                           \* tsp: the threads of an intersection;
                           \* lockstep: do the threads of a warp run so?
          Ks,              \* what callers pass to runForK()
          MaxK             \* bound: k rises no further

ASSUME KTrussAssumption ==
    /\ Ks \subseteq Nat /\ MaxK \in Nat
    /\ \A in \in Inputs : in.tsp \in Nat \ {0} /\ in.lockstep \in BOOLEAN
    /\ \A g \in {in.graph : in \in Inputs} :
        /\ IsFiniteSet(DOMAIN g)
        /\ MaxK > Cardinality(DOMAIN g) + 1
        /\ DOMAIN g = 0 .. Cardinality(DOMAIN g) - 1
        /\ g \in [DOMAIN g -> Seq(DOMAIN g)]
        /\ \A v \in DOMAIN g :
            /\ \A i \in 1 .. Len(g[v]) - 1 : g[v][i] < g[v][i + 1]
            /\ \A w \in ToSet(g[v]) : v \in ToSet(g[w])

VARIABLES lists,           \* the adjacency lists of Hornet
          tsp, lockstep,
          originalNE, num_edges_remaining,
          phase,
          toTheEnd,        \* the call: run() or runForK()
          max_K,
          offset_array, triangles_per_edge,
          is_active,
          batch,           \* src and dst, filled up to counter
          given,           \* history: the graph when the call began
          misread          \* history: did the call merge an unsorted list?

setting == <<tsp, lockstep, originalNE>>
history == <<given, misread>>
trussVars == <<lists, setting, num_edges_remaining, phase, toTheEnd, max_K, offset_array,
               triangles_per_edge, is_active, batch, history>>

Nodes == DOMAIN lists
degree(v) == Len(lists[v])
Degrees   == [v \in Nodes |-> degree(v)]
nE        == SumFunctionOnSet(Degrees, Nodes)

\* The edges of the lists, by their place; adj is counted from 0.
Places   == UNION {{v} \X (0 .. degree(v) - 1) : v \in Nodes}
Dest(p)  == lists[p[1]][p[2] + 1]
Place(p) == offset_array[p[1]] + p[2]

\* The graph, and what it is without direction: the edges that the lists of
\* both ends have.  Threads that miss each other's match may leave an edge in
\* one list only.
Arcs          == {<<p[1], Dest(p)>> : p \in Places}
Symmetric(E)  == \A e \in E : <<e[2], e[1]>> \in E
Undirected(E) == {{e[1], e[2]} : e \in {d \in E : <<d[2], d[1]>> \in E}}

Offsets == [v \in Nodes |-> SumFunctionOnSet(Degrees, 0 .. v - 1)]

NoTriangles == [p \in 0 .. originalNE - 1 |-> 0]

\* The constructor, init(), the sizes of the graph that is read and what
\* setInitParameters() stores.
TrussInit == /\ \E in \in Inputs : /\ lists = in.graph
                                   /\ tsp = in.tsp
                                   /\ lockstep = in.lockstep
             /\ originalNE = nE
             /\ num_edges_remaining = nE
             /\ phase = "ready"
             /\ toTheEnd = FALSE
             /\ max_K = 0
             /\ offset_array = Offsets
             /\ triangles_per_edge = NoTriangles
             /\ is_active = [v \in Nodes |-> FALSE]
             /\ batch = {}
             /\ given = {}
             /\ misread = FALSE

\* reset() between calls; it does not bring back the edges that are erased.
TrussReset == /\ phase = "ready"
              /\ num_edges_remaining' = originalNE
              /\ triangles_per_edge' = NoTriangles
              /\ UNCHANGED <<lists, setting, phase, toTheEnd, max_K, offset_array,
                             is_active, batch, history>>

CreateOffSetArray == /\ phase = "ready"
                     /\ offset_array' = Offsets
                     /\ UNCHANGED <<lists, setting, num_edges_remaining, phase,
                                    toTheEnd, max_K, triangles_per_edge, is_active,
                                    batch, history>>

-----------------------------------------------------------------------------
(* findTrussOfK                                                            *)

\* The kernel Init and the memsets before the loop.
FindTrussOfK(k) == /\ phase' = "count"
                   /\ max_K' = k
                   /\ is_active' = [v \in Nodes |-> TRUE]
                   /\ triangles_per_edge' = NoTriangles
                   /\ batch' = {}

Call(k, whole) == /\ phase = "ready"
                  /\ toTheEnd' = whole
                  /\ given' = Arcs
                  /\ misread' = FALSE
                  /\ FindTrussOfK(k)
                  /\ UNCHANGED <<lists, setting, num_edges_remaining, offset_array>>

TrussRun == Call(3, TRUE)
RunForK  == \E k \in Ks : Call(k, FALSE)

Unsorted == \E v \in Nodes : ~IsSorted(lists[v], <)

\* Edges whose lists are not merged.
Avoid(p) == \/ p[1] = Dest(p)
            \/ degree(p[1]) < 2
            \/ degree(Dest(p)) < 2

EdgeCounts(p) ==
    LET src  == lists[p[1]]
        dest == lists[Dest(p)]
    IN  IF Avoid(p) THEN {0}
        ELSE IF Len(src) < Len(dest) THEN Counts(src, dest, tsp, lockstep)
                                     ELSE Counts(dest, src, tsp, lockstep)

\* The kernel of kTrussOneIteration, with what the race on firstFound may give.
CountTriangles ==
    /\ phase = "count"
    /\ phase' = "collect"
    /\ LET counts == [p \in Places |-> EdgeCounts(p)]
           open   == {p \in Places : Cardinality(counts[p]) > 1}
       IN  \E more \in [open -> 0 .. tsp - 1] :
             LET count == [p \in Places |-> IF p \in open
                                            THEN Min(counts[p]) + more[p]
                                            ELSE Max(counts[p])]
             IN  /\ \A p \in open : count[p] \in counts[p]
                 /\ triangles_per_edge' =
                      [i \in DOMAIN triangles_per_edge |->
                         SumFunctionOnSet(count, {p \in Places : Place(p) = i})]
    /\ misread' = (misread \/ Unsorted)
    /\ UNCHANGED <<lists, setting, num_edges_remaining, toTheEnd, max_K,
                   offset_array, is_active, batch, given>>

\* FindUnderK that asks for as many triangles as k, and one that also takes
\* the edges that have just enough.
TooFew_Closed(p) == triangles_per_edge[Place(p)] <= max_K - 2

TooFew(p) == triangles_per_edge[Place(p)] < max_K - 2

\* The kernel FindUnderK; the order in which the threads take their places in
\* src and dst is lost when Hornet sorts the batch.
FindUnderK ==
    /\ phase = "collect"
    /\ phase' = "decide"
    /\ is_active' = [v \in Nodes |-> is_active[v] /\ degree(v) > 0]
    /\ batch' = {<<p[1], Dest(p)>> : p \in {q \in Places : is_active[q[1]] /\ TooFew(q)}}
    /\ UNCHANGED <<lists, setting, num_edges_remaining, toTheEnd, max_K,
                   offset_array, triangles_per_edge, history>>

\* A run that tries the same k again.
NextK_Same == /\ phase = "decide"
              /\ batch = {}
              /\ toTheEnd
              /\ num_edges_remaining > 0
              /\ FindTrussOfK(max_K)
              /\ UNCHANGED <<lists, setting, num_edges_remaining, toTheEnd,
                             offset_array, history>>

\* counter is 0: findTrussOfK returns, and run() goes on with the next k.
NextK == /\ phase = "decide"
         /\ batch = {}
         /\ toTheEnd
         /\ num_edges_remaining > 0
         /\ FindTrussOfK(Lesser(max_K + 1, MaxK))
         /\ UNCHANGED <<lists, setting, num_edges_remaining, toTheEnd,
                        offset_array, history>>

\* The call returns.
Return == /\ phase = "decide"
          /\ batch = {}
          /\ ~toTheEnd \/ num_edges_remaining <= 0
          /\ phase' = "ready"
          /\ max_K' = IF toTheEnd THEN max_K - 1 ELSE max_K
          /\ UNCHANGED <<lists, setting, num_edges_remaining, toTheEnd,
                         offset_array, triangles_per_edge, is_active, batch, history>>

-----------------------------------------------------------------------------
(* Hornet's erase and sort, for a batch of edges that the lists have       *)

\* The elements of S in increasing order.
InOrder(S) == [n \in 1 .. Cardinality(S) |->
                 CHOOSE x \in S : Cardinality({y \in S : y < x}) = n - 1]

\* The list becomes shorter by its erased edges.  In the order of their targets,
\* those in front of the cut are overwritten by the others behind it.
Erased(l, gone) ==
    LET cut  == Len(l) - Cardinality(gone)
        hole == InOrder({l[i] : i \in 1 .. cut} \cap gone)
        rest == InOrder({i \in cut + 1 .. Len(l) : l[i] \notin gone})
    IN  [i \in 1 .. cut |-> IF l[i] \in gone
                            THEN l[rest[CHOOSE n \in DOMAIN hole : hole[n] = l[i]]]
                            ELSE l[i]]

\* sort() sorts every block, but returns before it does if none has padding.
NoPadding(l)  == Len(l) = 0 \/ \E n \in 0 .. Len(l) : Len(l) = 2 ^ n
SortHornet(g) == IF \A v \in DOMAIN g : NoPadding(g[v]) THEN g
                 ELSE [v \in DOMAIN g |-> InOrder(ToSet(g[v]))]

\* CountActive, the resets and the condition of the loop: there is still an
\* active vertex when edges were erased.
AfterErase == /\ phase' = IF \E v \in Nodes : lists'[v] # <<>> \/ is_active[v]
                          THEN "count" ELSE "decide"
              /\ triangles_per_edge' = NoTriangles
              /\ batch' = {}

\* An erase that counts an edge in both directions at once, and one that is
\* not counted.
EraseBatch_Twice ==
    /\ phase = "decide"
    /\ batch # {}
    /\ lists' = SortHornet([v \in Nodes |->
                    Erased(lists[v], {e[2] : e \in {d \in batch : d[1] = v}})])
    /\ num_edges_remaining' = num_edges_remaining - 2 * Cardinality(batch)
    /\ AfterErase
    /\ UNCHANGED <<setting, toTheEnd, max_K, offset_array, is_active, history>>

\* The edges of the batch are erased.
EraseBatch ==
    /\ phase = "decide"
    /\ batch # {}
    /\ lists' = SortHornet([v \in Nodes |->
                    Erased(lists[v], {e[2] : e \in {d \in batch : d[1] = v}})])
    /\ num_edges_remaining' = num_edges_remaining - Cardinality(batch)
    /\ AfterErase
    /\ UNCHANGED <<setting, toTheEnd, max_K, offset_array, is_active, history>>

Step == CountTriangles \/ FindUnderK \/ NextK \/ Return \/ EraseBatch

TrussNext == TrussReset \/ CreateOffSetArray \/ TrussRun \/ RunForK \/ Step

\* The host thread goes on until the call returns.  Every Step changes phase, and
\* while a call runs nothing else does: this is weak fairness of Step, in a form
\* that is cheap to evaluate.
Proceed == phase # "ready" /\ phase' \in {"ready", "count", "collect", "decide"}

TrussSpec == TrussInit /\ [][TrussNext]_trussVars /\ WF_phase(Proceed)

-----------------------------------------------------------------------------
(* Properties                                                              *)

\* A set of undirected edges is a k-truss if each is in k - 2 of its triangles.
IsTruss(S, k) ==
    \A e \in S : /\ Cardinality(e) = 2
                 /\ Cardinality({w \in Nodes \ e : \A v \in e : {v, w} \in S}) >= k - 2

\* The counter of the edges follows the graph from step to step, whatever the
\* erases make of the lists; only reset() breaks the connection.
EdgesCounted == [][\/ phase = "ready"
                   \/ num_edges_remaining' - num_edges_remaining = nE' - nE]_trussVars

\* No edge of a k-truss that both lists had when the call began is erased from
\* either while k is searched for, although the lists shrink, are sorted anew and
\* the counts of threads that share a match may overlap: as long as no list was
\* merged unsorted.
TrussKept == phase = "count" /\ ~misread =>
               \A S \in SUBSET Undirected(given) :
                  IsTruss(S, max_K) => S \subseteq Undirected(Arcs)

\* What a call leaves is the largest truss: runForK(k) the k-truss, run() the
\* largest k that has one.
MaximalTruss ==
    IF toTheEnd
    THEN /\ \/ max_K = 2
            \/ \E S \in SUBSET Undirected(given) : S # {} /\ IsTruss(S, max_K)
         /\ \A S \in SUBSET Undirected(given) : IsTruss(S, max_K + 1) => S = {}
    ELSE max_K >= 3 => /\ IsTruss(Undirected(Arcs), max_K)
                       /\ \A S \in SUBSET Undirected(given) :
                             IsTruss(S, max_K) => S \subseteq Undirected(Arcs)

\* When a call for a graph whose edges are in both lists returns, in lockstep and
\* without having merged unsorted lists, it has found it.
TrussExact == /\ phase = "ready" /\ max_K > 0
              /\ lockstep /\ Symmetric(given) /\ ~misread
              => MaximalTruss

\* What the test program prints: the maximal k-truss.
MaximalFound == phase = "ready" /\ max_K > 0 /\ lockstep => MaximalTruss

\* A call returns if the counter was right when it began.
CallsReturn == phase = "count" /\ num_edges_remaining = nE ~> phase = "ready"
=============================================================================
