-------------------------- MODULE TriangleCounting --------------------------
(***************************************************************************)
(* TriangleCounting2 on forAllAdjUnions, and the clustering coefficients   *)
(* computed from its counts.  The edges are sorted into bins by the        *)
(* lengths of the two adjacency lists that have to be intersected: a first *)
(* kernel counts the edges of each bin, the host sums the counts up, and a *)
(* second kernel places the edges, each thread with an atomic on the       *)
(* counter of its bin.  Then the host launches a kernel for one range of   *)
(* bins after the other; it decides by their lengths how many threads      *)
(* share an intersection (module AdjUnion).                                *)
(*                                                                         *)
(* The threads of a kernel add to the counts with atomics, and those of a  *)
(* block share only the points of their paths, with a barrier between the  *)
(* writes and the reads: a block is a step.                                *)
(***************************************************************************)
EXTENDS AdjUnion, Bags, Functions

CONSTANTS Graphs,                \* adjacency lists, sorted, without loops
          WorkFactors,           \* what callers pass to run()
          BLOCK_SIZE_OP2,        \* threads of a block, a power of two
          BINS_1D_DIM,           \* bins per method and length class
          LOG_OFFSET_BALANCED, LOG_OFFSET_IMBALANCED

\* 1 << n
PowerOfTwo[n \in Nat] == IF n = 0 THEN 1 ELSE 2 * PowerOfTwo[n - 1]

Increasing(l) == \A i \in 1 .. Len(l) - 1 : l[i] < l[i + 1]

ASSUME TriangleAssumption ==
    /\ {BLOCK_SIZE_OP2, BINS_1D_DIM} \subseteq Nat \ {0, 1}
    /\ {LOG_OFFSET_BALANCED, LOG_OFFSET_IMBALANCED} \subseteq Nat
    /\ \E k \in 1 .. BLOCK_SIZE_OP2 : BLOCK_SIZE_OP2 = PowerOfTwo[k]
    /\ WorkFactors \subseteq Nat
    /\ \A g \in Graphs :
          /\ IsFiniteSet(DOMAIN g) /\ \A v \in DOMAIN g : v \in Nat
          /\ \A v \in DOMAIN g : /\ g[v] \in Seq(DOMAIN g \ {v})
                                 /\ Increasing(g[v])

VARIABLES adj, stage,
          workFactor,    \* WORK_FACTOR
          sizes,         \* d_queue_sizes: edges per bin
          queuePos,      \* queue_pos: where each bin begins, on the host
          devicePos,     \* d_queue_pos: where the next edge of a bin goes
          placing,       \* threads of the placing kernel that have not run
          edgeQueue,     \* d_edge_queue
          phase,         \* the host loop: "balanced" or "imbalanced"
          threadsLog,    \* threads_log
          start,         \* start_index
          kernel,        \* the running kernel: its range and threads per union
          blocks,        \* its blocks that have not run
          triPerVertex,
          ccLocal,       \* d_ccLocal: numerator and denominator
          united         \* history: how often a kernel was given an edge

bins == <<sizes, queuePos, devicePos, placing, edgeQueue>>
loop == <<phase, threadsLog, start>>
run  == <<kernel, blocks>>
tcVars == <<adj, stage, workFactor, bins, loop, run, triPerVertex, ccLocal, united>>

Vertices == DOMAIN adj
Edges    == UNION {{<<s, adj[s][i]>> : i \in DOMAIN adj[s]} : s \in Vertices}
nE       == Cardinality(Edges)
MAX_ADJ_UNIONS_BINS == 2 * BINS_1D_DIM * BINS_1D_DIM
Bins     == 0 .. MAX_ADJ_UNIONS_BINS - 1

NoKernel == [from |-> 0, to |-> 0, threads |-> 1]
NoCounts == [v \in Vertices |-> 0]
NoRatio  == [v \in Vertices |-> <<>>]

NoSums   == [b \in 0 .. MAX_ADJ_UNIONS_BINS |-> 0]

\* init() allocates the counts and the coefficients and resets the counts.
TCInit == /\ adj \in Graphs
          /\ workFactor \in WorkFactors
          /\ stage = "ready"
          /\ sizes = [b \in Bins |-> 0] /\ queuePos = NoSums /\ devicePos = NoSums
          /\ placing = {} /\ edgeQueue = <<>>
          /\ phase = "finished" /\ threadsLog = 1 /\ start = 0
          /\ kernel = NoKernel /\ blocks = {}
          /\ triPerVertex = NoCounts
          /\ ccLocal = NoRatio
          /\ united = EmptyBag

----------------------------------------------------------------------------
(* The bins.                                                               *)

\* The number of bits of n, and its length class.
BitLength(n) == CHOOSE k \in 0 .. n : /\ PowerOfTwo[k] > n
                                      /\ k = 0 \/ PowerOfTwo[k - 1] <= n
Log(n)       == Lesser(BitLength(n), BINS_1D_DIM - 1)

ShorterLen(e) == Lesser(Len(adj[e[1]]), Len(adj[e[2]]))
LongerLen(e)  == Len(adj[e[1]]) + Len(adj[e[2]]) - ShorterLen(e)

\* METHOD: is merging the lists so much work that searching pays?
BySearch(e) ==
    LET u == ShorterLen(e)
        v == LongerLen(e)
    IN  workFactor * (u + v + Log(u)) >= u * Log(v)

BinIndex(e) ==
    LET u == Log(ShorterLen(e))
        v == Log(LongerLen(e))
    IN  IF BySearch(e) THEN MAX_ADJ_UNIONS_BINS \div 2 + u * BINS_1D_DIM + v
        ELSE IF ShorterLen(e) <= 1 THEN 0
        ELSE v * BINS_1D_DIM + u

\* run() allocates new queues; the first kernel counts, its threads only add to
\* the counters.
CountBins ==
    /\ stage = "ready"
    /\ stage' = "scan"
    /\ sizes' = [b \in Bins |-> Cardinality({e \in Edges : BinIndex(e) = b})]
    /\ queuePos' = NoSums
    /\ devicePos' = NoSums
    /\ edgeQueue' = <<>>
    /\ phase' = "balanced"
    /\ threadsLog' = 1
    /\ start' = 0
    /\ UNCHANGED <<adj, workFactor, placing, run, triPerVertex, ccLocal, united>>

\* Fault for QueueSorted: the partial sums are not shifted by one bin.
Begin_Unshifted(b) == SumFunctionOnSet(sizes, Bins \cap 0 .. b)

\* Where bin b begins: the sizes of the bins before it.
Begin(b) == SumFunctionOnSet(sizes, 0 .. b - 1)

ScanBins ==
    /\ stage = "scan"
    /\ stage' = "place"
    /\ queuePos' = [b \in 0 .. MAX_ADJ_UNIONS_BINS |-> Begin(b)]
    /\ devicePos' = queuePos'
    /\ placing' = Edges
    /\ UNCHANGED <<adj, workFactor, sizes, edgeQueue, loop, run, triPerVertex,
                   ccLocal, united>>

\* The thread of edge e takes the next position of its bin and writes there.
PlaceEdge(e) ==
    /\ stage = "place"
    /\ e \in placing
    /\ placing' = placing \ {e}
    /\ devicePos' = [devicePos EXCEPT ![BinIndex(e)] = @ + 1]
    /\ edgeQueue' = [i \in DOMAIN edgeQueue \cup {devicePos[BinIndex(e)]} |->
                        IF i = devicePos[BinIndex(e)] THEN e ELSE edgeQueue[i]]
    /\ UNCHANGED <<adj, stage, workFactor, sizes, queuePos, loop, run, triPerVertex,
                   ccLocal, united>>

PlaceDone == /\ stage = "place"
             /\ placing = {}
             /\ stage' = "loop"
             /\ UNCHANGED <<adj, workFactor, bins, loop, run, triPerVertex, ccLocal,
                            united>>

----------------------------------------------------------------------------
(* The ranges.                                                             *)

\* The heads of the two loops; each is followed by a range for the tail.
InLoop == IF phase = "balanced"
          THEN /\ threadsLog < BitLength(BLOCK_SIZE_OP2)
               /\ threadsLog + LOG_OFFSET_BALANCED < BINS_1D_DIM
          ELSE /\ threadsLog < BINS_1D_DIM - 1
               /\ threadsLog + LOG_OFFSET_IMBALANCED < BINS_1D_DIM

\* bin_index: the bin the range ends before.
EndBin == CASE phase = "balanced" /\ InLoop ->
                   (threadsLog + LOG_OFFSET_BALANCED) * BINS_1D_DIM
            [] phase = "balanced" /\ ~InLoop -> MAX_ADJ_UNIONS_BINS \div 2
            [] phase = "imbalanced" /\ InLoop ->
                   MAX_ADJ_UNIONS_BINS \div 2
                   + (threadsLog + LOG_OFFSET_IMBALANCED) * BINS_1D_DIM
            [] phase = "imbalanced" /\ ~InLoop -> MAX_ADJ_UNIONS_BINS

\* Fault for EachEdgeUnited: start_index stays at the first range.
NextStart_Kept == start' = IF start = 0 THEN queuePos[EndBin] ELSE start

NextStart == start' = queuePos[EndBin]

\* Fault for RunReturns: only a range with edges raises threads_log.
NextThreads_Launched == IF InLoop /\ queuePos[EndBin] = start THEN threadsLog
                        ELSE IF InLoop THEN threadsLog + 1 ELSE 1

NextThreads == IF InLoop THEN threadsLog + 1 ELSE 1

UnitedIn(range) == [e \in {edgeQueue[i] : i \in range} |->
                       Cardinality({i \in range : edgeQueue[i] = e})]

CeilingDiv(a, b) == (a + b - 1) \div b

\* One range: a kernel with a group of threads for each edge, if it has any.
LaunchRange ==
    LET size    == queuePos[EndBin] - start
        threads == PowerOfTwo[threadsLog - 1]
    IN  /\ stage = "loop"
        /\ phase # "finished"
        /\ IF size > 0
           THEN /\ stage' = "kernel"
                /\ kernel' = [from |-> start, to |-> queuePos[EndBin], threads |-> threads,
                              balanced |-> phase = "balanced"]
                /\ blocks' = 0 .. CeilingDiv(size * threads, BLOCK_SIZE_OP2) - 1
                /\ united' = united (+) UnitedIn(start .. queuePos[EndBin] - 1)
           ELSE UNCHANGED <<stage, run, united>>
        /\ NextStart
        /\ threadsLog' = NextThreads
        /\ phase' = IF InLoop THEN phase
                    ELSE IF phase = "balanced" THEN "imbalanced" ELSE "finished"
        /\ UNCHANGED <<adj, workFactor, bins, triPerVertex, ccLocal>>

----------------------------------------------------------------------------
(* The kernels.                                                            *)

\* Fault for CountsExact: short lists are not intersected.
Avoided_Short(e) == Len(adj[e[1]]) < 3

\* avoidCalc: with one neighbour the source is in no triangle with this edge.
Avoided(e) == e[1] = e[2] \/ Len(adj[e[1]]) < 2

\* u is the vertex with the shorter list, the target if they are as long.
U(e) == IF Len(adj[e[1]]) < Len(adj[e[2]]) THEN e[1] ELSE e[2]
V(e) == IF Len(adj[e[1]]) < Len(adj[e[2]]) THEN e[2] ELSE e[1]

EdgeOf(id) == edgeQueue[kernel.from + id \div kernel.threads]

\* thread_union_id; a union may have more threads than a block.
UnionThread(id) ==
    LET offset == (id \div BLOCK_SIZE_OP2) % CeilingDiv(kernel.threads, BLOCK_SIZE_OP2)
        local  == id % BLOCK_SIZE_OP2
    IN  IF kernel.balanced THEN local % kernel.threads
        ELSE (offset * BLOCK_SIZE_OP2 + local) % kernel.threads

\* The threads of block b that have an edge and do not avoid it.
Counting(b) ==
    {id \in b * BLOCK_SIZE_OP2 .. (b + 1) * BLOCK_SIZE_OP2 - 1 :
        /\ kernel.from + id \div kernel.threads < kernel.to
        /\ ~Avoided(EdgeOf(id))}

Count(id) ==
    LET u == adj[U(EdgeOf(id))]
        v == adj[V(EdgeOf(id))]
    IN  IF kernel.balanced THEN BalancedCount(u, v, kernel.threads, UnionThread(id))
                           ELSE ImbalancedCount(u, v, kernel.threads, UnionThread(id))

\* The operator adds what a thread has counted to the vertex u.  The blocks
\* only add, with atomics, so they may be taken in any order: the next first.
RunUnions(b) ==
    /\ stage = "kernel"
    /\ b \in blocks
    /\ \A c \in blocks : b <= c
    /\ blocks' = blocks \ {b}
    /\ LET counts == [id \in Counting(b) |-> Count(id)]
       IN  triPerVertex' = [v \in Vertices |-> triPerVertex[v] +
               SumFunctionOnSet(counts, {id \in Counting(b) : U(EdgeOf(id)) = v})]
    /\ UNCHANGED <<adj, stage, workFactor, bins, loop, kernel, ccLocal, united>>

KernelDone == /\ stage = "kernel"
              /\ blocks = {}
              /\ stage' = "loop"
              /\ kernel' = NoKernel
              /\ UNCHANGED <<adj, workFactor, bins, loop, blocks, triPerVertex,
                             ccLocal, united>>

\* The queues are freed and run() returns.
RunDone == /\ stage = "loop"
           /\ phase = "finished"
           /\ stage' = "done"
           /\ UNCHANGED <<adj, workFactor, bins, loop, run, triPerVertex, ccLocal,
                          united>>

\* ClusteringCoefficient::run() goes on with the local coefficients.
Ratio(v) == LET deg == Len(adj[v])
            IN  IF deg > 1 THEN <<triPerVertex[v], deg * (deg - 1)>> ELSE <<0, 1>>

LocalClusteringCoefficients ==
    /\ stage = "done"
    /\ stage' = "measured"
    /\ ccLocal' = [v \in Vertices |-> Ratio(v)]
    /\ UNCHANGED <<adj, workFactor, bins, loop, run, triPerVertex, united>>

\* reset(), before the next run: it leaves the coefficients.
Reset == /\ stage \in {"done", "measured"}
         /\ stage' = "ready"
         /\ triPerVertex' = NoCounts
         /\ united' = EmptyBag
         /\ UNCHANGED <<adj, workFactor, bins, loop, run, ccLocal>>

----------------------------------------------------------------------------
TCRun == \/ ScanBins
         \/ \E e \in placing : PlaceEdge(e)
         \/ PlaceDone
         \/ LaunchRange
         \/ \E b \in blocks : RunUnions(b)
         \/ KernelDone
         \/ RunDone

TCNext == CountBins \/ TCRun \/ LocalClusteringCoefficients \/ Reset

\* A kernel that has been launched runs to its end, and the host goes on.
TCSpec == TCInit /\ [][TCNext]_tcVars /\ WF_tcVars(TCRun)

----------------------------------------------------------------------------
(* Properties.                                                             *)

\* Once the edges are placed, the queue has every edge once, and the edges of
\* a bin lie where the host's sums say, whatever order the atomics took.
QueueSorted ==
    stage \in {"loop", "kernel"} =>
        /\ DOMAIN edgeQueue = 0 .. nE - 1
        /\ {edgeQueue[i] : i \in DOMAIN edgeQueue} = Edges
        /\ \A e \in Edges : \E i \in queuePos[BinIndex(e)] .. queuePos[BinIndex(e) + 1] - 1 :
               edgeQueue[i] = e

\* The host's ranges give every edge to one kernel: none is counted in two
\* ranges and none is left between them.
EachEdgeUnited == /\ \A e \in BagToSet(united) : united[e] = 1
                  /\ stage = "done" => BagToSet(united) = Edges

Neighbours(v) == {adj[v][i] : i \in DOMAIN adj[v]}
Common(e)     == Cardinality(Neighbours(e[1]) \cap Neighbours(e[2]))

\* However many threads share an intersection, and wherever their shares
\* begin and end, they count each common neighbour once.
SharesAreExact ==
    stage = "ready" =>
        \A e \in Edges : \A T \in {1, 2, 4, 8} :
            LET u == adj[U(e)]
                v == adj[V(e)]
            IN  /\ ~Avoided(e) /\ u # <<>> =>
                       SumFunction([t \in 0 .. T - 1 |-> BalancedCount(u, v, T, t)]) = Common(e)
                /\ SumFunction([t \in 0 .. T - 1 |-> ImbalancedCount(u, v, T, t)]) = Common(e)

\* A run adds the common neighbours of every edge to its vertex u, so the sum
\* of all counts, which countTriangles() returns, is that of the edges.
CountsExact ==
    stage = "done" =>
        \A v \in Vertices :
            triPerVertex[v] = SumFunction([e \in {d \in Edges : U(d) = v} |-> Common(e)])

\* Every run returns: the loops over the ranges and the kernels end.
RunReturns == stage = "scan" ~> stage = "done"
=============================================================================
