--------------------------- MODULE LoadBalancing ---------------------------
(***************************************************************************)
(* forAllEdges: every edge of every vertex of an array is given to one     *)
(* thread.  Two strategies (primitives/LoadBalancing, xlib BinarySearchLB):*)
(*                                                                         *)
(* - VertexBased: a group of VW_SIZE threads per vertex, each takes every  *)
(*   VW_SIZE-th edge;                                                      *)
(* - BinarySearch: the edges of all vertices are numbered by a prefix sum  *)
(*   of the degrees; a thread block takes ITEMS_PER_BLOCK consecutive      *)
(*   numbers, a thread ITEMS_PER_THREAD of them, and looks up the vertex   *)
(*   and the offset of each.  The part of the prefix sum a block needs is  *)
(*   read in chunks through its shared memory.                             *)
(*                                                                         *)
(* Between two barriers of a block its threads write cells of their own    *)
(* and read none that others write, so each such stretch is a step of the  *)
(* block.  Which thread of a warp makes a call is left out (the items of a *)
(* warp are exchanged before the calls).                                   *)
(***************************************************************************)
EXTENDS Integers, Sequences, FiniteSets, Bags

CONSTANTS BLOCK_SIZE, ITEMS_PER_THREAD, VW_SIZE,
          Inputs       \* the degrees of the vertices of an array

ITEMS_PER_BLOCK == BLOCK_SIZE * ITEMS_PER_THREAD

ASSUME LoadAssumption ==
    /\ {BLOCK_SIZE, ITEMS_PER_THREAD, VW_SIZE} \subseteq Nat \ {0}
    /\ ITEMS_PER_BLOCK >= 2
    /\ BLOCK_SIZE % VW_SIZE = 0
    /\ Inputs \subseteq Seq(Nat) \ {<<>>}

VARIABLES degrees,     \* of the array's vertices, from position 0
          pc,          \* "call", "sum", "blocks", "groups" or "done"
          work,        \* d_work
          block,       \* the thread blocks of the kernel
          groups,      \* the threads of the vertex kernel that have not run
          calls        \* the bag of edges <<position, offset>> handed to op

vars == <<degrees, pc, work, block, groups, calls>>

Positions == 0 .. Len(degrees) - 1
Degree(i) == degrees[i + 1]

AllEdges == UNION {{i} \X (0 .. Degree(i) - 1) : i \in Positions}

CeilDiv(a, b) == (a + b - 1) \div b
Least(a, b)   == IF a < b THEN a ELSE b
Largest(a, b) == IF a > b THEN a ELSE b

\* xlib::upper_bound_left on the first n cells of f: a binary search for the
\* last cell that is not larger than x.
UpperBoundLeft(f, n, x) ==
    LET search[range \in (0 .. n) \X (0 .. n)] ==
            LET start == range[1]
                end   == range[2]
                mid   == (start + end) \div 2
            IN  IF start >= end THEN start
                ELSE IF x >= f[mid] THEN search[<<mid + 1, end>>]
                ELSE search[<<start, mid>>]
    IN  search[<<0, n>>] - 1

Unset == -2                  \* a register or a cell nothing was written to
Threads == 0 .. BLOCK_SIZE - 1
Items   == 0 .. ITEMS_PER_THREAD - 1

\* A block before its first instruction.  Only the last block fills its
\* registers with -1 (reg_fill), which stands for no edge.
NewBlock(lastBlock) ==
    [at     |-> "bounds",
     smem   |-> [c \in 0 .. ITEMS_PER_BLOCK - 1 |-> Unset],
     start  |-> 0,           \* block_start_pos
     chunk  |-> 0,           \* chunk_size
     low    |-> 0,           \* low_limit
     reg    |-> [t \in Threads |->
                   [i \in Items |-> <<IF lastBlock THEN -1 ELSE Unset, Unset>>]]]

Init == /\ degrees \in Inputs
        /\ pc = "call"
        /\ work = [i \in 0 .. Len(degrees) |-> Unset]
        /\ block = <<>>
        /\ groups = {}
        /\ calls = EmptyBag

----------------------------------------------------------------------------
(* VertexBased::apply                                                      *)

GroupThreads == CeilDiv(Len(degrees), BLOCK_SIZE) * VW_SIZE * BLOCK_SIZE

LaunchGroups == /\ pc = "call"
                /\ pc' = "groups"
                /\ groups' = 0 .. GroupThreads - 1
                /\ UNCHANGED <<degrees, work, block, calls>>

\* The edges that thread id walks over.
Strided(id) ==
    LET group == id \div VW_SIZE
        lane  == (id % BLOCK_SIZE) % VW_SIZE
    IN  {e \in AllEdges : /\ e[1] % (GroupThreads \div VW_SIZE) = group
                          /\ e[2] % VW_SIZE = lane}

RunThread(id) == /\ pc = "groups"
                 /\ id \in groups
                 /\ groups' = groups \ {id}
                 /\ calls' = calls (+) SetToBag(Strided(id))
                 /\ UNCHANGED <<degrees, pc, work, block>>

GroupsDone == /\ pc = "groups"
              /\ groups = {}
              /\ pc' = "done"
              /\ UNCHANGED <<degrees, work, block, groups, calls>>

----------------------------------------------------------------------------
(* BinarySearch::apply                                                     *)

\* computeWorkKernel; the last cell stays as it was.
ComputeWork == /\ pc = "call"
               /\ pc' = "sum"
               /\ work' = [i \in DOMAIN work |->
                             IF i \in Positions THEN Degree(i) ELSE work[i]]
               /\ UNCHANGED <<degrees, block, groups, calls>>

\* The exclusive prefix sum, in place, the number of edges in its last cell.
Summed == LET sum[i \in 0 .. Len(degrees)] ==
                  IF i = 0 THEN 0 ELSE sum[i - 1] + work[i - 1]
          IN  sum

\* No block is launched when there is no edge.
PrefixSum ==
    LET grid == CeilDiv(Summed[Len(degrees)], ITEMS_PER_BLOCK)
    IN  /\ pc = "sum"
        /\ work' = Summed
        /\ pc' = IF grid = 0 THEN "done" ELSE "blocks"
        /\ block' = [b \in 0 .. grid - 1 |-> NewBlock(b = grid - 1)]
        /\ UNCHANGED <<degrees, groups, calls>>

\* The first and the last position a block has edges of; the last block is
\* given all positions up to the last one.
Bound(b) == IF b = Cardinality(DOMAIN block) THEN Len(degrees) - 1
            ELSE UpperBoundLeft(work, Len(degrees) + 1, b * ITEMS_PER_BLOCK)

\* chunk_size: the cells of the prefix sum that the positions of a block span.
\* Fault for EachEdgeOnce: the cell behind the last position is left out.
Width_Short(b) == Bound(b + 1) - Bound(b) + 1

Width(b) == Bound(b + 1) - Bound(b) + 2

\* Two threads exchange the bounds through the first cells of shared memory.
FindBounds(b) ==
    /\ pc = "blocks"
    /\ block[b].at = "bounds"
    /\ block' = [block EXCEPT ![b].at    = "load",
                              ![b].start = Bound(b),
                              ![b].chunk = Width(b),
                              ![b].smem[0] = Bound(b),
                              ![b].smem[1] = Bound(b + 1)]
    /\ UNCHANGED <<degrees, pc, work, groups, calls>>

SmemSize(b) == Least(block[b].chunk, ITEMS_PER_BLOCK)

\* The head of the chunk loop and the copy to shared memory; the cells behind
\* the chunk keep what the last chunk left there.
LoadChunk(b) ==
    /\ pc = "blocks"
    /\ block[b].at = "load"
    /\ block[b].chunk > 0
    /\ block' = [block EXCEPT ![b].at = "search",
                   ![b].smem = [c \in DOMAIN @ |->
                       IF c < SmemSize(b) THEN work[block[b].start + c] ELSE @[c]]]
    /\ UNCHANGED <<degrees, pc, work, groups, calls>>

\* A thread of block b looks at chunk positions from the one of its first item
\* on: where it starts ...
Searched(b, t) == b * ITEMS_PER_BLOCK + t * ITEMS_PER_THREAD

Entry(b, t) ==
    LET ubound == UpperBoundLeft(block[b].smem, SmemSize(b), Searched(b, t))
        pos    == Least(Largest(0, ubound), ITEMS_PER_BLOCK - 2)
    IN  <<pos, Largest(Searched(b, t) - block[b].smem[pos], 0)>>

HighLimit(b) == block[b].smem[SmemSize(b) - 1]

InChunk(b, x) == block[b].low <= x /\ x < HighLimit(b)

\* ... and where it goes for item x: positions without edges are passed over.
CanMove(b, pos, q, x) == /\ block[b].smem[q + 1] # x
                         /\ \A p \in pos .. q - 1 : block[b].smem[p + 1] = x

Move(b, place, x) ==
    LET q == CHOOSE p \in place[1] .. ITEMS_PER_BLOCK - 2 : CanMove(b, place[1], p, x)
    IN  IF q = place[1] THEN place ELSE <<q, 0>>

\* The place <<pos, offset>> that thread t has reached before its item i.
Before(b, t, i) ==
    LET walk[k \in 0 .. i] ==
            IF k = 0 THEN Entry(b, t)
            ELSE IF InChunk(b, Searched(b, t) + k - 1)
                 THEN LET place == Move(b, walk[k - 1], Searched(b, t) + k - 1)
                      IN  <<place[1], place[2] + 1>>
                 ELSE walk[k - 1]
    IN  walk[i]

\* The next chunk begins with the last cell of this one.
\* Faults for SearchStaysInChunk, the chunks do not overlap, and for KernelEnds.
Stride_Whole == ITEMS_PER_BLOCK
Stride_None  == 0

Stride == ITEMS_PER_BLOCK - 1

\* The registers of the items in this chunk.
SearchChunk(b) ==
    /\ pc = "blocks"
    /\ block[b].at = "search"
    /\ block' = [block EXCEPT
          ![b].at    = "load",
          ![b].start = @ + Stride,
          ![b].chunk = @ - Stride,
          ![b].low   = HighLimit(b),
          ![b].reg   = [t \in Threads |-> [i \in Items |->
               LET x     == Searched(b, t) + i
                   place == Move(b, Before(b, t, i), x)
               IN  IF InChunk(b, x) THEN <<block[b].start + place[1], place[2]>>
                                    ELSE block[b].reg[t][i]]]]
    /\ UNCHANGED <<degrees, pc, work, groups, calls>>

\* The calls of op for all items but those of no edge.
CallsOf(b) ==
    LET reg    == block[b].reg
        called == {x \in Threads \X Items : reg[x[1]][x[2]][1] # -1}
    IN  [e \in {reg[x[1]][x[2]] : x \in called} |->
            Cardinality({x \in called : reg[x[1]][x[2]] = e})]

CallItems(b) ==
    /\ pc = "blocks"
    /\ block[b].at = "load"
    /\ block[b].chunk <= 0
    /\ block' = [block EXCEPT ![b].at = "done"]
    /\ calls' = calls (+) CallsOf(b)
    /\ UNCHANGED <<degrees, pc, work, groups>>

BlocksDone == /\ pc = "blocks"
              /\ \A b \in DOMAIN block : block[b].at = "done"
              /\ pc' = "done"
              /\ UNCHANGED <<degrees, work, block, groups, calls>>

----------------------------------------------------------------------------
RunBlock(b) == FindBounds(b) \/ LoadChunk(b) \/ SearchChunk(b) \/ CallItems(b)

Run == \/ ComputeWork
       \/ PrefixSum
       \/ \E b \in DOMAIN block : RunBlock(b)
       \/ BlocksDone
       \/ \E id \in groups : RunThread(id)
       \/ GroupsDone

Next == LaunchGroups \/ Run

\* A kernel that has been launched runs to its end.
Spec == Init /\ [][Next]_vars /\ WF_vars(Run)

----------------------------------------------------------------------------
(* Properties.                                                             *)

\* op is called for no edge twice and for nothing that is not an edge, and
\* when the kernel has ended it has been called for every edge: in particular
\* vertices without edges are passed over wherever a chunk or a block ends,
\* and no thread calls op for a register it has not set.
EachEdgeOnce == /\ BagToSet(calls) \subseteq AllEdges
                /\ \A e \in BagToSet(calls) : calls[e] = 1
                /\ pc = "done" => BagToSet(calls) = AllEdges

\* The asserts of threadPartitionAuxLoop: a thread that passes over positions
\* stays within the chunk, whose cells behind the end are stale.
SearchStaysInChunk ==
    \A b \in DOMAIN block : block[b].at = "search" =>
        \A t \in Threads, i \in Items :
            LET x   == Searched(b, t) + i
                pos == Before(b, t, i)[1]
            IN  InChunk(b, x) => \E q \in pos .. SmemSize(b) - 2 : CanMove(b, pos, q, x)

\* Every call of forAllEdges returns: the chunk loops end.
KernelEnds == <>(pc = "done")
============================================================================
