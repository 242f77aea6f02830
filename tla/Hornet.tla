------------------------------- MODULE Hornet -------------------------------
(***************************************************************************)
(* The Hornet data structure (Core/Hornet.cuh, HornetOperations,           *)
(* BatchUpdate): for every vertex a degree and the place of its adjacency  *)
(* list, a block of edges in the device memory that the block array        *)
(* manager hands out.  insert and erase apply a batch of edges to all      *)
(* adjacency lists at once; a vertex whose degree leaves the range of its  *)
(* block size gets another block and its list is moved there.              *)
(*                                                                         *)
(* A call is a sequence of kernel launches and host loops; each kernel and *)
(* each loop iteration is a step.  Where the order of the threads of a     *)
(* kernel shows (the atomics of the reallocation queue and of the erase    *)
(* slots), it is a choice.  Edges carry no weights.  The content of a      *)
(* block that is not in use is forgotten: a cell read before it is written *)
(* gives NoId.                                                             *)
(***************************************************************************)
EXTENDS BlockArrayManager, Sequences

CONSTANTS nV,              \* _nV: the vertices are 0 .. nV - 1
          NoId,            \* a cell value that is not a vertex id
          MaxDegree,       \* bound: no call makes a larger degree
          Graphs,          \* the graphs a Hornet is constructed from
          Batches,         \* the batches callers pass
          InsertOptions,   \* the flag pairs callers of insert pass, never both
          EraseIsolated    \* may a batch erase from isolated vertices only

Vertices == 0 .. nV - 1
Edges    == Vertices \X Vertices

ASSUME HornetAssumption ==
    /\ nV \in Nat \ {0}
    /\ NoId \notin Vertices
    /\ MaxDegree \in Sizes
    /\ Graphs \subseteq [Vertices -> Seq(Vertices)]
    /\ \A g \in Graphs, v \in Vertices : Len(g[v]) <= MaxDegree
    /\ Batches \subseteq Seq(Edges) \ {<<>>}
    /\ InsertOptions \subseteq (BOOLEAN \X BOOLEAN) \ {<<TRUE, TRUE>>}
    /\ EraseIsolated \in BOOLEAN

VARIABLES nE,              \* _nE
          vertex,          \* _vertex_data: degree, block array, offset
          mem,             \* the cells of the block arrays
          pc,              \* the phase of the call in progress
          call,            \* the call in progress and its arguments
          batch,           \* the edges of in_edge(), after preprocessing
          locs,            \* range[1]: where the edges to erase were found
          todo,            \* batch sources the queue kernel has not done
          oldDegree,       \* graph_offsets: the degrees before an insert
          queue,           \* realloc_sources, the old and new vertex data
          next,            \* the loop index of the running host loop
          stable           \* history: the adjacency lists at the last return

vars == <<nE, vertex, mem, arrays, pc, call, batch, locs, todo, oldDegree,
          queue, next, stable>>

----------------------------------------------------------------------------
(* Adjacency lists.                                                        *)

\* The adjacency list that vertex data x and memory m give.
List(x, m) == [i \in 1 .. x.degree |-> m[x.ptr][x.offset + i - 1]]

Adjacency == [v \in Vertices |-> List(vertex[v], mem)]

\* Vertex::limit(): the degree the block of a vertex has room for.
Limit(v) == RoundupPow2(vertex[v].degree)

\* The number of edges of adjacency lists l.
EdgeCount(l) == Cardinality({x \in Vertices \X (1 .. MaxDegree) : x[2] <= Len(l[x[1]])})

NoBlock == [degree |-> 0, ptr |-> NullPtr, offset |-> 0]

Cells == 0 .. Capacity(MaxDegree) - 1

\* Memory m after the cells from o on of the array at p get the values s.
Write(m, p, o, s) ==
    [q \in Ptr |-> [c \in Cells |->
        IF q = p /\ c \in o .. o + Len(s) - 1 THEN s[c - o + 1] ELSE m[q][c]]]

\* Memory m when nothing is known of the block of size s at offset o of p.
Forget(m, p, o, s) == Write(m, p, o, [i \in 1 .. s |-> NoId])

----------------------------------------------------------------------------
(* Batches.                                                                *)

EdgeLeq(e, f) == e[1] < f[1] \/ (e[1] = f[1] /\ e[2] <= f[2])

\* The elements of sequence b at the positions J, in their order.
Nth(J, n)  == CHOOSE j \in J : Cardinality({i \in J : i <= j}) = n
Pick(b, J) == [n \in 1 .. Cardinality(J) |-> b[Nth(J, n)]]

\* sort_edges: by source, then by destination.
Before(b, j, i) == \/ b[j] # b[i] /\ EdgeLeq(b[j], b[i])
                   \/ b[j] = b[i] /\ j <= i
Rank(b, i) == Cardinality({j \in DOMAIN b : Before(b, j, i)})
Sorted(b)  == [n \in DOMAIN b |-> b[CHOOSE i \in DOMAIN b : Rank(b, i) = n]]

\* remove_batch_duplicates: unique_copy of the sorted batch.
Unique(b) == Pick(b, {i \in DOMAIN b : i = 1 \/ b[i - 1] # b[i]})

Sources(b)      == {b[i][1] : i \in DOMAIN b}
At(b, v)        == {i \in DOMAIN b : b[i][1] = v}
Requested(b, v) == Cardinality(At(b, v))
First(b, v)     == CHOOSE i \in At(b, v) : \A j \in At(b, v) : i <= j

\* Where edge e is in the adjacency list of its source (offsets from 0).
Matches(e) == {o \in 0 .. vertex[e[1]].degree - 1 : Adjacency[e[1]][o + 1] = e[2]}

\* remove_graph_duplicates, of a buffer that has as many items as the batch
\* (it starts from the item count of the buffer): a thread per edge of the sources' lists marks the
\* first batch edge equal to it, and the unmarked edges are copied to the
\* offsets a prefix sum of the flags gives.  The sum runs over the flags of
\* the edges but not over the last entry, which the new size is read from.
DuplicateFlag(b, i) ==
    IF (i = 1 \/ b[i - 1] # b[i]) /\ Matches(b[i]) # {} THEN 0 ELSE 1

RemoveGraphDuplicates(b) ==
    LET n       == Len(b)
        offset  == [i \in 1 .. n + 1 |->
                       IF i = n + 1 THEN 1
                       ELSE Cardinality({j \in 1 .. i - 1 : DuplicateFlag(b, j) = 1})]
        size    == offset[n + 1]
        copied(k) == CHOOSE i \in 1 .. n : offset[i] = k /\ offset[i] # offset[i + 1]
    IN  IF \A s \in Sources(b) : vertex[s].degree = 0 THEN b
        ELSE [k \in 1 .. size |-> b[copied(k - 1)]]

\* preprocess sorts and removes the duplicates that the caller asks for.  Both
\* removals together are not modelled, and HornetAssumption leaves that pair of
\* flags out: remove_batch_duplicates lowers _nE only, remove_graph_duplicates
\* sets it back to the item count, and what then lies behind the unique edges
\* is memory that this call has not written.
Preprocess(b, batchDuplicates, graphDuplicates) ==
    LET s == Sorted(b)
    IN  CASE ~batchDuplicates /\ ~graphDuplicates -> s
          [] batchDuplicates /\ ~graphDuplicates  -> Unique(s)
          [] ~batchDuplicates /\ graphDuplicates  -> RemoveGraphDuplicates(s)

----------------------------------------------------------------------------
Idle == [op |-> "none", edges |-> <<>>]

\* The constructor takes a graph in CSR form ...
Init == \E g \in Graphs :
            /\ call = [op |-> "load", graph |-> g]
            /\ nE = EdgeCount(g)
            /\ stable = g
            /\ vertex = [v \in Vertices |-> NoBlock]
            /\ mem = [p \in Ptr |-> [c \in Cells |-> NoId]]
            /\ arrays = [p \in {} |-> 0]
            /\ pc = "load"
            /\ batch = <<>>
            /\ locs = <<>>
            /\ todo = {}
            /\ oldDegree = [v \in Vertices |-> 0]
            /\ queue = <<>>
            /\ next = 0

\* ... and initialize() gives each vertex a block with its list.
LoadVertex ==
    /\ pc = "load"
    /\ next \in Vertices
    /\ \E p \in Ptr \cup {NullPtr}, o \in Cells :
          /\ BlockInsert(Len(call.graph[next]), p, o)
          /\ vertex' = [vertex EXCEPT ![next] =
                           [degree |-> Len(call.graph[next]), ptr |-> p, offset |-> o]]
          /\ mem' = Write(mem, p, o, call.graph[next])
    /\ next' = next + 1
    /\ UNCHANGED <<nE, pc, call, batch, locs, todo, oldDegree, queue, stable>>

LoadDone == /\ pc = "load"
            /\ next = nV
            /\ pc' = "idle"
            /\ call' = Idle
            /\ next' = 0
            /\ UNCHANGED <<nE, vertex, mem, arrays, batch, locs, todo, oldDegree,
                           queue, stable>>

\* The call returns: its buffers go with the batch object.
Return == /\ pc' = "idle"
          /\ call' = Idle
          /\ batch' = <<>>
          /\ locs' = <<>>
          /\ oldDegree' = [v \in Vertices |-> 0]
          /\ queue' = <<>>
          /\ next' = 0
          /\ stable' = Adjacency'

----------------------------------------------------------------------------
(* insert                                                                  *)

\* Bound: the degrees stay within MaxDegree when batch b goes in.
Fits(b) == \A v \in Sources(b) : vertex[v].degree + Requested(b, v) <= MaxDegree

Insert(b, batchDuplicates, graphDuplicates) ==
    /\ pc = "idle"
    /\ call' = [op |-> "insert", edges |-> b,
                options |-> [batchDuplicates |-> batchDuplicates,
                             graphDuplicates |-> graphDuplicates]]
    /\ batch' = Preprocess(b, batchDuplicates, graphDuplicates)
    /\ Fits(batch')
    /\ nE' = nE + Len(batch')
    /\ todo' = Sources(batch')
    /\ pc' = "queue"
    /\ UNCHANGED <<vertex, mem, arrays, locs, oldDegree, queue, next, stable>>

\* Fault for TypeOK: the two cases of the degree are swapped.
NewDegree_Swapped(s) == IF call.op = "insert" THEN vertex[s].degree - Requested(batch, s)
                                              ELSE vertex[s].degree + Requested(batch, s)

\* buildReallocateVerticesQueue: the thread of source s.
NewDegree(s) == IF call.op = "insert" THEN vertex[s].degree + Requested(batch, s)
                                      ELSE vertex[s].degree - Requested(batch, s)

\* Fault for BlockOwnership: a list that fits the next smaller block exactly
\* stays where it is.
MustMove_Strict(s) == IF call.op = "insert" THEN NewDegree(s) > Limit(s)
                                            ELSE NewDegree(s) < Limit(s) \div 2

MustMove(s) == IF call.op = "insert" THEN NewDegree(s) > Limit(s)
                                     ELSE NewDegree(s) <= Limit(s) \div 2

\* Fault for CallsKeepLists: the degree is recorded only for vertices that move.
RecordDegree_Moved(s) == oldDegree' = IF call.op = "insert" /\ MustMove(s)
                                      THEN [oldDegree EXCEPT ![s] = vertex[s].degree]
                                      ELSE oldDegree

RecordDegree(s) == oldDegree' = IF call.op = "insert"
                                THEN [oldDegree EXCEPT ![s] = vertex[s].degree]
                                ELSE oldDegree

\* Fault for QueueConsistent: a vertex that is queued gets its degree, too.
SetDegree_Always(s) == vertex' = [vertex EXCEPT ![s].degree = NewDegree(s)]

SetDegree(s) == vertex' = IF MustMove(s) THEN vertex
                          ELSE [vertex EXCEPT ![s].degree = NewDegree(s)]

QueueSource(s) ==
    /\ pc = "queue"
    /\ s \in todo
    /\ queue' = IF MustMove(s)
                THEN Append(queue, [src |-> s, old |-> vertex[s],
                                    new |-> [NoBlock EXCEPT !.degree = NewDegree(s)]])
                ELSE queue
    /\ SetDegree(s)
    /\ RecordDegree(s)
    /\ todo' = todo \ {s}
    /\ UNCHANGED <<nE, mem, arrays, pc, call, batch, locs, next, stable>>

QueueDone == /\ pc = "queue"
             /\ todo = {}
             /\ pc' = "alloc"
             /\ next' = 1
             /\ UNCHANGED <<nE, vertex, mem, arrays, call, batch, locs, todo,
                            oldDegree, queue, stable>>

\* reallocate_vertices, first loop: a new block for each queued vertex.
AllocBlock ==
    /\ pc = "alloc"
    /\ next <= Len(queue)
    /\ \E p \in Ptr \cup {NullPtr}, o \in Cells :
          /\ BlockInsert(queue[next].new.degree, p, o)
          /\ queue' = [queue EXCEPT ![next].new.ptr = p, ![next].new.offset = o]
    /\ next' = next + 1
    /\ UNCHANGED <<nE, vertex, mem, pc, call, batch, locs, todo, oldDegree, stable>>

\* move_adjacency_lists: a thread per edge copies it to the new block, then
\* the queued vertices get their new vertex data.
Moved(k) == IF call.op = "insert" THEN queue[k].old.degree ELSE queue[k].new.degree

MovedTo(k, p, c) == /\ p = queue[k].new.ptr
                    /\ c \in queue[k].new.offset .. queue[k].new.offset + Moved(k) - 1

MoveAdjacencyLists ==
    /\ pc = "alloc"
    /\ next = Len(queue) + 1
    /\ mem' = [p \in Ptr |-> [c \in Cells |->
                  IF \E k \in DOMAIN queue : MovedTo(k, p, c)
                  THEN LET k == CHOOSE k \in DOMAIN queue : MovedTo(k, p, c)
                       IN  mem[queue[k].old.ptr]
                              [queue[k].old.offset + c - queue[k].new.offset]
                  ELSE mem[p][c]]]
    /\ vertex' = [v \in Vertices |->
                     IF \E k \in DOMAIN queue : queue[k].src = v
                     THEN queue[CHOOSE k \in DOMAIN queue : queue[k].src = v].new
                     ELSE vertex[v]]
    /\ pc' = "free"
    /\ next' = 1
    /\ UNCHANGED <<nE, arrays, call, batch, locs, todo, oldDegree, queue, stable>>

\* reallocate_vertices, second loop: the old blocks are given back.
FreeBlock ==
    /\ pc = "free"
    /\ next <= Len(queue)
    /\ LET old == queue[next].old
       IN  IF old.degree # 0
           THEN /\ BlockRemove(old.degree, old.ptr, old.offset)
                /\ mem' = Forget(mem, old.ptr, old.offset, RoundupPow2(old.degree))
           ELSE UNCHANGED <<arrays, mem>>
    /\ next' = next + 1
    /\ UNCHANGED <<nE, vertex, pc, call, batch, locs, todo, oldDegree, queue, stable>>

\* appendBatchEdges: a thread per batch edge writes it behind the old list.
AppendedAt(i, p, c) ==
    LET s == batch[i][1]
    IN  /\ p = vertex[s].ptr
        /\ c = vertex[s].offset + oldDegree[s] + i - First(batch, s)

AppendBatchEdges ==
    /\ pc = "free"
    /\ next = Len(queue) + 1
    /\ call.op = "insert"
    /\ mem' = [p \in Ptr |-> [c \in Cells |->
                  IF \E i \in DOMAIN batch : AppendedAt(i, p, c)
                  THEN batch[CHOOSE i \in DOMAIN batch : AppendedAt(i, p, c)][2]
                  ELSE mem[p][c]]]
    /\ UNCHANGED <<nE, vertex, arrays, todo>>
    /\ Return

----------------------------------------------------------------------------
(* erase                                                                   *)

Erase(b) ==
    /\ pc = "idle"
    /\ EraseIsolated \/ \E s \in Sources(b) : vertex[s].degree # 0
    /\ call' = [op |-> "erase", edges |-> b]
    /\ batch' = Sorted(b)
    /\ pc' = "locate"
    /\ UNCHANGED <<nE, vertex, mem, arrays, locs, todo, oldDegree, queue, next, stable>>

\* locateEdgesToBeErased: a thread per edge of the sources' lists looks for
\* it in the batch; the copies of a batch edge are slots that the atomicSub
\* hands out from the last one down, each to one thread that found a match.
\* The copy_if that follows takes the sources and locations along and not the
\* destinations; the model keeps these, which only LocatedEdgesPresent reads.
Slots == {j \in DOMAIN batch :
             Cardinality({i \in DOMAIN batch : i >= j /\ batch[i] = batch[j]})
                 <= Cardinality(Matches(batch[j]))}

Locate ==
    /\ pc = "locate"
    /\ \E s \in Sources(batch) : vertex[s].degree # 0
    /\ \E f \in [Slots -> 0 .. MaxDegree - 1] :
          /\ \A j \in Slots : f[j] \in Matches(batch[j])
          /\ \A i, j \in Slots : i # j /\ batch[i] = batch[j] => f[i] # f[j]
          /\ locs' = Pick(f, Slots)
    /\ batch' = Pick(batch, Slots)
    /\ pc' = "overwrite"
    /\ UNCHANGED <<nE, vertex, mem, arrays, call, todo, oldDegree, queue, next, stable>>

\* The early return: no source has an edge, and the batch is left as it is.
LocateNothing ==
    /\ pc = "locate"
    /\ \A s \in Sources(batch) : vertex[s].degree = 0
    /\ pc' = "overwrite"
    /\ UNCHANGED <<nE, vertex, mem, arrays, call, batch, locs, todo, oldDegree,
                   queue, next, stable>>

\* markOverwriteSrcDst: with n edges to erase from a list, those in front of
\* the last n cells are overwritten by the survivors in the last n cells.
Cutoff(i) == LET s == batch[i][1] IN vertex[s].degree - Requested(batch, s)

SourceOffset(i) == Cutoff(i) + i - First(batch, batch[i][1])

\* Fault for OverwritePlanSound: the cell at the cutoff counts as a hole.
Holes_Closed == {i \in DOMAIN batch : locs[i] <= Cutoff(i)}

Holes == {i \in DOMAIN batch : locs[i] < Cutoff(i)}
Survivors == {i \in DOMAIN batch :
                 \A j \in DOMAIN batch \ Holes :
                     i # First(batch, batch[j][1]) + locs[j] - Cutoff(j)}

\* overwriteDeletedEdges: thread k moves the k-th survivor into the k-th hole;
\* both are offsets in the list of the source of the hole.
Overwrites(k, p, c) == LET i == Nth(Holes, k)
                           s == batch[i][1]
                       IN  p = vertex[s].ptr /\ c = vertex[s].offset + locs[i]

\* Fault for ImplementsGraph: the offsets are used before they are compacted.
SurvivorCell_Uncompacted(k) ==
    LET s == batch[Nth(Holes, k)][1]
    IN  mem[vertex[s].ptr][vertex[s].offset + SourceOffset(Nth(Holes, k))]

SurvivorCell(k) == LET s == batch[Nth(Holes, k)][1]
                   IN  mem[vertex[s].ptr]
                          [vertex[s].offset + SourceOffset(Nth(Survivors, k))]

OverwriteDeletedEdges ==
    /\ pc = "overwrite"
    /\ Len(locs) = Len(batch)
    /\ LET threads == 1 .. Cardinality(Holes)
       IN  mem' = [p \in Ptr |-> [c \in Cells |->
                      IF \E k \in threads : Overwrites(k, p, c)
                      THEN SurvivorCell(CHOOSE k \in threads : Overwrites(k, p, c))
                      ELSE mem[p][c]]]
    /\ nE' = nE - Len(batch)
    /\ IF batch = <<>> THEN UNCHANGED <<vertex, arrays, todo>> /\ Return
       ELSE /\ todo' = Sources(batch)
            /\ pc' = "queue"
            /\ UNCHANGED <<vertex, arrays, call, batch, locs, oldDegree, queue,
                           next, stable>>

\* After the early return the kernel reads erase locations from an empty
\* device vector: the launch fails and the process ends.
OverwriteFault ==
    /\ pc = "overwrite"
    /\ Len(locs) # Len(batch)
    /\ pc' = "fault"
    /\ UNCHANGED <<nE, vertex, mem, arrays, call, batch, locs, todo, oldDegree,
                   queue, next, stable>>

EraseDone == /\ pc = "free"
             /\ next = Len(queue) + 1
             /\ call.op = "erase"
             /\ UNCHANGED <<nE, vertex, mem, arrays, todo>>
             /\ Return

----------------------------------------------------------------------------
(* sort                                                                    *)

Padding(v) == Limit(v) - vertex[v].degree

\* A vertex's block after the padding got the largest id and the block was
\* sorted.
SortedList(s) == LET rank(i) == Cardinality({j \in DOMAIN s :
                                    s[j] < s[i] \/ (s[j] = s[i] /\ j <= i)})
                 IN  [n \in DOMAIN s |-> s[CHOOSE i \in DOMAIN s : rank(i) = n]]

InBlock(v, p, c) == /\ vertex[v].degree # 0
                    /\ p = vertex[v].ptr
                    /\ c \in vertex[v].offset .. vertex[v].offset + Limit(v) - 1

SortedCell(v, c) == LET i == c - vertex[v].offset + 1
                    IN  IF i <= vertex[v].degree THEN SortedList(Adjacency[v])[i]
                                                 ELSE NoId

\* Nothing is sorted when the graph is empty or no block has padding.
Sort ==
    /\ pc = "idle"
    /\ nE # 0
    /\ \E v \in Vertices : Padding(v) # 0
    /\ mem' = [p \in Ptr |-> [c \in Cells |->
                  IF \E v \in Vertices : InBlock(v, p, c)
                  THEN SortedCell(CHOOSE v \in Vertices : InBlock(v, p, c), c)
                  ELSE mem[p][c]]]
    /\ UNCHANGED <<nE, vertex, arrays, pc, call, batch, locs, todo, oldDegree,
                   queue, next>>
    /\ stable' = Adjacency'

----------------------------------------------------------------------------
InsertStep == \/ \E s \in todo : QueueSource(s)
              \/ QueueDone
              \/ AllocBlock
              \/ MoveAdjacencyLists
              \/ FreeBlock
              \/ AppendBatchEdges

EraseStep == \/ Locate
             \/ LocateNothing
             \/ OverwriteDeletedEdges
             \/ OverwriteFault
             \/ EraseDone

Next == \/ LoadVertex
        \/ LoadDone
        \/ \E b \in Batches, f \in InsertOptions : Insert(b, f[1], f[2])
        \/ \E b \in Batches : Erase(b)
        \/ InsertStep
        \/ EraseStep
        \/ Sort

Spec == Init /\ [][Next]_vars

----------------------------------------------------------------------------
(* Properties.                                                             *)

VertexData == [degree : 0 .. MaxDegree, ptr : Ptr \cup {NullPtr}, offset : Nat]

\* Every variable stays in its range; in particular no degree leaves the
\* range a block exists for, and no queued vertex or source is not a vertex.
\* What the cells hold is the business of ImplementsGraph.
TypeOK == /\ nE \in Int
          /\ vertex \in [Vertices -> VertexData]
          /\ pc \in {"load", "idle", "queue", "alloc", "free", "locate",
                     "overwrite", "fault"}
          /\ batch \in Seq(Edges)
          /\ locs \in Seq(Nat)
          /\ todo \subseteq Vertices
          /\ oldDegree \in [Vertices -> 0 .. MaxDegree]
          /\ queue \in Seq([src : Vertices, old : VertexData, new : VertexData])
          /\ next \in Nat
          /\ DOMAIN arrays \subseteq Ptr
          /\ arrays \in [DOMAIN arrays -> [size : Sizes, used : SUBSET Nat]]

\* Who has a right to a block: a vertex to the one its data names, during a
\* reallocation the queue entry k to the new block it has been given, and
\* to the old block it has not given back yet.
Claims == {<<"vertex", v>> : v \in {w \in Vertices : vertex[w].degree # 0}}
          \cup {<<"new", k>> : k \in {j \in DOMAIN queue :
                    pc = "alloc" /\ j < next /\ queue[j].new.degree # 0}}
          \cup {<<"old", k>> : k \in {j \in DOMAIN queue :
                    pc = "free" /\ j >= next /\ queue[j].old.degree # 0}}

Claimed(c) == CASE c[1] = "vertex" -> vertex[c[2]]
                [] c[1] = "new"    -> queue[c[2]].new
                [] c[1] = "old"    -> queue[c[2]].old

Block(c) == <<Claimed(c).ptr, Claimed(c).offset>>

\* No block ever has two claimants, so a kernel never writes a list into
\* another one; every claimed block is in use and of the size the degree
\* rounds up to, so the list fits and remove() finds the bin of the block;
\* and every block in use has a claimant: none is leaked.
BlockOwnership ==
    /\ \A c, d \in Claims : c # d => Block(c) # Block(d)
    /\ \A c \in Claims :
          /\ Claimed(c).ptr \in DOMAIN arrays
          /\ Claimed(c).offset \in arrays[Claimed(c).ptr].used
          /\ arrays[Claimed(c).ptr].size = RoundupPow2(Claimed(c).degree)
    /\ \A p \in DOMAIN arrays : \A o \in arrays[p].used :
          \E c \in Claims : Block(c) = <<p, o>>

\* The vertex data a queue entry copied is still the vertex's own when its
\* list is moved, each vertex is queued once, no source asks for fewer than
\* no edges, and no two slots of a batch name the same edge of a list.
QueueConsistent ==
    /\ pc \in {"load", "idle", "locate", "overwrite", "fault"} => queue = <<>>
    /\ pc \in {"load", "idle", "locate"} => locs = <<>>
    /\ pc \in {"locate", "overwrite"} => call.op = "erase"
    /\ pc = "load" => /\ call.graph \in Graphs
                      /\ next \in 0 .. nV
                      /\ \A v \in next .. nV - 1 : vertex[v] = NoBlock
    /\ pc = "overwrite" /\ Len(locs) = Len(batch) =>
           /\ \A i \in DOMAIN batch : locs[i] < vertex[batch[i][1]].degree
           /\ \A i, j \in DOMAIN batch :
                 i # j /\ batch[i][1] = batch[j][1] => locs[i] # locs[j]
    /\ pc = "queue" => /\ todo \subseteq Sources(batch)
                       /\ \A s \in todo : NewDegree(s) \in 0 .. MaxDegree
                       /\ \A k \in DOMAIN queue : queue[k].src \notin todo
    /\ pc \in {"queue", "alloc"} =>
           /\ \A k \in DOMAIN queue : queue[k].old = vertex[queue[k].src]
           /\ \A j, k \in DOMAIN queue : queue[j].src = queue[k].src => j = k
    /\ pc \in {"alloc", "free"} => next \in 1 .. Len(queue) + 1

\* The erase plan: as many survivors as holes, the k-th survivor lies in the
\* list of the k-th hole and is not itself to be erased, and no cell that a
\* thread of overwriteDeletedEdges writes is one that a thread reads.
OverwritePlanSound ==
    pc = "overwrite" /\ Len(locs) = Len(batch) =>
        /\ Cardinality(Holes) = Cardinality(Survivors)
        /\ \A k \in 1 .. Cardinality(Holes) :
              LET i == Nth(Holes, k)
                  j == Nth(Survivors, k)
              IN  /\ batch[i][1] = batch[j][1]
                  /\ SourceOffset(j) \notin {locs[m] : m \in At(batch, batch[i][1])}
                  /\ \A m \in Holes : batch[m][1] = batch[i][1] =>
                         locs[m] # SourceOffset(j)

\* No step of a call changes the list of a vertex that is not a source of the
\* batch, and an insert leaves each list a prefix of what it becomes.
CallsKeepLists ==
    [][pc \notin {"load", "idle"} =>
        /\ \A v \in Vertices \ Sources(call.edges) : Adjacency'[v] = Adjacency[v]
        /\ pc' = "idle" /\ call.op = "insert" =>
              \A v \in Vertices :
                  stable[v] = SubSeq(Adjacency'[v], 1, Len(stable[v]))]_vars

\* The calls are those of a dynamic graph: every insert and erase changes the
\* multigraph exactly as its batch says and leaves nE() the number of edges.
Request == CASE pc \in {"idle", "load"} -> <<>>
             [] pc \notin {"idle", "load"} /\ call.op = "insert" ->
                    <<"insert", call.edges, call.options>>
             [] pc \notin {"idle", "load"} /\ call.op = "erase" ->
                    <<"erase", call.edges>>

Copies == [e \in Edges |->
              Cardinality({i \in DOMAIN stable[e[1]] : stable[e[1]][i] = e[2]})]

Graph == INSTANCE DynamicGraph
            WITH request <- Request, copies <- Copies,
                 edges <- IF Request = <<>> THEN nE ELSE EdgeCount(stable)
ImplementsGraph == Graph!Spec

\* The comment that ends locateEdgesToBeErased: the batch it leaves has only
\* edges that are present in the graph.
LocatedEdgesPresent ==
    pc = "overwrite" => \A i \in DOMAIN batch : Matches(batch[i]) # {}

============================================================================
