# A verification of cuhornet in TLA+

cuhornet keeps a dynamic graph in GPU memory. Batches of edges are inserted into
it and erased from it, and graph algorithms run on it between batches. This
directory holds TLA+ models of the program, TLC configurations that check them
on small instances, and TLAPS proofs about them. `PROJECT.json` maps every
definition to the lines it models and lists runs, faults, hazards and theorems.

## The system

| part | state | operations | who calls it |
|---|---|---|---|
| `BitTree` | an array of words, a counter | `insert`, `remove`, `full`, `size` | `BlockArray` |
| `BlockArray`, `BlockArrayManager` | a bit tree and memory per array; a map of arrays per block size | `insert`, `remove`, `removeAll`, `sort` | `Hornet`, `BatchUpdate` |
| `Hornet` | number of vertices and edges; degree, array and offset of every vertex | constructor, `insert`, `erase`, `sort`, `reset`, queries | applications, `KTruss`, `KCore` |
| `BatchUpdate` | two edge buffers and a dozen work vectors | `preprocess`, `preprocess_erase`, `get_reallocate_vertices_meta_data`, `move_adjacency_lists`, `appendBatchEdges`, `locateEdgesToBeErased`, `overWriteEdges` | `Hornet` |
| `SoAData`, `SoAPtr` | typed columns | copy, sort, append, resize | everything |
| `HornetStatic`, `HornetInit`, readers | an immutable graph | construction | applications |
| `TwoLevelQueue` | two buffers, two counters on host and device | `insert`, `swap`, `clear`, `sync` | traversals |
| `HostDeviceVar` | a value on each side | assignment, conversion | algorithms that loop |
| `forAll*`, load balancing | none | kernel launches | algorithms |
| algorithms (BFS, SSSP, CC, K-truss, K-core, Katz, PageRank, BC, triangles, SpMV) | arrays per vertex or edge, queues | `reset`, `run` | applications |
| `xlib` | none of this system | searches, numeric helpers, wrappers | everything |

How the parts of an update interact. `Hornet::insert` and `Hornet::erase` are host
functions that launch one kernel after another on one stream, so kernels do not
overlap; inside a kernel the threads run in any order, and some of them meet in
atomics. `insert` preprocesses the batch (sort, optionally remove duplicates within
the batch and against the graph), runs a kernel over the batch sources that sets
the degree of vertices that fit their block and queues the others, asks the
memory manager for a new block for each queued vertex, moves lists and vertex
data with two kernels, gives the old blocks back and appends the new edges.
`erase` locates the batch edges in the lists, moves surviving edges from the end
of each list into the holes in front, and reallocates lists that shrank to half
of their block.

What is hard here:

- three owners of a block (vertex data, queue entry, manager) that have to agree
  through a reallocation;
- vertex data copied into the queue and degrees recorded for the append, both
  used several kernels later;
- the slots of equal batch edges, handed out by atomics in any order;
- a parallel in-place overwrite that must not read what it writes;
- degrees at the boundary of a block size, down to zero;
- summaries of a bit tree that is updated from the leaf upwards and stops early;
- unsynchronised operators in the algorithms (connected components), frontier
  queues whose capacity is only checked afterwards, loops that must end.

The properties that make each part correct:

- `BitTree`: summaries exact between calls, no block handed out twice, first fit,
  the counter is the number of used blocks, calls end.
- `BlockArrayManager` with `Hornet`: every block in use has one owner, and its size
  is that of the owner's list.
- `Hornet`: lists change only as the batch says, and `nE()` counts them.
- `BatchUpdate`: what the erase plan says about holes and survivors, and the
  results stated in comments of its functions.
- Traversals: every reachable vertex is discovered once and with the right
  distance; queues stay within their capacity; components get one colour; the
  loops end.
- Peeling (core numbers, K-truss): nothing of a core or truss is taken away, all
  else is, the counters that end the loops are right.

## The modules

| module | models | extends or uses |
|---|---|---|
| `BlockPool` | what a block array promises: first-fit blocks | |
| `BitTree` | `BitTree.i.cuh`: the loops of `insert` and `remove`, one level a step | refines `BlockPool` |
| `BlockArrayManager` | arrays in bins by size, `insert` and `remove` | action operators for `Hornet` |
| `DynamicGraph` | what `Hornet` promises: a multigraph and batches | |
| `Hornet` | constructor, `insert`, `erase`, `sort` | extends `BlockArrayManager`, refines `DynamicGraph` |
| `TwoLevelQueue` | `TwoLevelQueue.i.cuh`: two buffers and the swap | operators for the traversals |
| `HostDeviceVar` | `HostDeviceVar.i.cuh`: a value on each side and the mark that it is out of date | operators for `ConnectedComponents` |
| `LevelSearch` | what a breadth-first search promises: one level at a time | |
| `TopDownBFS` | `BfsTopDown2`, thread by thread | `TwoLevelQueue`, refines `LevelSearch` |
| `BottomUpBFS` | `BfsBottomUp2`: levels in both directions | extends `TopDownBFS`, refines `LevelSearch` |
| `ConnectedComponents` | `CC.cu`, thread by thread | `TwoLevelQueue`, `HostDeviceVar` |
| `ShortestPaths` | `SSSP.cu`, thread by thread | `TwoLevelQueue` |
| `LoadBalancing` | `VertexBased` and `BinarySearch` (`binarySearchLB` of `xlib`), block by block | |
| `AdjUnion` | how threads share the intersection of two lists (`Operator++.i.cuh`), and the count of `triangle2.cu` | operators only |
| `TriangleCounting` | `forAllAdjUnions`, `TriangleCounting2`, the local coefficients of `cc.cu` | extends `AdjUnion` |
| `CoreNumber` | `CoreNumber`, and `KCore` as its variant, thread by thread | `TwoLevelQueue` |
| `TrussSupport` | how threads share the merge of two lists (`KTrussSupport.cuh`) | operators only |
| `KTruss` | `KTruss`: `run`, `runForK`, `reset`, with the erase and sort of `Hornet` on lists | extends `TrussSupport` |
| `Enumeration` | proved facts about ranks in finite sets, induction over a set, functions defined by recursion, sums over a finite set, and the positions that the items of a queue buffer fill | |
| `BitTree_proofs`, `Hornet_proofs`, `BFS_proofs`, `ConnectedComponents_proofs`, `ShortestPaths_proofs`, `Peeling_proofs`, `WorkSharing_proofs` | the theorems | extend the modules they are about; `WorkSharing_proofs` both `LoadBalancing` and `TriangleCounting`, `Peeling_proofs` both `CoreNumber` and `KTruss` |
| `MC...` | instances for TLC | |

`BitTree`. `avail` is the set of one-bits of `_array`, `size` is `_size`, `index` and
`level` are the locals of the loops and `pc` says which loop runs. Word `w` has its
parent bit at `w - 1`. The constructor's ones include filler bits that no block
backs; they are in the model.

`BlockArrayManager`. `arrays` is `_ba_map` as a function from addresses: the block
size of the array and the offsets in use. The bins are the preimages of the sizes.
The bit tree inside is replaced by the pool it implements: the first free offset is
taken. Which array of a bin is taken is a choice, since the code iterates an
`unordered_map`; a new array gets any address that no live array has.

`Hornet`. `vertex` is `_vertex_data`, `mem` the cells of the arrays. `pc` is the phase
of the call: `queue` (the kernel `buildReallocateVerticesQueue`, a step per source
in any order), `alloc` (the first host loop, a step per block, then the move),
`free` (the second loop, then the append), `locate` and `overwrite` (erase). The
variables `batch`, `locs`, `queue`, `oldDegree` are the buffers of the batch object
between these steps: `in_edge()`, `range[1]`, the reallocation queue and
`graph_offsets`. A kernel whose threads write disjoint cells and read none of
them is one step; that this is so for the overwrite kernel is itself the property
`OverwritePlanSound`. Cells that are free again are forgotten (`NoId`), so a
late read of one shows up as a wrong list. Every offset is a multiple of the
block size, as in the code. `stable` is a history variable, the lists at the last
return.

The traversals (`TopDownBFS`, `ConnectedComponents`, `ShortestPaths`). `pc` is the phase
of the host's loop. A launch puts one thread per edge of the frontier (per pair,
for the colouring) into a set, and every read, write or atomic of such a thread is
a step of its own, in any order: a set holds the threads before the step and
another one those after it, with what they have loaded (`visiting` and `won` in the
search, `marking`, `reading` and `writing` in the components, `starting` and
`relaxing` in the shortest paths). The host's steps between kernels are guarded by
these sets being empty, since the kernels run on one stream and the host waits for
the copy of a counter. A buffer of the queue is the number of times each item is in
it, because the order of the items is the race of an atomic and no algorithm
depends on it. Reads and writes of one 32-bit word are atomic steps; a thread that
reads two colours may see them at different times. The value of device memory that
nobody has written is any value (`HostDeviceVar`).

`BottomUpBFS` is `BfsBottomUp2`. Its `run()` is that of `BfsTopDown2`, line by line, so
`TopDownBFS` is extended and its actions are guarded by `bottom`, the bottom-up kernel
that comes next. `infIn` and `infOut` are `queue_inf`, `bu_flag` and `switching` (which
`run` was called) are locals. A thread of a bottom-up kernel writes the label of
its own vertex, and no label that another thread of the kernel writes is one that
it asks for, so these kernels are steps. The 40 of the condition `td` is a constant,
`Ratio`. Behaviours that only call `run()` are those of `BfsTopDown2`.

`CoreNumber`. `vertex_pres`, `vertex_deg` and the three queues are those of the class;
`peel_vqueue` is appended to by every round and only swapped by the last round of
a level, as in the code. The kernels over vertices are steps. In the edge kernel
each thread is a step of its own, with both of its atomics: their results are not
used. `kcore` says which class runs; the two loops differ in the number that is
stored and in what happens at the end. Memory that was allocated but not written
has any value of `Garbage`.

`KTruss`. `lists` are the adjacency lists in the order of memory, because the count
merges them. The threads of an intersection are functions (`TrussSupport`): the share
of each, the search for its diagonal, the match on a border and the merge. A
neighbour is told of a match through shared memory without a barrier; in lockstep
it is seen, otherwise it may be missed, and the counts are a set of outcomes.
`Erased` is the result of `Hornet`'s erase for the batches that K-truss makes: the
survivors behind the new end fill the holes in the order of the sorted batch.
`SortHornet` has the early return of `Hornet::sort`. `given` and `misread` are history
variables: the graph when the call began, and whether an unsorted list was merged.

`LoadBalancing` and `TriangleCounting`. The threads of a block meet at barriers, and
between two of them each writes cells of its own and reads none that another one
writes, so a stretch between barriers is a step of the block; in `LoadBalancing` the
blocks interleave. Shared memory keeps what the last chunk left in it, and a register
that was never set has a value of its own (`Unset`). In `TriangleCounting` the
threads that place edges take positions by atomics in any order. The kernels that
count only add to the counts, so their blocks are taken one after the other; the
binary searches and the merge of a thread are functions (`AdjUnion`).

Details that no property depends on: `Locate` keeps the destinations of the located
edges, of which the code copies only the sources, and `ccLocal` is empty until `run` has
computed it, where the code has memory that it has not written. The sort of a block is
its sorted list; the segments by which `SoADataSort` sorts are not modelled, so the
exactness of K-truss takes for granted that a block which is sorted at all is sorted
rightly (see the hazard at `SoADataSort.i.cuh:336`).

Left out of these models: an insert with both duplicate options, an erase that removes
duplicates first, edge weights (but those of the shortest paths) and vertex meta data
(they are moved with the edge), 32-bit overflow of degrees, distances and thread
numbers, allocation failure, and the capacity of buffers that are resized to the batch.

## The runs

| run | instance | what it checks | states |
|---|---|---|---|
| `bit_tree` | 8 blocks with 2-bit words: three full levels | summaries, counter, descents, the pool, calls return | 2 368 |
| `hornet` | 2 vertices, degrees up to 4, no duplicate option or one of the two, batches of up to three edges | ownership of blocks, the queue, the overwrite plan, the lists, the multigraph | 674 920 |
| `bfs` | all directed graphs on 3 vertices and six larger shapes, on 6 vertices; both `run` | one enqueue per vertex, distances, returns, levels | 112 029 |
| `components` | 6 vertices, several graphs | colours stay in a component, the largest survives, one colour each, returns | 41 628 |
| `paths` | all graphs on 3 vertices with weights 0 and 3, and four on 4 vertices | no forgotten edge, exact at the end, returns | 67 644 |
| `load_balancing` | blocks of 2 threads with 2 items; all arrays of up to 3 vertices with degrees up to 3, and eight longer ones | each edge once, the search stays in its chunk, the kernels end | 39 841 |
| `triangles` | all directed graphs on 3 vertices, and two directed by degree; both methods | queue sorted by bins, each edge in one kernel, shares, counts, returns | 92 100 |
| `core_number` | all graphs on 4 vertices and five with a loop, parallel edges or several levels; both classes | degrees, cores, counters, the numbers of both classes, returns | 51 277 |
| `ktruss` | all graphs on 4 vertices with 1, 2 and 4 threads for an intersection, those on 5 with at most three edges missing; `run` and `runForK` | no edge of a truss erased, the largest truss left, the counter, returns | 63 191 |
| `erase_isolated` | batches may erase from isolated vertices | `LocatedEdgesPresent` is violated | |
| `components_isolated` | all other vertices isolated | `RunAlwaysReturns` is violated | |
| `ktruss_unsorted` | a graph whose degrees are powers of two after an erase | `MaximalFound` is violated | |

What they show. A bit tree behaves as a first-fit pool although inserts and
removes stop climbing at the first summary that does not change (an early stop is
right exactly if the levels above are exact, `SummaryExact`). In a Hornet no step
of any call makes two lists share a block or loses one (`BlockOwnership`), the erase
kernel has as many survivors as holes in each list and never reads a cell it
writes (`OverwritePlanSound`), a call leaves other lists alone and an insert keeps
the old list as a prefix (`CallsKeepLists`), and the calls implement `DynamicGraph`
(`ImplementsGraph`): exactly the batch's edges come and go, whatever order the
atomics took, and `nE()` is the number of edges. With the removal of edges the
graph has, the abstract insert may add fewer edges than the batch: the code keeps
at most one (see the hazard at `BatchUpdate.i.cuh:395`). All of this is said of
inserts that ask for no removal of duplicates or for one of the two. With both, it is
not true of the code: `remove_batch_duplicates` lowers `_nE` and leaves the item count of
the buffer, and `remove_graph_duplicates` begins with `_nE = in_edge().get_num_items()`
(`BatchUpdate.i.cuh:370`). The batch is then as long as the caller's again, and behind
its unique edges lies memory that the call has not written. If no source has an edge
yet, the function returns with it (line 380), and `insert` adds those edges, too: two for
a batch that has the edge 1-1 twice, and possibly at a vertex that the batch does not
name. If they name a source that is already in front, it has two runs of edges, is
queued twice and loses a block. `HornetAssumption` therefore leaves the pair of both
options out of `InsertOptions`, and `Preprocess` is not defined for it; no caller in the
repository sets both.

A search enqueues a vertex once (`EnqueuedOnce`) and each level is one step of a
search by levels, seen from the host, in either direction (`ImplementsSearch`):
levels from the bottom up pass on the vertices that they leave without a label.
Connected components lose
updates, but never the largest colour of a component, and the loop cannot end
before each has one colour (`ComponentsExact`). The shortest paths are exact although
a thread may use a distance that is lowered behind its back: such an edge has its
source in the queue again, or a thread that will see the smaller one
(`NothingForgotten`). The load balancing hands out each edge once (`EachEdgeOnce`),
which the traversals take for granted. The intersections of the triangle counting
count each common neighbour once, however many threads share them
(`SharesAreExact`), and every edge is in one range of bins (`EachEdgeUnited`).

The core numbers are right although the threads of an edge kernel lower both ends,
so that an edge between two peeled vertices is counted down four times: the
counters of the vertices that remain are not affected (`DegreesExact`), hence no
vertex of a core is peeled (`CoresKept`). `KCore` stores one more than the core number,
and no number for the innermost core (`KCoreNumbers`). K-truss never erases an edge of
the truss that it searches (`TrussKept`), also when threads of an intersection miss
what their neighbours tell them, for then counts are only too high. When they run in
lockstep, what is left is the truss (`TrussExact`). Both need the lists to be sorted.
Threads that are not in lockstep may count the two directions of an edge differently,
and a call may then end with an edge in the list of one end only. The edges of which
both properties speak are therefore those that both lists had when the call began:
a later call with a smaller `k` may erase what is left of the others, and it is exact
only if there are none.

Bounds. `bit_tree`: three levels are the least with an inner level between root and
leaves, where climbing can stop early in both directions; filler
bits would keep the root from becoming zero, so the tree of the run has none; the
trees that have them are covered by the proofs, which are for every shape. `hornet`: two vertices are
enough for two queue entries in either order, a vertex that moves beside one that
stays, and blocks in one array. Block sizes 1, 2 and 4 with arrays of two edges give
arrays with two blocks, with one, and one larger than the minimum. Batches have a
repeated edge, several sources, and loops; lists have repeated edges, so slots of
equal edges are contended. Degree 4 is reached and left in both directions, and
degree 0, too. The pairs of options are the three that `HornetAssumption` admits. Bounds in guards: `Fits` (no degree above `MaxDegree`). The five
addresses are symmetric: nothing compares them. The traversals need a vertex reached
by several threads of a level and by several levels (diamond, parallel edges,
complete graphs), a component away from the giant one and isolated vertices
(components), and a detour that is cheaper than an edge and a cycle without weight
(paths). `INF` is larger than any path. In `bfs` a frontier of one vertex among six is
small for `Ratio` 3 and one of two is not: with levels of one, two, one and two
vertices the directions take turns, and with one, two, two and one `queue_inf` is
kept from a level to the next. `load_balancing`: three cells of a chunk are
fewer than the rows of empty vertices, and nine edges take three blocks.
`triangles`: the factors 0 and 1 send edges to both methods, lists of up to four
neighbours reach several bins, and unions have up to four threads, those in blocks
of two more than one block; `SharesAreExact` divides each of them by up to eight.
`core_number`: graphs of five vertices have levels 1, 2 and 3, edges between two
peeled vertices, and an innermost core beside others; runs follow each other with
and without a reset. `ktruss`: lists of four neighbours are cut by four threads on
every diagonal, so matches lie on borders; trusses up to 5 exist, and an erase
leaves lists out of order. `MaxK` is above any truss of these graphs, and a run that
reached it would not return.

`CHECK_DEADLOCK FALSE` in `hornet` and `erase_isolated` because the program ends in the
fault of an erase from isolated vertices, and in `load_balancing` because a behaviour
is one call.

Fairness. A call of `BitTree` is one host thread that waits for nothing, so a started
call takes its next step. In the traversals, `CoreNumber`, `LoadBalancing` and
`TriangleCounting` it is weak fairness of `Run` (there `TCRun`): a launched kernel runs to its end,
since its threads wait for nothing but barriers that all of them reach, and the host
goes on after it. `KTruss` states weak fairness of its steps by what they do to `phase`.
That a caller resets or starts again is not assumed. `Hornet` is checked for safety.

Type invariants. That of `Hornet` is checked by its run and proved. Those of the
searches, of connected components, shortest paths, core numbers and K-truss are part of
the inductive invariants and proved; their runs check what is less obvious. The other modules
state none: their properties compare values that a wrong type would spoil.

Faults. Every property has a fault, an operator next to the definition it
changes (`..._Swapped`, `..._Once`), that a small slip in the code would amount to
and that TLC finds by violating the property.

## Findings

- `locateEdgesToBeErased` returns early when no batch source has an edge. The
  batch is then unfiltered, against the comment at the end of the function, and
  `overWriteEdges` goes on with an empty vector of locations (`erase_isolated`).
- With no pairs left to colour, `forAll` returns before it launches anything. The
  flag of the loop has then been copied into the operator, which marks the host's
  copy as out of date, and no kernel argument has written the device's: the loop of
  the connected components reads memory that nobody initialised and may not end
  (`components_isolated`).
- `Hornet::sort` returns before it sorts when no block has padding, that is when every
  degree is zero or a power of two. K-truss sorts after each erase, since the next
  count merges the lists; in such a graph they stay as the erase left them, common
  neighbours are missed and edges of the truss are erased (`ktruss_unsorted`).

Other observations, which no document in the repository contradicts or no run
shows. Under `hazards`: the prefix sum of `remove_graph_duplicates` stops one short of
the entry its size is read from; of several copies of an edge in a batch only the
first is marked as a duplicate; with both removals of duplicates the batch gets an
unwritten tail (line 370, see "What they show"); a batch object cannot be reused; the move assignment
of `SoAData` leaves its pointers behind; the segments of `cub_segmented_sort` are empty;
the operators of connected components and shortest paths can enqueue more items
than their queues have room for; `reset` of K-truss restores the counter of edges but
not the edges, after which `run` need not return. From reading only: barriers inside
loops that not all threads of a block enter; the queue takes positions by
`__shfl_sync` with a full mask under `__activemask()`; the clustering coefficient divides
counts that the intersection adds to the vertex with the shorter list only, so local
coefficients of undirected graphs are wrong while the total is right. In `bc.cu` the
walk back stops before the first level and the sum leaves out the last two of the
search, so a path of three vertices has betweenness zero; `depth_indices` has an entry
per vertex and is written one entry behind the last level, beyond its end on a path.

## The proofs

All theorems are proved for every value of the constants.

`BitTree_proofs` proves for every word size above one, every number of blocks (a power
of the word size or not) and every block size (`WordAssumption`, `BlockAssumption`):

- `SummariesAreExact`: `Spec => []SummaryExact`;
- `DescentsFindBlock`: `Spec => []DescentFindsBlock`;
- `SizesAreUsed`: `Spec => []SizeIsUsed`;
- `TreeImplementsPool`: `Spec => ImplementsPool`, the refinement of `BlockPool`.

First the shape: `LevelBaseIs` solves the recursion of the powers in the formula of
`geometric_serie`, and `Shape` derives that every word but the root has a parent bit,
that no parent bit is the bit of a block, and that the last level has room for all
blocks. The inductive invariant is `IInv == TypeOK /\ ExactButOne /\ Counted /\
OnFirst`. `ExactButOne`: while a climb runs, every parent bit is right except that of
the word it has reached; a climb that stops early leaves none that is wrong,
because the word where it stops was zero neither before nor after. `OnFirst`: a descent is
at a word that has a bit, and no bit of that level lies before it. While a block is
free, its ancestors are set on every level (`FreeIsSeen`, an induction from the
leaves upwards), so the first bit of a level is never a filler bit, which all lie
behind. Its word is then the first one with a bit in the next level (`DescendKeeps`),
and in the last level it is the first free block (`ClaimKeeps`), which is what
first fit means.

`Hornet_proofs` proves for every number of vertices, every set of block sizes and
addresses, every start graph and every set of batches:

- `TypesHold`: `Spec => []TypeOK`;
- `QueueHolds`: `Spec => []QueueConsistent`;
- `OwnershipHolds`: `Spec => []BlockOwnership`;
- `OverwritesAreSound`: `Spec => []OverwritePlanSound`.

Assumptions. `SizesAssumption`: the sizes are powers of two without a gap, stated
without powers (1 is one, every other is twice one, and the next one is at least
twice as large). `ArrayAssumption` and `HornetAssumption`: the minimum capacity and
the degree bound are sizes, the null address is none of the addresses, graphs and
batches are typed, and no insert asks for both removals of duplicates (see "What they
show"). Batches are not assumed to be sorted or free of duplicates. The last
assumption enters where an insert begins (`OneRemoval`, `PreprocessCases`): from there on
the proofs need only that the batch is in order and has each edge as often as asked for
(`PreprocessTimes`), which line 370 of `BatchUpdate.i.cuh` would break. So all theorems of
this module speak of sequences of calls without such an insert.

The argument. The inductive invariant is `IInv == TypeOK /\ QueueConsistent /\
BlockOwnership`, and none of the three is inductive alone. Ownership says that the
claims (of vertices, of queue entries to new blocks, of queue entries to old
blocks, depending on the phase) and the blocks in use correspond one to one, with
matching sizes. Each step is one of these kinds, each with a lemma:

- nothing about blocks changes (`QuietStep`), or a vertex gets a degree in the
  upper half of its block, so the size it rounds up to stays (`StayingSize`,
  `SameRoundup`);
- a block is taken (`AddClaim` with `BlockInsertEffect`) or given back (`DropClaim`
  with `BlockRemoveEffect`);
- the move turns claims of vertices into claims to old blocks and claims to new
  blocks into claims of vertices (`MoveStep`, `Exchange`, `Reclaim`). Here the
  copies in the queue must still be the vertices' data and no vertex may be queued
  twice, which is what `QueueConsistent` says.

`QueueConsistent` in turn needs that an erase asks for no more edges than a list
has: the slots of a list name different positions (`LocateSlots`), so there are at
most as many as the degree (`RequestedBound`). That sorting, removing duplicates and
selecting keep a batch a batch comes from `Enumeration`: in a
finite set of naturals every rank up to the cardinality is taken.

`OverwritesAreSound` needs one more invariant, `BatchInOrder`: while an erase runs,
the batch is in the order of its sources (`SortedInOrder`, `PickInOrder`), so the
edges of a source are next to each other (`Segment`). Each edge of the batch that is
not a hole lies behind the cutoff of its list and excludes one survivor among the
edges of the same source, and no two exclude the same one (`Targets`). Up to the
begin and the end of every source there are therefore as many holes as survivors
(`PrefixCounts`, `HolesAndSurvivors`), which puts the k-th of each into the same list
(`NthCounts`, `NthBetween`) although the kernels compact the two arrays separately.

The second half of `Hornet_proofs` proves what the lists hold, under the same
assumptions:

- `ListsFollowCalls`: `Spec => [](Base /\ CellsApart /\ GraphFollows)`;
- `ListsImplementGraph`: `Spec => ImplementsGraph`, the refinement of `DynamicGraph`;
- `CallsKeep`: `Spec => CallsKeepLists`.

`Base` is what the theorems above establish, with `Placed`: every block in use is at
a multiple of its size, so blocks with different owners do not overlap.
`CellsApart` follows from it: no cell belongs to two lists, nor to a list and to
a block in the queue, so that what a kernel writes for one vertex is not read for
another. `GraphFollows` says, for each phase, how everything depends on the graph
at the last return (`stable`) and on the caller's batch: `CallKnown` and
`BatchCounted` (how often an edge is in the batch after its preprocessing),
`DegreesFollow` (who has the degree of before and who that of after),
`ListsFollow` (the cells of a list, whether its block has moved or not; after the
overwriting, a list and the erased edges together have each edge as often as the
list had before) and `EdgesCounted` (`nE()`). Two steps carry the weight: the
append, whose cells begin at the recorded degree of before (`AppendEffect`), and the
overwrite, for which `OverwritePlanSound` makes the parallel copies a permutation.
For the refinement a graph is seen as the number of copies of each pair
(`Copies`), every step but the return of a call is a stutter, and `nE()` is the
cardinality of the set of numbered copies (`Total` in `DynamicGraph`).

`BFS_proofs` proves for every finite set of vertices and every set of
multigraphs on it (`BFSAssumption`):

- `VerticesEnqueuedOnce`: `Spec => []EnqueuedOnce`;
- `DistancesAreExact`: `Spec => []DistancesExact`;
- `SearchIsImplemented`: `Spec => ImplementsSearch`, the refinement of `LevelSearch`.

The inductive invariant is `IInv == TypeOK /\ EnqueuedOnce /\ Quiet /\ Bounded /\
Relaxed /\ Justified`. `EnqueuedOnce` says that the buffers hold exactly the vertices
of two levels, each once; `Quiet` that between kernels no thread is left and the
host's counter is that of its buffer; `Bounded` that no label is beyond the current
level and that the source alone has zero; `Relaxed` that edges out of finished levels
span at most one level, and that an edge out of the frontier has a labelled target
or a thread still to come; `Justified` that every other label has a predecessor with
the label before. `DistancesExact` characterises the distance by the last two at the
end, without a recursive definition. The refinement maps the labels of a running
kernel to those of its start: the threads are stutters, and `NextLevel` is the step.

It proves the same three (`VerticesEnqueuedOnceBU`, `DistancesAreExactBU`,
`SearchIsImplementedBU`) of `BottomUpBFS`, for runs in both directions, for every
`Ratio`. The inductive invariant is `IInv /\ Directions`: while the last level was taken
from the bottom up, `queue_inf` has exactly the vertices without a label, each once;
between its two kernels it has those that were just labelled as well. The actions
of `TopDownBFS` keep `IInv` by the lemmas about them; `Label` and `Split` are new, and
their end of a level is the one that `RaiseLevel` and `LevelComplete` are about: a
vertex is labelled if and only if it had no label and an edge from the frontier.

`ConnectedComponents_proofs` proves for every number of vertices and every set of
undirected multigraphs (`CCAssumption`: at least one vertex, symmetric edge counts,
and a mark for "no colour" that is not a colour):

- `TypesHold`: `Spec => []TypeOK`;
- `ColorsStayInComponents`: `Spec => []ColorsFromComponent`;
- `LargestIsKept`: `Spec => []LargestKept`;
- `ComponentsAreExact`: `Spec => []ComponentsExact`.

No operator of this algorithm is atomic, so the invariant must say what survives
when threads use what they read earlier. `Inside` and `Frontier` are about the
traversal: what is enqueued or about to be marked is connected to the start, and an
edge from a coloured vertex to one without a colour is still pending somewhere. When
the queue is empty no such edge is left (`FirstClosed`). `Queued` says that the pair
queue then has exactly the adjacent pairs of other vertices. `Threads` is the core: a
thread about to write carries a colour of the component it writes to, and it never
writes to the largest vertex of a component (`Top`), because when it read that
vertex, no neighbour had a larger colour (`NothingAboveTop`). Hence `TopKept`. The
end rests on `Agreement`: as long as no thread has set the flag, no colour has
changed since the kernel was launched, so a pair that differs still has a thread
that will find the difference or has found it. A run ends when the host reads an
unset flag and no thread is left, so no pair differs: the vertices of a colour are a
set that edges do not leave, and by `ColorsInside` they have one origin.

`ShortestPaths_proofs` proves for every finite set of vertices and every set of
weighted graphs (`SSSPAssumption`):

- `TypesHold`: `Spec => []TypeOK`;
- `NothingIsForgotten`: `Spec => []NothingForgotten`;
- `RunsSettle`: `Spec => []Settled`. When `run()` returns, the source has distance
  zero and no edge could lower the distance of its target.

- `DistancesAreShortest`: `Spec => []Greatest`. The distances are then the greatest
  potential: a function that is zero at the source and grows along no edge by more
  than the weight.
- `DistancesAreExact`: `Spec => []DistancesExact`. They are what the recursion over the
  number of edges of a path defines.

The inductive invariant is `IInv == TypeOK /\ Quiet /\ NothingForgotten /\ Settled`.
Only the host's counter being that of the input buffer (`Quiet`, with the lemmas of
`Enumeration` about buffers) makes an empty queue mean that nothing is forgotten.
`Settled` is one half of exactness: along any path distances grow by at most the
weights, so no path is shorter. The other half is `Above`: neither a distance nor what
a thread has loaded or computed is ever below a potential. Together they say that
the distances are the greatest potential. This is the recursive definition that
the run `paths` compares with, too: no path is shorter than a potential
(`WithinAbove`), and every round of the recursion reaches the distance of one more
vertex or has reached all (`OneMoreReached`), since otherwise the distances of all
others could be raised by one and would still be a potential. So after one round
less than there are vertices it agrees everywhere (`AllReached`). The recursion is a
function whose values `Iterates` of `Enumeration` gives, and the two inductions are
instances of `SetInduction`, which is about a set of naturals and so needs no operator
as a parameter.

`Peeling_proofs` has two parts. For `CoreNumber` it proves for every finite set of
vertices and every set of undirected multigraphs (`CoreAssumption`: symmetric edge
counts), for both classes:

- `TypesHold`: `Spec => []TypeOK`;
- `DegreesAreExact`: `Spec => []DegreesExact`;
- `CoresAreKept`: `Spec => []CoresKept`;
- `CountersAreExact`: `Spec => []CountersExact`;
- `CoreNumbersAreExact`: `Spec => []CoreNumbersExact`;
- `KCoreNumbersHold`: `Spec => []KCoreNumbers`.

The inductive invariant is `IInv == TypeOK /\ DegreesExact /\ CoresKept /\ Marks /\
Threads /\ Levels /\ LevelCore /\ Counted /\ Numbered /\ KNumbered`. `DegreesExact` holds
from thread to thread because a thread of an edge between a peeled vertex and one
that remains lowers the second once and leaves the set of threads to come. A vertex
that is peeled has, when the kernel reads it, at most as many remaining neighbours as
the level, so it is in no core above it (`CoresKept`). Conversely `LevelCore`: what
remained when the level began, with the vertices peeled since, is a core of that
level. So the number stored is the greatest that fits (`Numbered`, `KNumbered`).
`Marks`, `Threads` and `Levels` tie the marks to the queues and the threads;
`Counted` is what ends the loop.

For `KTruss` (whose definitions are named `TrussInit`, `TrussNext`, `TrussSpec` and
`phase`, so that one module can extend both specifications) it proves, under
`KTrussAssumption`,

- `TrussIsKept`: `TrussSpec => []TrussKept`;
- `TrussIsExact`: `TrussSpec => []TrussExact`;
- `EdgesAreCounted`: `TrussSpec => EdgesCounted`, an action property.

The assumption: graphs with finitely many vertices, numbered from 0, whose lists are
sorted, without repetitions and symmetric (loops are allowed); at least one thread for
an intersection; and a bound `MaxK` above the number of vertices plus one, so that no
truss is beyond it. Calls, resets and new offsets come in any order.

*The merge.* The matches of two sorted lists are cells of their grid with different
diagonals (`MatchesInOrder`). `OnPath` describes the points of the merge path without
the merge. The search of `bSearch` ends where the path crosses the diagonal, or in one
of two places beside it: one cell short at the end of the smaller list, and on the first
diagonal (`Crossing`, `SearchEnds`; what the code reads outside of the lists, and its
corner case for bounds that are next to each other, make this long). `fixStartPoint`
gives a match that the diagonal cuts to the thread that begins there, and beside the
path there is none to lose (`GoodStart`, `StartIs`). From there a thread finds the
matches of its share, and one more if the diagonal where its share ends cuts one
(`MergeIs`, `ThreadIs`). So the threads together count each match once and those on
borders twice (`SharesAre`), and what they take back of the latter is between nothing
and all of it, in lockstep all: the count is never below the common neighbours and in
lockstep equal to them (`CountsAre`, `CountsBound`).

*The lists.* `Erased` moves edges from behind the cut into the holes in front, as many as
there are (`HolesAreFilled`), and keeps exactly the edges that are not erased, each once
(`ErasedIs`); the sort keeps them, too (`SortKeeps`). So an erase takes its batch from
the edges and nothing else (`ErasedGraph`).

*The invariant.* `KInv` has, beside the types (`TrussTyped`, `Distinct`):

- `BlocksApart`: the blocks of the offsets do not overlap although the lists have become
  shorter since, so every edge has a cell of `triangles_per_edge` for itself;
- `Counting`: after the kernel a cell holds at least the triangles of its edge, if both
  lists have it, and in lockstep the number of common neighbours;
- `Keeping`: every truss for `max_K` of the graph the call began with is still in the lists,
  and no edge of the batch is one of its edges, since an edge of a truss has `k - 2`
  triangles in the truss itself;
- `Symmetry`: in lockstep both directions of an edge have the same count, so the graph
  stays symmetric, and when no edge was collected each has `k - 2` triangles, which makes
  the edges left a truss (`EnoughIsTruss`), the largest one by `Keeping`;
- `EdgesLeft`, `ActiveLeft`, `KRange`, `LastTruss`: `num_edges_remaining` is at least the number
  of edges and every vertex with an edge is active, so that nothing is overlooked; `run`
  has only raised `k` after it found a truss that is not empty, unless `reset` after an
  erase has made the counter too large; and the bound
  is never what stops `k`, because a truss that has an edge has at least `k` vertices.

None of `TrussKept` and `TrussExact` is inductive alone. TLC checked `KInv` on the instance
of the run `ktruss` before it was proved.

`WorkSharing_proofs` has two parts. For `LoadBalancing` it proves for all degree arrays with at least one vertex, all
sizes of blocks and all numbers of items per thread (`LoadAssumption`: positive
numbers, blocks of at least two items, and groups that divide a block):

- `EdgesOnce`: `Spec => []EachEdgeOnce`;
- `SearchesStayInChunk`: `Spec => []SearchStaysInChunk`.

The inductive invariant is `IInv == .. /\ BeforeLaunch /\ GroupsLeft /\ SumFirst /\
BlocksRun /\ Ended /\ calls = SetToBag(Given)`. The last part is the theorem in
inductive form: the bag of calls is at every moment the set of the edges given so
far, those of the groups that have run or of the blocks that have ended. So it is
to show that these sets are disjoint, that together they are `AllEdges`, and that
what a block calls is its set.

For `BinarySearch` the prefix sum gives each edge a number, one to one (`SummedIs`,
`SumGrows`, `NumbersAre`), and block `b` has the edges with numbers in its range.
`BlocksRun` says how far a block is, with `ItemsSet` (the registers of all items below
the limit reached hold their edges, the others hold no edge or nothing yet) and
`ChunkLeft` (the cells still to be read reach from that limit to the last position of
the block). The lemmas follow the code: a binary search returns the last cell that is
not larger (`UpperBoundIs`, by induction over the length of the range), hence the
positions between the bounds of a block have all its edges (`BoundsAre`); a chunk has
the right cells and its last one is the next limit (`ChunkIs`); the walk of a thread
is at the edge of its item whenever it takes one (`EntryAt`, `BeforeAt`, `MovesTo`), so the
registers get the right edges (`ItemFound`), and the calls made from them are
each of the edges of the block once (`CallsAre`). `SearchStaysInChunk` falls out of
`MovesTo`: the number of an item below the limit belongs to an edge, whose position
ends the walk within the chunk. For `VertexBased`, an edge is walked over by exactly
one thread (`StridesAre`, `StridesPart`).

For `TriangleCounting` (whose definitions are named `TCInit`, `TCNext`, `TCSpec` and
`stage`, so that one module can extend both specifications) it proves, under
`TriangleAssumption`,

- `SharesExact`: `TCSpec => []SharesAreExact`;
- `QueueIsSorted`: `TCSpec => []QueueSorted`;
- `EdgesUnited`: `TCSpec => []EachEdgeUnited`;
- `CountsAreExact`: `TCSpec => []CountsExact`.

The assumption: graphs with finitely many vertices, numbered, whose lists are sorted
and without loops (what the operator's merge relies on); at least two bins per
direction; a block size that is a power of two (256 in `Operator++.cuh`), without
which two unions could share the threads of a block unevenly. Whatever the offsets
and the work factors, the theorems hold.

*The shares.* The merge of two strict lists is a path through the grid of their
positions, and `OnPath` describes its points without the merge. The binary search on a
diagonal ends at the point that lies on it (`PathPointIs`), the path never turns back
(`PathGrows`), so the share of a thread begins after that of the thread before it, and
a merge of a share counts the common elements whose cell of the grid lies between its
diagonals (`MergedIs`, `BalancedIs`). The diagonals are divided without gaps
(`DivideGrows`, `DivideMoves`), so every common element is counted by one thread
(`SharesSum`). The searches of the imbalanced kernel find exactly the elements of the
list (`FoundIs`). The model writes these loops as functions defined by recursion on a
set of ranges; that such a definition has a solution is `FixedPoint`, with a rank that
falls in every step.

*The queue.* `Placed` says, for any set of placed edges, that the edges of a bin fill the
positions from the begin of the bin to the device's counter. A thread of the placing
kernel keeps it (`OnePlaced`), and when none is left the queue is sorted (`AllPlaced`).

*The loop.* `LoopAt(b)`: the next range begins with bin `b`, and `b` is at or before
the bin where the loop will end the range, in whichever of the two loops and tails it
is. This is what the code relies on without saying so: `end_index` never lies before
`start_index`, since an unsigned `size` would wrap. It needs `BALANCED_THREADS_LOGMAX`
and `threads_log` to stay where the first loop left them (`EndBinIs`).

*The counts.* `TriInv` says that between the kernels the counts are those of the edges
before `start`, and within a kernel additionally what the threads of the blocks that
have run have added (`RunTo`). A sum over the threads is a sum over unions of sums over
shares (`SumOfRows`, `ThreadIs`), each share sum is the number of common neighbours
(`GainIs`), and together they are those of the edges of the range (`KernelSum`,
`KernelDoneKeeps`). A thread group may span blocks; the invariant counts by thread, so
a union half of whose threads have run needs no case of its own. An edge that
`avoidCalc` skips has no common neighbours (`CommonIs`). TLC checked `TriInv` on the
instance of the run `triangles` before it was proved. Sums are `SumFunctionOnSet` of the
community modules; `SumSteps` shows that it adds one element after the other, whatever
order the fold takes.

Every safety invariant and every action property of the passing runs is proved, and
so are the three refinements. Only model-checked: the liveness properties (`CallsReturn`,
`RunReturns`, `KernelEnds`), which need fairness and are beyond this prover, and the
violations.

## Plan

Done: the memory manager, the dynamic graph with its theorems; the queue and
breadth-first search in both directions with its theorems; connected components,
shortest paths and core numbers with theirs; load balancing, triangle counting and
K-truss with theirs. Left, in this order:

1. The preprocessing with its buffers: the item counts, what lies behind the batch, and
   runs of a source that occur twice, so that inserts with both options are in the model;
   the erase kernels thread by thread (`markUniqueOffsets`, slots, compaction),
   refining the one-step `Locate` of `Hornet` and the `Erased` of `KTruss`; reuse of a
   batch object and `reset`.
2. `SoAData`: ownership of the columns through copies and moves, and the segmented
   sort.
3. The control of betweenness centrality, which runs a search and then walks its
   levels back; its sums would be pairs of integers.
4. Proofs: what 1 to 3 promise. A variant for each loop, a number that every step
   lowers, would reduce the liveness properties to safety.

## Not modelled

Floating-point algorithms (Katz, PageRank, betweenness centrality: their state is
real-valued), SpMV (one data-parallel pass), graph
readers, random data, timers and printing of `xlib`, template plumbing (`SoA`, type
lists), the static graph, vendored CUB and the build. Multi-GPU use exists only in a
test. The weighted K-truss has the control of the
other; the overload of `KCore` that returns the edges of a core has no caller that is
not commented out.
