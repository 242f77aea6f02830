---------------------------- MODULE BottomUpBFS ----------------------------
(***************************************************************************)
(* Breadth-first search in both directions (BfsBottomUp2).  Its run() is   *)
(* that of TopDownBFS.  run(hornet_in) takes a level from the bottom up    *)
(* when the frontier is a large part of the graph: a thread for each       *)
(* vertex without a label looks for a neighbour in the frontier, in the    *)
(* graph with reversed edges, and a second kernel sorts these vertices     *)
(* into the frontier and the rest, which is kept for the next level.  The  *)
(* threads of these kernels write their own vertex only, and no thread     *)
(* asks for the label that another one writes: each kernel is a step.      *)
(***************************************************************************)
EXTENDS TopDownBFS

CONSTANT Ratio      \* 40: top down while the graph is this much larger

ASSUME RatioAssumption == Ratio \in Nat

VARIABLES switching,                   \* the call: run(hornet_in) or run()
          bottom,                      \* the next bottom-up kernel, if any
          bu_flag,
          infIn, infOut, infSize       \* queue_inf

queue_inf  == <<infIn, infOut, infSize>>
directions == <<switching, bottom, bu_flag>>
varsBU     == <<vars, directions, queue_inf>>

\* queue_inf(hornet): room for two items per vertex.
QueueInf == INSTANCE TwoLevelQueue WITH Items <- Vertices,
                                        MaxItems <- 2 * Cardinality(Vertices),
                                        input <- infIn, output <- infOut,
                                        size <- infSize

InitBU == /\ Init
          /\ switching = FALSE
          /\ bottom = "none"
          /\ bu_flag = FALSE
          /\ QueueInf!Init

\* reset() leaves queue_inf as it is.
ResetBU == Reset /\ UNCHANGED <<directions, queue_inf>>

\* set_parameters() and the locals of the run that follows.
SetParametersBU(source) == /\ SetParameters(source)
                           /\ switching' \in BOOLEAN
                           /\ bu_flag' = FALSE
                           /\ UNCHANGED <<bottom, queue_inf>>

-----------------------------------------------------------------------------
(* A level from the top down                                               *)

\* The condition td, but for the rounding of its quotient.
Small == Cardinality(Vertices) > Ratio * size

LaunchBU == /\ bottom = "none"
            /\ switching => Small
            /\ Launch
            /\ UNCHANGED <<directions, queue_inf>>

Threads == /\ bottom = "none"
           /\ \/ \E e \in Edges : Discover(e) \/ Skip(e)
              \/ \E v \in Vertices : Enqueue(v)
           /\ UNCHANGED <<directions, queue_inf>>

NextLevelBU == /\ bottom = "none"
               /\ NextLevel
               /\ bu_flag' = FALSE
               /\ UNCHANGED <<switching, bottom, queue_inf>>

FinishBU == /\ bottom = "none"
            /\ Finish
            /\ UNCHANGED <<directions, queue_inf>>

-----------------------------------------------------------------------------
(* A level from the bottom up                                              *)

\* Unless the last level was taken that way, too, queue_inf is filled anew
\* with the vertices that have no label (OPERATOR_AddToQueue_inf).
Collect == /\ pc = "loop"
           /\ bottom = "none"
           /\ size > 0
           /\ switching /\ ~Small
           /\ bottom' = "label"
           /\ IF bu_flag THEN UNCHANGED queue_inf
              ELSE QueueInf!AppendAndSwap([v \in Vertices |->
                                             IF distances[v] = INF THEN 1 ELSE 0])
           /\ UNCHANGED <<vars, switching, bu_flag>>

\* What the kernel would label in the graph that is not reversed.
Found_Outgoing == {v \in Vertices : /\ infIn[v] > 0
                                    /\ distances[v] = INF
                                    /\ \E u \in Vertices : /\ arcs[<<v, u>>] > 0
                                                           /\ distances[u] = current_level - 1}

\* The vertices of queue_inf that vertexBFSOperator labels.
Found == {v \in Vertices : /\ infIn[v] > 0
                           /\ distances[v] = INF
                           /\ \E u \in Vertices : /\ arcs[<<u, v>>] > 0
                                                  /\ distances[u] = current_level - 1}

\* The kernel vertexBFSOperator.  What it labels is still to be enqueued.
Label == /\ bottom = "label"
         /\ bottom' = "split"
         /\ pc' = "kernel"
         /\ distances' = [v \in Vertices |->
                            IF v \in Found THEN current_level ELSE distances[v]]
         /\ won' = [v \in Vertices |-> IF v \in Found THEN 1 ELSE 0]
         /\ UNCHANGED <<arcs, bfs_source, current_level, queue, visiting,
                        switching, bu_flag, queue_inf>>

\* A kernel that forgets the vertices that are still without a label.
Split_Forgetful ==
    /\ bottom = "split"
    /\ bottom' = "none"
    /\ pc' = "loop"
    /\ Queue!AppendAndSwap([v \in Vertices |->
                              IF distances[v] = current_level THEN infIn[v] ELSE 0])
    /\ QueueInf!Swap
    /\ won' = Nobody
    /\ current_level' = current_level + 1
    /\ bu_flag' = TRUE
    /\ UNCHANGED <<arcs, distances, bfs_source, visiting, switching>>

\* The kernel OPERATOR_AddToQueue, and the swap of both queues.
Split ==
    /\ bottom = "split"
    /\ bottom' = "none"
    /\ pc' = "loop"
    /\ Queue!AppendAndSwap([v \in Vertices |->
                              IF distances[v] = current_level THEN infIn[v] ELSE 0])
    /\ QueueInf!AppendAndSwap([v \in Vertices |->
                                 IF distances[v] = current_level THEN 0 ELSE infIn[v]])
    /\ won' = Nobody
    /\ current_level' = current_level + 1
    /\ bu_flag' = TRUE
    /\ UNCHANGED <<arcs, distances, bfs_source, visiting, switching>>

RunBU == \/ LaunchBU \/ Threads \/ NextLevelBU
         \/ Collect \/ Label \/ Split
         \/ FinishBU

NextBU == \/ ResetBU
          \/ \E s \in Vertices : SetParametersBU(s)
          \/ RunBU

\* A launched kernel runs to its end and the host thread goes on after it.
\* The properties of TopDownBFS are those of this specification, too.
SpecBU == InitBU /\ [][NextBU]_varsBU /\ WF_varsBU(RunBU)

=============================================================================
