----------------------------- MODULE BFS_proofs -----------------------------
(***************************************************************************)
(* Theorems about TopDownBFS and BottomUpBFS, for every finite set of      *)
(* vertices, every set of graphs and every ratio: every vertex enters the  *)
(* queue once, the distances at the end are those of shortest paths, and   *)
(* the threads and queues implement the level-by-level search; first for   *)
(* the top-down search, then however a run alternates between the          *)
(* directions.  The second part takes the steps of TopDownBFS over from    *)
(* the first.                                                              *)
(***************************************************************************)
EXTENDS BottomUpBFS, Enumeration

-----------------------------------------------------------------------------
(* The counters of a queue                                                 *)

Buffers == [Vertices -> Nat]

\* A device counter is zero exactly if nothing is in its buffer.
LEMMA CountIsZero == ASSUME NEW b \in Buffers
                     PROVE  /\ Queue!Count(b) \in Nat
                            /\ Queue!Count(b) = 0 <=> b = Nobody
<1>1. Queue!Count(b) = Cardinality(Filled(Vertices, b))
  BY DEF Queue!Count, Queue!Slots, Queue!Cardinality, Cardinality, Filled
<1>2. IsFiniteSet(Vertices) /\ b \in [Vertices -> Nat]
  BY BFSAssumption DEF Buffers
<1> QED BY <1>1, <1>2, FilledIsZero DEF Nobody

\* Appending an item adds one to the counter.
LEMMA CountOfWith == ASSUME NEW b \in Buffers, NEW v \in Vertices
                     PROVE  Queue!Count(Queue!With(b, v)) = Queue!Count(b) + 1
<1>1. \A c : Queue!Count(c) = Cardinality(Filled(Vertices, c))
  BY DEF Queue!Count, Queue!Slots, Queue!Cardinality, Cardinality, Filled
<1>2. IsFiniteSet(Vertices) /\ b \in [Vertices -> Nat]
  BY BFSAssumption DEF Buffers
<1> QED BY <1>1, <1>2, FilledByOne DEF Queue!With

-----------------------------------------------------------------------------
(* The inductive invariant                                                 *)

\* Between kernels no thread is left; the host's counter is current.
Quiet == /\ size = Queue!Count(input)
         /\ pc = "kernel" => size > 0
         /\ pc # "kernel" => visiting = NoThread /\ won = Nobody /\ output = Nobody

\* Labels do not exceed the level, and only the source has label zero.
Bounded == /\ \A v \in Vertices : distances[v] # INF => distances[v] <= current_level
           /\ pc = "ready" => \A v \in Vertices : distances[v] = INF
           /\ pc = "ready" => current_level = 1
           /\ pc # "ready" =>
                \A v \in Vertices : (distances[v] = 0) = (v = bfs_source)
           /\ pc = "done" => \A v \in Vertices : distances[v] # current_level - 1

\* Edges out of the levels that are done have been relaxed; an edge out of the
\* frontier has been, or its thread is still to come.
Relaxed == /\ \A u, v \in Vertices :
                arcs[<<u, v>>] > 0 /\ distances[u] # INF /\ distances[u] < current_level - 1
                  => distances[v] # INF /\ distances[v] <= distances[u] + 1
           /\ pc = "kernel" =>
                \A u, v \in Vertices :
                  arcs[<<u, v>>] > 0 /\ distances[u] = current_level - 1
                    => distances[v] # INF \/ visiting[<<u, v>>] > 0

\* A thread visits an edge out of the frontier; who has a label got it over an
\* edge from the level before.
Justified == /\ \A u, v \in Vertices : visiting[<<u, v>>] > 0 => arcs[<<u, v>>] > 0 /\ input[u] > 0
             /\ pc # "kernel" => visiting = NoThread
             /\ \A v \in Vertices : distances[v] \notin {0, INF} =>
                  \E u \in Vertices : /\ arcs[<<u, v>>] > 0
                                      /\ distances[u] # INF
                                      /\ distances[u] + 1 = distances[v]

IInv == TypeOK /\ EnqueuedOnce /\ Quiet /\ Bounded /\ Relaxed /\ Justified

LEMMA InitIInv == Init => IInv
<1> SUFFICES ASSUME Init PROVE IInv
  OBVIOUS
<1> USE BFSAssumption DEF Init, Queue!Init, Queue!Empty
<1>1. TypeOK
  BY DEF TypeOK, Distance, Edges, NoThread, Nobody
<1>2. EnqueuedOnce
  BY DEF EnqueuedOnce, Nobody
<1>3. Quiet
  <2>1. Nobody \in Buffers
    BY DEF Nobody, Buffers
  <2>2. Queue!Count(Nobody) = 0
    BY <2>1, CountIsZero
  <2> QED BY <2>2 DEF Quiet, Nobody
<1>4. Bounded /\ Relaxed
  BY DEF Bounded, Relaxed
<1>5. Justified
  <2>1. \A u, v \in Vertices : visiting[<<u, v>>] = 0 /\ distances[v] = INF
    BY DEF NoThread, Edges
  <2> QED BY <2>1 DEF Justified
<1> QED BY <1>1, <1>2, <1>3, <1>4, <1>5 DEF IInv

\* Each kind of step, for types first.
LEMMA TypeStep == TypeOK /\ [Next]_vars => TypeOK'
<1> SUFFICES ASSUME TypeOK, [Next]_vars PROVE TypeOK'
  OBVIOUS
<1> USE DEF TypeOK, Distance, queue
<1>0. \A b \in Buffers : Queue!Count(b) \in Nat
  BY CountIsZero
<1>1. CASE Reset
  BY <1>1 DEF Reset, Queue!Clear, Queue!Empty
<1>2. CASE \E s \in Vertices : SetParameters(s)
  BY <1>2, <1>0 DEF SetParameters, Queue!HostInsert, Queue!With, Buffers
<1>3. CASE Launch
  <2>1. \A e \in Edges : input[e[1]] * arcs[e] \in Nat
    BY DEF Edges
  <2> QED BY <1>3, <2>1 DEF Launch
<1>4. CASE \E e \in Edges : Discover(e)
  <2>1. PICK e \in Edges : Discover(e)
    BY <1>4
  <2>2. e[2] \in Vertices /\ visiting[e] - 1 \in Nat /\ won[e[2]] + 1 \in Nat
    BY <2>1 DEF Discover, Edges
  <2> QED BY <2>1, <2>2 DEF Discover
<1>5. CASE \E e \in Edges : Skip(e)
  <2>1. PICK e \in Edges : Skip(e)
    BY <1>5
  <2>2. visiting[e] - 1 \in Nat
    BY <2>1 DEF Skip
  <2> QED BY <2>1, <2>2 DEF Skip
<1>6. CASE \E v \in Vertices : Enqueue(v)
  BY <1>6 DEF Enqueue, Queue!DeviceInsert, Queue!With
<1>7. CASE NextLevel
  BY <1>7, <1>0 DEF NextLevel, Queue!Swap, Queue!Empty, Buffers
<1>8. CASE Finish
  BY <1>8 DEF Finish
<1>9. CASE UNCHANGED vars
  BY <1>9 DEF vars
<1> QED BY <1>1, <1>2, <1>3, <1>4, <1>5, <1>6, <1>7, <1>8, <1>9 DEF Next, Run

\* The other parts, action by action.
Rest == EnqueuedOnce /\ Quiet /\ Bounded /\ Relaxed /\ Justified

LEMMA ResetStep == IInv /\ Reset => Rest'
<1> SUFFICES ASSUME IInv, Reset PROVE Rest'
  OBVIOUS
<1> USE BFSAssumption DEF IInv, Reset, Queue!Clear, Queue!Empty
<1>1. \A v \in Vertices : distances'[v] = INF
  OBVIOUS
<1>2. visiting = NoThread /\ won = Nobody
  BY DEF Quiet
<1>3. EnqueuedOnce'
  BY <1>1, <1>2 DEF EnqueuedOnce, Nobody
<1>4. Quiet'
  <2>1. Nobody \in Buffers /\ input' = Nobody
    BY DEF Nobody, Buffers
  <2>2. Queue!Count(input') = 0
    BY <2>1, CountIsZero
  <2> QED BY <2>2, <1>2 DEF Quiet, Nobody, Queue!Count, Queue!Slots
<1>5. Bounded' /\ Relaxed'
  BY <1>1 DEF Bounded, Relaxed
<1>6. Justified'
  BY <1>1, <1>2 DEF Justified, NoThread, Edges
<1> QED BY <1>3, <1>4, <1>5, <1>6 DEF Rest

LEMMA SetParametersStep ==
  ASSUME NEW s \in Vertices
  PROVE  IInv /\ SetParameters(s) => Rest'
<1> SUFFICES ASSUME IInv, SetParameters(s) PROVE Rest'
  OBVIOUS
<1> USE BFSAssumption DEF IInv, SetParameters, Queue!HostInsert, Queue!With
<1>1. /\ \A v \in Vertices : distances[v] = INF
      /\ current_level = 1 /\ visiting = NoThread /\ won = Nobody /\ output = Nobody
  BY DEF Bounded, Quiet
<1>2. \A v \in Vertices : distances'[v] = IF v = s THEN 0 ELSE INF
  BY <1>1 DEF TypeOK
<1>3. \A v \in Vertices : input[v] = 0 /\ input'[v] = IF v = s THEN 1 ELSE 0
  BY <1>1 DEF TypeOK, EnqueuedOnce
<1>4. EnqueuedOnce'
  BY <1>1, <1>2, <1>3 DEF EnqueuedOnce, Nobody
<1>5. Quiet'
  <2>1. input \in Buffers
    BY DEF TypeOK, Buffers
  <2>2. Queue!Count(Queue!With(input, s)) = Queue!Count(input) + 1
    BY <2>1, CountOfWith
  <2> QED BY <2>2, <1>1 DEF Quiet, Queue!Count, Queue!Slots
<1>6. Bounded' /\ Relaxed'
  BY <1>1, <1>2 DEF Bounded, Relaxed
<1>7. Justified'
  BY <1>1, <1>2 DEF Justified, NoThread, Edges
<1> QED BY <1>4, <1>5, <1>6, <1>7 DEF Rest

LEMMA LaunchStep == IInv /\ Launch => Rest'
<1> SUFFICES ASSUME IInv, Launch PROVE Rest'
  OBVIOUS
<1> USE BFSAssumption DEF IInv, Launch, queue
<1>1. \A u, v \in Vertices : /\ arcs[<<u, v>>] \in Nat /\ input[u] \in Nat
                             /\ visiting'[<<u, v>>] = input[u] * arcs[<<u, v>>]
  BY DEF TypeOK, Edges
<1>2. \A u, v \in Vertices : visiting'[<<u, v>>] > 0 <=> arcs[<<u, v>>] > 0 /\ input[u] > 0
  <2> TAKE u, v \in Vertices
  <2>1. \A m, n \in Nat : m * n > 0 <=> n > 0 /\ m > 0
    OBVIOUS
  <2>2. input[u] * arcs[<<u, v>>] > 0 <=> arcs[<<u, v>>] > 0 /\ input[u] > 0
    BY <1>1, <2>1
  <2> QED BY <1>1, <2>2
<1>3. EnqueuedOnce'
  BY DEF EnqueuedOnce
<1>4. Quiet'
  BY DEF Quiet, Queue!Count, Queue!Slots
<1>5. Bounded'
  BY DEF Bounded
<1>6. Relaxed'
  <2>1. \A u \in Vertices : distances[u] = current_level - 1 => input[u] > 0
    BY DEF EnqueuedOnce
  <2> QED BY <1>2, <2>1 DEF Relaxed
<1>7. Justified'
  BY <1>2 DEF Justified
<1> QED BY <1>3, <1>4, <1>5, <1>6, <1>7 DEF Rest

\* Both ends of an edge.
LEMMA Ends == ASSUME NEW e \in Edges
              PROVE  e[1] \in Vertices /\ e[2] \in Vertices /\ e = <<e[1], e[2]>>
BY DEF Edges

LEMMA DiscoverStep ==
  ASSUME NEW e \in Edges
  PROVE  IInv /\ Discover(e) => Rest'
<1> SUFFICES ASSUME IInv, Discover(e) PROVE Rest'
  OBVIOUS
<1> DEFINE a == e[1]
           b == e[2]
<1>1. a \in Vertices /\ b \in Vertices /\ e = <<a, b>>
  BY Ends
<1> USE DEF IInv, Discover, queue
<1>2. /\ pc = "kernel" /\ arcs[<<a, b>>] > 0 /\ input[a] > 0
      /\ distances[a] = current_level - 1 /\ distances[a] # INF
  <2>1. pc = "kernel"
    BY DEF Quiet, NoThread
  <2>2. arcs[<<a, b>>] > 0 /\ input[a] > 0
    BY <1>1 DEF Justified
  <2> QED BY <1>1, <2>1, <2>2, BFSAssumption DEF EnqueuedOnce, TypeOK, Distance
<1>3. \A v \in Vertices : distances'[v] = IF v = b THEN current_level ELSE distances[v]
  BY <1>1 DEF TypeOK
<1>4. \A v \in Vertices : won'[v] = IF v = b THEN won[v] + 1 ELSE won[v]
  BY <1>1 DEF TypeOK
<1>5. \A u, v \in Vertices :
        visiting'[<<u, v>>] = IF u = a /\ v = b THEN visiting[<<u, v>>] - 1 ELSE visiting[<<u, v>>]
  BY <1>1 DEF TypeOK, Edges
<1>6. distances[b] = INF /\ current_level \in Nat \ {0} /\ current_level # INF
  BY BFSAssumption DEF TypeOK
<1>7. EnqueuedOnce'
  BY <1>1, <1>2, <1>3, <1>4, <1>6, BFSAssumption DEF EnqueuedOnce, TypeOK
<1>8. Quiet'
  BY <1>2 DEF Quiet, Queue!Count, Queue!Slots
<1>9. Bounded'
  BY <1>1, <1>2, <1>3, <1>6, BFSAssumption DEF Bounded, TypeOK, Distance
<1>10. Relaxed'
  BY <1>1, <1>2, <1>3, <1>5, <1>6, BFSAssumption DEF Relaxed, TypeOK, Distance, Edges
<1>11. Justified'
  <2>1. \A u, v \in Vertices : visiting'[<<u, v>>] > 0 => visiting[<<u, v>>] > 0
    BY <1>5 DEF TypeOK, Edges
  <2>2. ASSUME NEW v \in Vertices, distances'[v] \notin {0, INF}
        PROVE  \E u \in Vertices : /\ arcs[<<u, v>>] > 0
                                   /\ distances'[u] # INF
                                   /\ distances'[u] + 1 = distances'[v]
    <3>1. CASE v = b
      <4>1. distances'[a] = current_level - 1 /\ distances'[b] = current_level
        BY <1>1, <1>2, <1>3, <1>6
      <4>2. distances'[a] # INF /\ distances'[a] + 1 = distances'[b]
        BY <1>2, <1>6, <4>1
      <4> QED BY <1>1, <1>2, <3>1, <4>2
    <3>2. CASE v # b
      BY <1>3, <1>6, <2>2, <3>2 DEF Justified
    <3> QED BY <3>1, <3>2
  <2> QED BY <1>2, <2>1, <2>2 DEF Justified
<1> QED BY <1>7, <1>8, <1>9, <1>10, <1>11 DEF Rest

LEMMA SkipStep ==
  ASSUME NEW e \in Edges
  PROVE  IInv /\ Skip(e) => Rest'
<1> SUFFICES ASSUME IInv, Skip(e) PROVE Rest'
  OBVIOUS
<1> DEFINE a == e[1]
           b == e[2]
<1>1. a \in Vertices /\ b \in Vertices /\ e = <<a, b>>
  BY Ends
<1> USE DEF IInv, Skip, queue
<1>2. pc = "kernel"
  BY DEF Quiet, NoThread
<1>3. \A u, v \in Vertices :
        visiting'[<<u, v>>] = IF u = a /\ v = b THEN visiting[<<u, v>>] - 1
                              ELSE visiting[<<u, v>>]
  BY <1>1 DEF TypeOK, Edges
<1>4. EnqueuedOnce' /\ Bounded'
  BY DEF EnqueuedOnce, Bounded
<1>5. Quiet'
  BY <1>2 DEF Quiet, Queue!Count, Queue!Slots
<1>6. Relaxed'
  BY <1>1, <1>3 DEF Relaxed, TypeOK, Edges
<1>7. Justified'
  <2>1. \A u, v \in Vertices : visiting'[<<u, v>>] > 0 => visiting[<<u, v>>] > 0
    BY <1>3 DEF TypeOK, Edges
  <2> QED BY <1>2, <2>1 DEF Justified
<1> QED BY <1>4, <1>5, <1>6, <1>7 DEF Rest

LEMMA EnqueueStep ==
  ASSUME NEW w \in Vertices
  PROVE  IInv /\ Enqueue(w) => Rest'
<1> SUFFICES ASSUME IInv, Enqueue(w) PROVE Rest'
  OBVIOUS
<1> USE DEF IInv, Enqueue, Queue!DeviceInsert, Queue!With
<1>1. pc = "kernel"
  BY DEF Quiet, Nobody
<1>2. \A v \in Vertices : output'[v] + won'[v] = output[v] + won[v]
  BY DEF TypeOK
<1>3. EnqueuedOnce'
  BY <1>2 DEF EnqueuedOnce
<1>4. Quiet'
  BY <1>1 DEF Quiet, Queue!Count, Queue!Slots
<1>5. Bounded' /\ Relaxed'
  BY DEF Bounded, Relaxed
<1>6. Justified'
  BY DEF Justified
<1> QED BY <1>3, <1>4, <1>5, <1>6 DEF Rest

\* The level rises when the threads are through and the next frontier is the
\* input of the queue.
LEMMA RaiseLevel ==
  ASSUME IInv, pc = "kernel", visiting = NoThread,
         pc' = "loop", current_level' = current_level + 1,
         UNCHANGED <<arcs, distances, bfs_source, visiting>>,
         \A v \in Vertices : input'[v] = IF distances[v] = current_level THEN 1 ELSE 0,
         output' = Nobody, won' = Nobody, size' = Queue!Count(input)'
  PROVE  Rest'
<1> USE BFSAssumption DEF IInv
<1>1. \A v \in Vertices : /\ distances[v] # INF => distances[v] <= current_level
                          /\ distances[v] \in Distance
                          /\ current_level \in Nat \ {0}
  BY DEF Bounded, TypeOK
<1>2. \A u, v \in Vertices : visiting[<<u, v>>] = 0
  BY DEF NoThread, Edges
<1>3. EnqueuedOnce'
  <2>1. \A v \in Vertices : distances[v] # current_level + 1
    BY <1>1 DEF Distance
  <2>2. (current_level + 1) - 1 = current_level
    BY DEF TypeOK
  <2> QED BY <2>1, <2>2 DEF EnqueuedOnce, Nobody
<1>4. Quiet'
  BY DEF Quiet, Queue!Count, Queue!Slots, Nobody
<1>5. Bounded'
  <2>1. \A v \in Vertices : distances[v] # INF => distances[v] <= current_level + 1
    BY <1>1 DEF Distance
  <2> QED BY <2>1 DEF Bounded
<1>6. Relaxed'
  <2>1. ASSUME NEW u \in Vertices, NEW v \in Vertices, arcs[<<u, v>>] > 0,
               distances[u] # INF, distances[u] < current_level
        PROVE  distances[v] # INF /\ distances[v] <= distances[u] + 1
    <3>1. CASE distances[u] = current_level - 1
      <4>1. distances[v] # INF
        BY <1>2, <2>1, <3>1 DEF Relaxed
      <4> QED BY <1>1, <3>1, <4>1 DEF Distance
    <3>2. CASE distances[u] < current_level - 1
      BY <2>1, <3>2 DEF Relaxed
    <3> QED BY <1>1, <2>1, <3>1, <3>2 DEF Distance
  <2>2. (current_level + 1) - 1 = current_level
    BY DEF TypeOK
  <2> QED BY <2>1, <2>2 DEF Relaxed
<1>7. Justified'
  <2>1. /\ \A u, v \in Vertices :
             visiting'[<<u, v>>] > 0 => arcs'[<<u, v>>] > 0 /\ input'[u] > 0
        /\ visiting' = NoThread
    BY <1>2
  <2>2. \A v \in Vertices : distances'[v] \notin {0, INF} =>
          \E u \in Vertices : /\ arcs'[<<u, v>>] > 0
                              /\ distances'[u] # INF
                              /\ distances'[u] + 1 = distances'[v]
    <3>1. arcs' = arcs /\ distances' = distances
      OBVIOUS
    <3> QED BY <3>1 DEF Justified
  <2> QED BY ONLY <2>1, <2>2 DEF Justified, NoThread
<1> QED BY <1>3, <1>4, <1>5, <1>6, <1>7 DEF Rest

LEMMA NextLevelStep == IInv /\ NextLevel => Rest'
<1> SUFFICES ASSUME IInv, NextLevel PROVE Rest'
  OBVIOUS
<1> USE DEF NextLevel, Queue!Swap, Queue!Empty
<1>1. \A v \in Vertices : output[v] = IF distances[v] = current_level THEN 1 ELSE 0
  BY DEF IInv, EnqueuedOnce, Nobody, TypeOK
<1>2. size' = Queue!Count(input)' /\ output' = Nobody /\ won' = Nobody
  BY DEF Nobody, Queue!Count, Queue!Slots
<1>3. \A v \in Vertices : input'[v] = IF distances[v] = current_level THEN 1 ELSE 0
  BY <1>1
<1> QED BY <1>2, <1>3, RaiseLevel

LEMMA FinishStep == IInv /\ Finish => Rest'
<1> SUFFICES ASSUME IInv, Finish PROVE Rest'
  OBVIOUS
<1> USE DEF IInv, Finish, queue
<1>1. input = Nobody
  <2>1. input \in Buffers /\ Queue!Count(input) = 0
    BY DEF TypeOK, Buffers, Quiet
  <2> QED BY <2>1, CountIsZero
<1>2. \A v \in Vertices : input[v] = 0
  BY <1>1 DEF Nobody
<1>3. \A v \in Vertices : distances[v] # current_level - 1
  BY <1>2 DEF EnqueuedOnce
<1>4. EnqueuedOnce'
  BY <1>2 DEF EnqueuedOnce
<1>5. Quiet'
  BY DEF Quiet, Queue!Count, Queue!Slots
<1>6. Bounded' /\ Relaxed'
  BY <1>3 DEF Bounded, Relaxed
<1>7. Justified'
  BY DEF Justified
<1> QED BY <1>4, <1>5, <1>6, <1>7 DEF Rest

LEMMA NextIInv == IInv /\ [Next]_vars => IInv'
<1> SUFFICES ASSUME IInv, [Next]_vars PROVE IInv'
  OBVIOUS
<1>1. TypeOK'
  BY TypeStep DEF IInv
<1>2. Rest'
  <2>1. CASE Reset
    BY <2>1, ResetStep
  <2>2. CASE \E s \in Vertices : SetParameters(s)
    BY <2>2, SetParametersStep
  <2>3. CASE Launch
    BY <2>3, LaunchStep
  <2>4. CASE \E e \in Edges : Discover(e) \/ Skip(e)
    BY <2>4, DiscoverStep, SkipStep
  <2>5. CASE \E v \in Vertices : Enqueue(v)
    BY <2>5, EnqueueStep
  <2>6. CASE NextLevel
    BY <2>6, NextLevelStep
  <2>7. CASE Finish
    BY <2>7, FinishStep
  <2>8. CASE UNCHANGED vars
    BY <2>8 DEF vars, queue, IInv, Rest, EnqueuedOnce, Quiet, Bounded, Relaxed,
                Justified, Queue!Count, Queue!Slots
  <2> QED BY <2>1, <2>2, <2>3, <2>4, <2>5, <2>6, <2>7, <2>8 DEF Next, Run
<1> QED BY <1>1, <1>2 DEF IInv, Rest

LEMMA InductiveInvariant == Spec => []IInv
BY InitIInv, NextIInv, PTL DEF Spec

-----------------------------------------------------------------------------
(* The theorems                                                            *)

\* However the threads of a kernel interleave, a vertex is enqueued once, into
\* the buffer of its level, and a buffer holds exactly the vertices of a level.
THEOREM VerticesEnqueuedOnce == Spec => [](TypeOK /\ EnqueuedOnce)
<1>1. IInv => TypeOK /\ EnqueuedOnce
  BY DEF IInv
<1> QED BY <1>1, InductiveInvariant, PTL

LEMMA IInvExact == IInv => DistancesExact
<1> SUFFICES ASSUME IInv, pc = "done" PROVE DistancesExact
  BY DEF DistancesExact
<1>1. ASSUME NEW u \in Vertices, distances[u] # INF
      PROVE  distances[u] < current_level - 1
  <2>1. output[u] = 0 /\ won[u] = 0
    BY DEF IInv, Quiet, Nobody
  <2>2. distances[u] # current_level /\ distances[u] # current_level - 1
    BY <2>1 DEF IInv, EnqueuedOnce, Bounded, TypeOK
  <2> QED BY <1>1, <2>2 DEF IInv, Bounded, TypeOK, Distance
<1> QED BY <1>1 DEF IInv, DistancesExact, Bounded, Relaxed, Justified

\* A finished run leaves the distances of shortest paths from its source.
THEOREM DistancesAreExact == Spec => []DistancesExact
BY IInvExact, InductiveInvariant, PTL

-----------------------------------------------------------------------------
(* Refinement                                                              *)

LEMMA InitSearch == Init => Search!Init
BY BFSAssumption DEF Init, Search!Init, Search!Unlabelled, Labels

\* When the threads of a level are through, its vertices are those that an edge
\* out of the frontier reaches.
LEMMA LevelComplete ==
  ASSUME IInv, pc = "kernel", visiting = NoThread
  PROVE  /\ Search!Frontier # {}
         /\ distances = [v \in Vertices |->
                            IF Labels[v] = INF /\ v \in Search!Reached
                            THEN current_level ELSE Labels[v]]
<1> USE DEF IInv
<1>0. /\ \A v \in Vertices : distances[v] \in Distance
      /\ current_level \in Nat \ {0}
      /\ \A v \in Vertices :
           Labels[v] = IF distances[v] = current_level THEN INF ELSE distances[v]
  BY DEF TypeOK, Labels
<1>1. \A u, v \in Vertices : visiting[<<u, v>>] = 0
  BY DEF NoThread, Edges
<1>2. Search!Frontier # {}
  <2>1. input \in Buffers /\ input # Nobody
    BY CountIsZero DEF TypeOK, Buffers, Quiet
  <2>2. PICK v \in Vertices : input[v] # 0
    BY <2>1 DEF Buffers, Nobody
  <2>3. distances[v] = current_level - 1
    BY <2>2 DEF EnqueuedOnce
  <2>4. Labels[v] = current_level - 1
    BY <1>0, <2>3
  <2> QED BY <2>4 DEF Search!Frontier
<1>3. ASSUME NEW v \in Vertices
      PROVE  distances[v] = IF Labels[v] = INF /\ v \in Search!Reached
                            THEN current_level ELSE Labels[v]
  <2>1. CASE distances[v] = current_level
    <3>1. PICK u \in Vertices : /\ arcs[<<u, v>>] > 0
                                /\ distances[u] # INF
                                /\ distances[u] + 1 = current_level
      BY <1>0, <2>1, BFSAssumption DEF Justified
    <3>2. Labels[u] = current_level - 1
      BY <1>0, <3>1 DEF Distance
    <3>3. v \in Search!Reached
      BY <3>1, <3>2 DEF Search!Reached, Search!Frontier
    <3> QED BY <1>0, <2>1, <3>3
  <2>2. CASE distances[v] = INF
    <3>1. ASSUME v \in Search!Reached PROVE FALSE
      <4>1. PICK u \in Vertices : Labels[u] = current_level - 1 /\ arcs[<<u, v>>] > 0
        BY <3>1 DEF Search!Reached, Search!Frontier
      <4>2. distances[u] = current_level - 1
        BY <1>0, <4>1, BFSAssumption
      <4> QED BY <1>1, <2>2, <4>1, <4>2 DEF Relaxed
    <3>2. Labels[v] = INF
      BY <1>0, <2>2
    <3> QED BY <2>2, <3>1, <3>2
  <2>3. CASE distances[v] # current_level /\ distances[v] # INF
    BY <1>0, <2>3
  <2> QED BY <2>1, <2>2, <2>3
<1>4. distances = [v \in Vertices |-> IF Labels[v] = INF /\ v \in Search!Reached
                                       THEN current_level ELSE Labels[v]]
  BY <1>3 DEF TypeOK
<1> QED BY <1>2, <1>4

LEMMA StepSearch == IInv /\ IInv' /\ [Next]_vars =>
                      [Search!Next]_<<arcs, Labels, current_level,
                           IF pc \in {"loop", "kernel"} THEN "search" ELSE pc>>
<1> SUFFICES ASSUME IInv, IInv', [Next]_vars
             PROVE  [Search!Next]_<<arcs, Labels, current_level,
                           IF pc \in {"loop", "kernel"} THEN "search" ELSE pc>>
  OBVIOUS
<1> USE DEF IInv, queue
<1>0. /\ \A v \in Vertices : distances[v] \in Distance
      /\ current_level \in Nat \ {0}
      /\ \A v \in Vertices :
           Labels[v] = IF pc = "kernel" /\ distances[v] = current_level
                       THEN INF ELSE distances[v]
  BY DEF TypeOK, Labels
<1>a. pc # "kernel" => \A v \in Vertices : distances[v] # current_level
  BY DEF EnqueuedOnce, Quiet, Nobody
<1>b. (pc # "kernel" => Labels = distances) /\ (pc' # "kernel" => Labels' = distances')
  BY DEF Labels, TypeOK
<1>1. CASE Reset
  <2>1. Search!Restart
    BY <1>1, <1>b DEF Reset, Search!Restart, Search!Unlabelled
  <2> QED BY <2>1 DEF Search!Next
<1>2. CASE \E s \in Vertices : SetParameters(s)
  <2>1. PICK s \in Vertices : SetParameters(s)
    BY <1>2
  <2>2. Search!Start(s)
    BY <2>1, <1>b DEF SetParameters, Search!Start
  <2> QED BY <2>2 DEF Search!Next
<1>3. CASE Launch
  BY <1>3, <1>a DEF Launch, Labels
<1>4. CASE \E e \in Edges : Discover(e)
  <2>1. PICK e \in Edges : Discover(e)
    BY <1>4
  <2>2. pc = "kernel" /\ e[2] \in Vertices
    BY <2>1, Ends DEF Discover, Quiet, NoThread
  <2>3. \A v \in Vertices :
          distances'[v] = IF v = e[2] THEN current_level ELSE distances[v]
    BY <2>1, <2>2 DEF Discover, TypeOK
  <2>4. Labels' = Labels
    BY <2>1, <2>2, <2>3 DEF Discover, Labels
  <2> QED BY <2>1, <2>4 DEF Discover
<1>5. CASE \E e \in Edges : Skip(e)
  BY <1>5 DEF Skip, Labels
<1>6. CASE \E v \in Vertices : Enqueue(v)
  BY <1>6 DEF Enqueue, Labels
<1>7. CASE NextLevel
  <2>1. pc = "kernel" /\ visiting = NoThread /\ pc' = "loop" /\ Labels' = distances
    BY <1>7, <1>b DEF NextLevel
  <2>2. Search!Step
    BY <1>7, <2>1, LevelComplete DEF NextLevel, Search!Step
  <2> QED BY <2>2 DEF Search!Next
<1>8. CASE Finish
  <2>1. \A v \in Vertices : distances[v] # current_level - 1
    BY <1>8 DEF Finish, Bounded
  <2>2. Search!Frontier = {}
    BY <1>8, <1>b, <2>1 DEF Finish, Search!Frontier
  <2>3. Search!Stop
    BY <1>8, <1>b, <2>2 DEF Finish, Search!Stop
  <2> QED BY <2>3 DEF Search!Next
<1>9. CASE UNCHANGED vars
  BY <1>9 DEF vars, Labels
<1> QED BY <1>1, <1>2, <1>3, <1>4, <1>5, <1>6, <1>7, <1>8, <1>9 DEF Next, Run

\* Whatever the threads do within a kernel, the host sees a search that labels
\* a whole level at a time.
THEOREM SearchIsImplemented == Spec => ImplementsSearch
<1>1. Init => Search!Init
  BY InitSearch
<1> QED BY <1>1, StepSearch, InductiveInvariant, PTL DEF Spec, ImplementsSearch, Search!Spec

-----------------------------------------------------------------------------
(* The inductive invariant of a run that changes directions                *)

\* queue_inf has exactly the vertices without a label before they are searched
\* from the bottom up, and when the next level is to be, too; before they are
\* sorted it has those that this level has labelled as well.
Directions ==
    /\ bottom \in {"none", "label", "split"}
    /\ infIn \in [Vertices -> Nat]
    /\ infOut = Nobody
    /\ bottom = "label" => pc = "loop" /\ size > 0
    /\ bottom = "split" => pc = "kernel" /\ visiting = NoThread /\ output = Nobody
    /\ bottom = "label" \/ (bottom = "none" /\ pc = "loop" /\ bu_flag) =>
         \A v \in Vertices : infIn[v] = IF distances[v] = INF THEN 1 ELSE 0
    /\ bottom = "split" =>
         \A v \in Vertices :
           infIn[v] = IF distances[v] \in {INF, current_level} THEN 1 ELSE 0

LEMMA InitDirections == InitBU => Directions
BY DEF InitBU, Init, QueueInf!Init, QueueInf!Empty, Directions, Nobody

\* No vertex has the label of a level that is not begun.
LEMMA NotYet == ASSUME IInv, pc # "kernel"
                PROVE  \A v \in Vertices : distances[v] # current_level
BY DEF IInv, EnqueuedOnce, Quiet, Nobody

-----------------------------------------------------------------------------
(* The kernels of a bottom-up level                                        *)

LEMMA LabelStep == IInv /\ Directions /\ Label => IInv' /\ Directions'
<1> SUFFICES ASSUME IInv, Directions, Label PROVE IInv' /\ Directions'
  OBVIOUS
<1> USE BFSAssumption DEF IInv, Label, queue, queue_inf
<1>1. /\ pc = "loop" /\ size > 0 /\ visiting = NoThread /\ output = Nobody /\ won = Nobody
      /\ \A v \in Vertices : infIn[v] = IF distances[v] = INF THEN 1 ELSE 0
  BY DEF Directions, Quiet
<1>2. /\ \A v \in Vertices : distances[v] # current_level /\ distances[v] \in Distance
      /\ current_level \in Nat \ {0} /\ INF \notin Nat
  BY <1>1, NotYet DEF TypeOK
<1>3. /\ \A v \in Vertices :
           v \in Found <=> /\ distances[v] = INF
                           /\ \E u \in Vertices : /\ arcs[<<u, v>>] > 0
                                                  /\ distances[u] = current_level - 1
      /\ \A v \in Vertices :
           distances'[v] = IF v \in Found THEN current_level ELSE distances[v]
      /\ \A v \in Vertices : won'[v] = IF v \in Found THEN 1 ELSE 0
  <2>1. \A v \in Vertices : infIn[v] > 0 <=> distances[v] = INF
    BY <1>1
  <2>2. \A v \in Vertices :
          v \in Found <=> /\ distances[v] = INF
                          /\ \E u \in Vertices : /\ arcs[<<u, v>>] > 0
                                                 /\ distances[u] = current_level - 1
    BY <2>1 DEF Found
  <2> HIDE DEF Found
  <2> QED BY <2>2
<1>4. TypeOK'
  BY <1>2 DEF TypeOK, Distance
<1>5. EnqueuedOnce'
  <2>1. \A v \in Vertices : input[v] = IF distances[v] = current_level - 1 THEN 1 ELSE 0
    BY <1>1 DEF EnqueuedOnce
  <2>2. \A v \in Vertices : distances'[v] = current_level - 1 <=> distances[v] = current_level - 1
    BY <1>2, <1>3
  <2>3. \A v \in Vertices : output[v] = 0
    BY <1>1 DEF Nobody
  <2>4. \A v \in Vertices : distances'[v] = current_level <=> v \in Found
    BY <1>2, <1>3
  <2> QED BY <1>3, <2>1, <2>2, <2>3, <2>4 DEF EnqueuedOnce
<1>6. Quiet'
  BY <1>1 DEF Quiet, Queue!Count, Queue!Slots
<1>7. Bounded'
  BY <1>1, <1>2, <1>3 DEF Bounded, Distance
<1>8. Relaxed'
  <2>1. ASSUME NEW u \in Vertices, NEW v \in Vertices, arcs[<<u, v>>] > 0,
               distances'[u] # INF, distances'[u] < current_level - 1
        PROVE  distances'[v] # INF /\ distances'[v] <= distances'[u] + 1
    <3>1. distances'[u] = distances[u]
      BY <1>2, <1>3, <2>1
    <3>2. distances[v] # INF /\ distances[v] <= distances[u] + 1
      BY <2>1, <3>1 DEF Relaxed
    <3> QED BY <1>3, <3>1, <3>2
  <2>2. ASSUME NEW u \in Vertices, NEW v \in Vertices, arcs[<<u, v>>] > 0,
               distances'[u] = current_level - 1
        PROVE  distances'[v] # INF
    <3>1. distances[u] = current_level - 1
      BY <1>2, <1>3, <2>2
    <3> QED BY <1>2, <1>3, <2>2, <3>1
  <2> QED BY <2>1, <2>2 DEF Relaxed
<1>9. Justified'
  <2>1. ASSUME NEW v \in Vertices, distances'[v] \notin {0, INF}
        PROVE  \E u \in Vertices : /\ arcs[<<u, v>>] > 0
                                   /\ distances'[u] # INF
                                   /\ distances'[u] + 1 = distances'[v]
    <3>1. \E u \in Vertices : /\ arcs[<<u, v>>] > 0
                              /\ distances[u] # INF
                              /\ distances[u] + 1 = distances'[v]
      <4>1. CASE v \in Found
        <5>1. PICK u \in Vertices : arcs[<<u, v>>] > 0 /\ distances[u] = current_level - 1
          BY <1>3, <4>1
        <5>2. distances[u] # INF /\ distances[u] + 1 = distances'[v]
          BY <1>2, <1>3, <4>1, <5>1
        <5> QED BY <5>1, <5>2
      <4>2. CASE v \notin Found
        <5>1. distances'[v] = distances[v]
          BY <1>3, <4>2
        <5> QED BY <2>1, <5>1 DEF Justified
      <4> QED BY <4>1, <4>2
    <3> PICK u \in Vertices : /\ arcs[<<u, v>>] > 0
                              /\ distances[u] # INF
                              /\ distances[u] + 1 = distances'[v]
      BY <3>1
    <3>2. distances'[u] = distances[u]
      BY <1>3
    <3> QED BY <3>2
  <2>2. \A u, v \in Vertices : visiting'[<<u, v>>] = 0
    BY <1>1 DEF NoThread, Edges
  <2> QED BY <1>1, <2>1, <2>2 DEF Justified
<1>10. Directions'
  <2>1. \A v \in Vertices : distances'[v] \in {INF, current_level} <=> distances[v] = INF
    BY <1>2, <1>3
  <2> QED BY <1>1, <2>1 DEF Directions
<1> QED BY <1>4, <1>5, <1>6, <1>7, <1>8, <1>9, <1>10

LEMMA SplitStep == IInv /\ Directions /\ Split => IInv' /\ Directions'
<1> SUFFICES ASSUME IInv, Directions, Split PROVE IInv' /\ Directions'
  OBVIOUS
<1> USE BFSAssumption DEF Split, Queue!AppendAndSwap, QueueInf!AppendAndSwap,
                          Queue!Empty, QueueInf!Empty
<1>1. /\ pc = "kernel" /\ visiting = NoThread /\ output = Nobody /\ infOut = Nobody
      /\ \A v \in Vertices :
           infIn[v] = IF distances[v] \in {INF, current_level} THEN 1 ELSE 0
  BY DEF Directions
<1>2. /\ \A v \in Vertices : distances[v] \in Distance
      /\ current_level \in Nat \ {0} /\ current_level # INF
  BY DEF IInv, TypeOK
<1>3. /\ input' \in Buffers
      /\ \A v \in Vertices : input'[v] = IF distances[v] = current_level THEN 1 ELSE 0
  BY <1>1 DEF Nobody, Buffers
<1>4. output' = Nobody /\ won' = Nobody /\ size' = Queue!Count(input)'
  BY DEF Nobody, Queue!Count, Queue!Slots
<1>5. Rest'
  BY <1>1, <1>3, <1>4, RaiseLevel
<1>6. TypeOK'
  <2>1. size' \in Nat
    BY <1>3, CountIsZero
  <2>2. output' \in [Vertices -> Nat] /\ won' \in [Vertices -> Nat]
    BY <1>4 DEF Nobody
  <2> QED BY <1>2, <1>3, <2>1, <2>2 DEF IInv, TypeOK, Buffers
<1>7. Directions'
  <2>1. \A v \in Vertices : infIn'[v] = IF distances[v] = INF THEN 1 ELSE 0
    BY <1>1, <1>2 DEF Nobody
  <2>2. infIn' \in [Vertices -> Nat] /\ infOut' = Nobody
    BY <1>1 DEF Nobody
  <2> QED BY <2>1, <2>2 DEF Directions
<1> QED BY <1>5, <1>6, <1>7 DEF IInv, Rest

-----------------------------------------------------------------------------
(* All steps                                                               *)

\* What the two directions share.
TopDownStep == \/ ResetBU
               \/ \E s \in Vertices : SetParametersBU(s)
               \/ LaunchBU \/ Threads \/ NextLevelBU \/ FinishBU
               \/ Collect \/ UNCHANGED varsBU

LEMMA StepOfTopDown == TopDownStep => [Next]_vars
BY DEF TopDownStep, ResetBU, SetParametersBU, LaunchBU, Threads, NextLevelBU, FinishBU,
       Collect, varsBU, Next, Run

LEMMA DirectionsStep == IInv /\ Directions /\ TopDownStep => Directions'
<1> SUFFICES ASSUME IInv, Directions, TopDownStep PROVE Directions'
  OBVIOUS
<1> USE DEF Directions, directions, queue_inf
<1>1. CASE ResetBU
  <2>1. bottom = "none"
    BY <1>1 DEF ResetBU, Reset
  <2> QED BY <1>1, <2>1 DEF ResetBU, Reset
<1>2. CASE \E s \in Vertices : SetParametersBU(s)
  <2>1. bottom = "none"
    BY <1>2 DEF SetParametersBU, SetParameters
  <2> QED BY <1>2, <2>1 DEF SetParametersBU, SetParameters
<1>3. CASE LaunchBU
  BY <1>3 DEF LaunchBU, Launch
<1>4. CASE Threads
  <2>1. pc = "kernel"
    BY <1>4, Ends DEF Threads, Discover, Skip, Enqueue, IInv, Quiet, NoThread, Nobody
  <2>2. pc' = pc
    BY <1>4 DEF Threads, Discover, Skip, Enqueue
  <2> QED BY <1>4, <2>1, <2>2 DEF Threads
<1>5. CASE NextLevelBU
  BY <1>5 DEF NextLevelBU, NextLevel
<1>6. CASE FinishBU
  BY <1>6 DEF FinishBU, Finish
<1>7. CASE Collect
  <2>1. bottom' = "label" /\ UNCHANGED vars /\ pc = "loop" /\ size > 0 /\ bottom = "none"
    BY <1>7 DEF Collect
  <2>2. \A v \in Vertices : infIn'[v] = IF distances[v] = INF THEN 1 ELSE 0
    <3>1. CASE bu_flag
      BY <1>7, <2>1, <3>1 DEF Collect
    <3>2. CASE ~bu_flag
      BY <1>7, <3>2 DEF Collect, QueueInf!AppendAndSwap, Nobody
    <3> QED BY <3>1, <3>2
  <2>3. infIn' \in [Vertices -> Nat] /\ infOut' = Nobody
    BY <1>7 DEF Collect, QueueInf!AppendAndSwap, QueueInf!Empty, Nobody
  <2> QED BY <2>1, <2>2, <2>3 DEF vars, queue
<1>8. CASE UNCHANGED varsBU
  BY <1>8 DEF varsBU, vars, queue
<1> QED BY <1>1, <1>2, <1>3, <1>4, <1>5, <1>6, <1>7, <1>8 DEF TopDownStep

LEMMA NextCases == [NextBU]_varsBU => TopDownStep \/ Label \/ Split
BY DEF NextBU, RunBU, TopDownStep

LEMMA NextBoth == IInv /\ Directions /\ [NextBU]_varsBU => IInv' /\ Directions'
BY NextCases, StepOfTopDown, NextIInv, DirectionsStep, LabelStep, SplitStep

LEMMA BothDirections == SpecBU => [](IInv /\ Directions)
<1>1. InitBU => IInv /\ Directions
  BY InitIInv, InitDirections DEF InitBU
<1> QED BY <1>1, NextBoth, PTL DEF SpecBU

-----------------------------------------------------------------------------
(* The theorems                                                            *)

\* In whichever directions the levels of a run are taken, a vertex is enqueued
\* once, in the buffer of its level.
THEOREM VerticesEnqueuedOnceBU == SpecBU => [](TypeOK /\ EnqueuedOnce)
<1>1. IInv => TypeOK /\ EnqueuedOnce
  BY DEF IInv
<1> QED BY <1>1, BothDirections, PTL

\* A finished run leaves the distances of shortest paths, although what queue_inf
\* keeps from one level to the next is only sometimes filled anew.
THEOREM DistancesAreExactBU == SpecBU => []DistancesExact
<1>1. IInv => DistancesExact
  BY IInvExact
<1> QED BY <1>1, BothDirections, PTL

-----------------------------------------------------------------------------
(* Refinement                                                              *)

phase == IF pc \in {"loop", "kernel"} THEN "search" ELSE pc

LEMMA StepBothWays == /\ IInv /\ IInv' /\ Directions /\ [NextBU]_varsBU
                      => [Search!Next]_<<arcs, Labels, current_level, phase>>
<1> SUFFICES ASSUME IInv, IInv', Directions, [NextBU]_varsBU
             PROVE  [Search!Next]_<<arcs, Labels, current_level, phase>>
  OBVIOUS
<1>1. CASE TopDownStep
  BY <1>1, StepOfTopDown, StepSearch DEF phase
<1>2. CASE Label
  <2>1. /\ pc = "loop" /\ pc' = "kernel" /\ UNCHANGED <<arcs, current_level>>
    BY <1>2 DEF Label, Directions
  <2>2. \A v \in Vertices : /\ distances[v] # current_level
                            /\ v \in Found => distances[v] = INF
                            /\ distances'[v] = IF v \in Found THEN current_level
                                                              ELSE distances[v]
    BY <1>2, <2>1, NotYet DEF Label, Found
  <2>3. Labels = [v \in Vertices |-> distances[v]]
    BY <2>1 DEF Labels
  <2>4. Labels' = [v \in Vertices |-> IF distances'[v] = current_level THEN INF
                                                                   ELSE distances'[v]]
    BY <2>1 DEF Labels
  <2>5. ASSUME NEW v \in Vertices
        PROVE  (IF distances'[v] = current_level THEN INF ELSE distances'[v]) = distances[v]
    <3>0. /\ distances[v] # current_level
          /\ v \in Found => distances[v] = INF /\ distances'[v] = current_level
          /\ v \notin Found => distances'[v] = distances[v]
      BY <2>2, <2>5
    <3>1. CASE v \in Found
      BY <3>0, <3>1
    <3>2. CASE v \notin Found
      BY <3>0, <3>2
    <3> QED BY <3>1, <3>2
  <2>6. Labels' = Labels
    BY <2>3, <2>4, <2>5
  <2> QED BY <2>1, <2>6 DEF phase
<1>3. CASE Split
  <2>1. /\ pc = "kernel" /\ visiting = NoThread /\ pc' = "loop"
        /\ current_level' = current_level + 1 /\ UNCHANGED <<arcs, distances>>
    BY <1>3 DEF Split, Directions
  <2>2. Labels' = distances
    <3>1. distances \in [Vertices -> Distance]
      BY DEF IInv, TypeOK
    <3>2. Labels' = [v \in Vertices |-> distances[v]]
      BY <2>1 DEF Labels
    <3> QED BY <3>1, <3>2
  <2>3. Search!Step
    BY <2>1, <2>2, LevelComplete DEF Search!Step
  <2> QED BY <2>3 DEF Search!Next
<1> QED BY <1>1, <1>2, <1>3, NextCases

\* Seen from the host, every level is one step of the search that labels a whole
\* level at once, whichever way it is taken.
THEOREM SearchIsImplementedBU == SpecBU => ImplementsSearch
<1>1. InitBU => Search!Init
  BY InitSearch DEF InitBU
<1> QED BY <1>1, StepBothWays, BothDirections, PTL
        DEF SpecBU, ImplementsSearch, Search!Spec, phase
=============================================================================
