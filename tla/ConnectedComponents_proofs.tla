--------------------- MODULE ConnectedComponents_proofs ---------------------
(***************************************************************************)
(* Theorems about ConnectedComponents, for every number of vertices and    *)
(* every set of undirected multigraphs: colours stay in their component,   *)
(* lost updates never lose the largest colour of a component, and a run    *)
(* that has ended has given two vertices the same colour exactly if they   *)
(* are connected.                                                          *)
(***************************************************************************)
EXTENDS ConnectedComponents, Enumeration

-----------------------------------------------------------------------------
(* Connected vertices                                                      *)

LEMMA ReachesItself == \A u : Connected(u, u)
BY DEF Connected

LEMMA ReachesNext == ASSUME NEW x, NEW u \in Vertices, NEW v \in Vertices,
                            Connected(x, u), arcs[<<u, v>>] > 0
                     PROVE  Connected(x, v)
BY DEF Connected, Closed

LEMMA ReachesOn == ASSUME NEW u, NEW v, NEW w, Connected(u, v), Connected(v, w)
                   PROVE  Connected(u, w)
BY DEF Connected

\* The vertices outside of a closed set are closed if the graph is undirected.
LEMMA ReachesBack == ASSUME arcs \in Graphs, NEW u \in Vertices, NEW v \in Vertices,
                            Connected(u, v)
                     PROVE  Connected(v, u)
<1> SUFFICES ASSUME NEW S \in SUBSET Vertices, v \in S, Closed(S), u \notin S
             PROVE  FALSE
  BY DEF Connected
<1>1. Closed(Vertices \ S)
  <2> SUFFICES ASSUME NEW x \in Vertices \ S, NEW y \in Vertices, arcs[<<x, y>>] > 0,
                      y \in S
               PROVE  FALSE
    BY DEF Closed
  <2>1. arcs[<<y, x>>] > 0
    BY CCAssumption
  <2> QED BY <2>1 DEF Closed
<1> QED BY <1>1 DEF Connected

\* The components are those of the graph, which does not change.
LEMMA SameComponents ==
    ASSUME arcs' = arcs
    PROVE  /\ \A u, v : Connected(u, v)' <=> Connected(u, v)
           /\ MaxDegreeId' = MaxDegreeId
           /\ \A c : Origin(c)' = Origin(c)
<1>1. \A u, v : Connected(u, v)' <=> Connected(u, v)
  BY DEF Connected, Closed
<1>2. MaxDegreeId' = MaxDegreeId
  BY DEF MaxDegreeId, Degree, OutEdges
<1>3. \A c : Origin(c)' = Origin(c)
  BY <1>2 DEF Origin
<1> QED BY <1>1, <1>2, <1>3

-----------------------------------------------------------------------------
(* The vertex of largest degree                                            *)

LEMMA VerticesType == IsFiniteSet(Vertices) /\ Vertices # {} /\ Vertices \subseteq Nat
<1>1. 0 \in Int /\ nV - 1 \in Int /\ 0 \in Vertices
  BY CCAssumption DEF Vertices
<1>2. IsFiniteSet(0 .. nV - 1)
  BY <1>1, FS_Interval
<1> QED BY <1>1, <1>2 DEF Vertices

LEMMA DegreeType == ASSUME arcs \in Graphs, NEW v \in Vertices
                    PROVE  IsFiniteSet(OutEdges(v)) /\ Degree(v) \in Nat
<1> DEFINE b == [w \in Vertices |-> arcs[<<v, w>>]]
<1>1. b \in [Vertices -> Nat]
  BY CCAssumption DEF Edges
<1>2. IsFiniteSet(Vertices)
  BY VerticesType
<1>3. OutEdges(v) = Filled(Vertices, b)
  BY DEF OutEdges, Filled
<1> HIDE DEF b
<1>4. IsFiniteSet(OutEdges(v))
  BY <1>1, <1>2, <1>3, FilledFinite
<1> QED BY <1>4, FS_CardinalityType DEF Degree

LEMMA MaxDegreeType == ASSUME arcs \in Graphs PROVE MaxDegreeId \in Vertices
<1> DEFINE Parts == {OutEdges(v) : v \in Vertices}
           n == Cardinality(UNION Parts)
           D == {Degree(v) : v \in Vertices}
<1>1. IsFiniteSet(Vertices) /\ Vertices # {} /\ Vertices \subseteq Nat
  BY VerticesType
<1>2. IsFiniteSet(UNION Parts)
  <2>1. [v \in Vertices |-> OutEdges(v)] \in Surjection(Vertices, Parts)
    BY DEF Surjection
  <2>2. IsFiniteSet(Parts)
    BY <1>1, <2>1, FS_Surjection
  <2>3. \A P \in Parts : IsFiniteSet(P)
    BY DegreeType
  <2> HIDE DEF Parts
  <2> QED BY <2>2, <2>3, FS_UNION
<1>3. n \in Nat /\ D \in SUBSET Nat /\ D # {}
  BY <1>1, <1>2, DegreeType, FS_CardinalityType
<1>4. \A d \in D : d <= n
  <2>1. ASSUME NEW v \in Vertices PROVE Degree(v) <= n
    <3>1. OutEdges(v) \subseteq UNION Parts
      OBVIOUS
    <3> HIDE DEF Parts
    <3> QED BY <1>2, <3>1, FS_Subset DEF Degree
  <2> QED BY <2>1
<1>5. PICK d \in D : \A k \in D : k <= d
  <2> HIDE DEF D, n
  <2> QED BY <1>3, <1>4, GreatestElement
<1> DEFINE T == {v \in Vertices : Degree(v) = d}
<1>6. PICK v \in T : \A w \in T : v <= w
  <2>1. T \in SUBSET Nat /\ T # {}
    BY <1>1, <1>5
  <2> HIDE DEF T
  <2> QED BY <2>1, LeastElement
<1>7. \A w \in Vertices : Degree(w) <= Degree(v) /\ (w < v => Degree(w) < Degree(v))
  <2> SUFFICES ASSUME NEW w \in Vertices
               PROVE  Degree(w) <= Degree(v) /\ (w < v => Degree(w) < Degree(v))
    OBVIOUS
  <2>1. Degree(v) = d /\ Degree(w) <= d /\ Degree(w) \in Nat /\ d \in Nat
    BY <1>3, <1>5, <1>6, DegreeType
  <2>2. Degree(w) = d => v <= w
    BY <1>6
  <2>3. v \in Nat /\ w \in Nat
    BY <1>1, <1>6
  <2> QED BY <2>1, <2>2, <2>3
<1>8. v \in Vertices
  BY <1>6
<1> HIDE DEF T, D, Parts, n
<1> QED BY <1>7, <1>8, Zenon DEF MaxDegreeId

-----------------------------------------------------------------------------
(* The queues                                                              *)

NoPair == [p \in Pairs |-> 0]

\* A device counter is zero exactly if nothing is in its buffer.
LEMMA CountIsZero == ASSUME NEW b \in [Vertices -> Nat]
                     PROVE  /\ Queue!Count(b) \in Nat
                            /\ Queue!Count(b) = 0 <=> b = Nobody
<1>1. Queue!Count(b) = Cardinality(Filled(Vertices, b))
  BY DEF Queue!Count, Queue!Slots, Queue!Cardinality, Cardinality, Filled
<1> QED BY <1>1, FilledIsZero, VerticesType DEF Nobody

LEMMA CountOfWith == ASSUME NEW b \in [Vertices -> Nat], NEW v \in Vertices
                     PROVE  Queue!Count(Queue!With(b, v)) = Queue!Count(b) + 1
<1>1. \A c : Queue!Count(c) = Cardinality(Filled(Vertices, c))
  BY DEF Queue!Count, Queue!Slots, Queue!Cardinality, Cardinality, Filled
<1> QED BY <1>1, FilledByOne, VerticesType DEF Queue!With

LEMMA PairCountIsZero == ASSUME NEW b \in [Pairs -> Nat]
                         PROVE  /\ PairQueue!Count(b) \in Nat
                                /\ PairQueue!Count(b) = 0 <=> b = NoPair
<1>1. PairQueue!Count(b) = Cardinality(Filled(Pairs, b))
  BY DEF PairQueue!Count, PairQueue!Slots, PairQueue!Cardinality, Cardinality,
         Filled
<1>2. IsFiniteSet(Edges)
  BY VerticesType, FS_Product DEF Edges
<1>3. IsFiniteSet(Pairs)
  BY <1>2, FS_Subset DEF Pairs
<1> QED BY <1>1, <1>3, FilledIsZero DEF NoPair

LEMMA PairTypes == \A p \in Pairs : /\ p \in Edges /\ p[1] \in Vertices
                                    /\ p[2] \in Vertices /\ p = <<p[1], p[2]>>
BY DEF Pairs, Edges

\* A thread per item and edge: there is one exactly if both are there.
LEMMA Product == ASSUME NEW a \in Nat, NEW b \in Nat
                 PROVE  a * b \in Nat /\ (a * b > 0 <=> a > 0 /\ b > 0)
OBVIOUS

-----------------------------------------------------------------------------
(* The inductive invariant                                                 *)

Traversing == pc \in {"giant", "giantKernel"}
Coloring   == pc \in {"color", "colorKernel", "continue"}

\* Where no kernel runs no thread is left and nothing waits in an output buffer.
Quiet == /\ pc # "giantKernel" => /\ visiting = NoThread
                                  /\ marking = Nobody
                                  /\ output = Nobody
         /\ pc # "colorKernel" => reading = {} /\ writing = {}
         /\ pairOut = NoPair
         /\ pc = "ready" => input = Nobody /\ \A v \in Vertices : colors[v] = NO_COLOR
         /\ pc \in {"giant", "pairs"} => size = Queue!Count(input)
         /\ pc \in {"color", "colorKernel", "continue"} => pairs = PairQueue!Count(pairIn)
         /\ pc \in {"colorKernel", "continue"} => outdated

\* The traversal gives out one colour; the rest of a run has given all.
Colored == /\ Traversing => \A v \in Vertices : colors[v] \in {NO_COLOR, FIRST_COLOR}
           /\ pc = "pairs" \/ Coloring \/ pc = "done" =>
                \A v \in Vertices : colors[v] \in Color

\* The traversal enqueues and marks vertices of one component ...
Inside == Traversing =>
            /\ \A v \in Vertices : input[v] > 0 \/ output[v] > 0 \/ marking[v] > 0
                                     => Connected(MaxDegreeId, v)
            /\ \A e \in Edges : visiting[e] > 0 => Connected(MaxDegreeId, e[2])

\* ... and forgets no edge that leads to a vertex without a colour.
Pending(e) == \/ pc = "giant" /\ input[e[1]] > 0
              \/ visiting[e] > 0
              \/ marking[e[2]] > 0
              \/ output[e[1]] > 0

Frontier == Traversing =>
              \A e \in Edges : arcs[e] > 0 /\ colors[e[1]] = FIRST_COLOR
                               /\ colors[e[2]] = NO_COLOR => Pending(e)

\* After it no edge leads from the first colour to another one.
FirstClosed == pc = "pairs" \/ Coloring \/ pc = "done" =>
                 \A e \in Edges : arcs[e] > 0 =>
                   (colors[e[1]] = FIRST_COLOR <=> colors[e[2]] = FIRST_COLOR)

\* The queues hold the other vertices, each with its own colour, and their pairs.
Queued == /\ pc = "pairs" => \A v \in Vertices :
               /\ input[v] > 0 <=> colors[v] # FIRST_COLOR
               /\ colors[v] # FIRST_COLOR => colors[v] = v + 1
          /\ Coloring => \A p \in Pairs :
               pairIn[p] > 0 <=> arcs[p] > 0 /\ colors[p[1]] # FIRST_COLOR

\* A vertex that is the largest of a component other than the first.
Top(v) == \A u \in Vertices : Connected(v, u) => colors[u] # FIRST_COLOR /\ u <= v

\* A thread joins adjacent other vertices, and is not about to overwrite the
\* largest colour of a component.
Threads ==
    /\ \A s \in reading : arcs[s[1]] > 0 /\ colors[s[1][1]] # FIRST_COLOR
    /\ \A w \in writing : /\ arcs[<<w.from, w.to>>] > 0
                          /\ colors[w.from] # FIRST_COLOR
                          /\ w.color # FIRST_COLOR
                          /\ Connected(Origin(w.color), w.to)
                          /\ ~Top(w.to)

TopKept == pc \in {"pairs", "color", "colorKernel", "continue", "done"} =>
             \A v \in Vertices : Top(v) => colors[v] = v + 1

ColorsInside == \A v \in Vertices : colors[v] # NO_COLOR => Connected(Origin(colors[v]), v)

Differ(p) == arcs[p] > 0 /\ colors[p[1]] # colors[p[2]]

\* As long as no thread has told the host, no colour has changed, and a pair that
\* differs has a thread that will find or has found that.
Agreement ==
    /\ pc = "colorKernel" /\ device = FALSE => \A p \in Pairs : Differ(p) =>
         (\E s \in reading : s[1] = p) \/ (\E w \in writing : w.slot[1] = p)
    /\ pc = "continue" /\ device = FALSE => \A p \in Pairs : ~Differ(p)
    /\ pc = "done" => \A p \in Pairs : ~Differ(p)

IInv == /\ TypeOK /\ arcs \in Graphs
        /\ Quiet /\ Colored /\ Inside /\ Frontier /\ FirstClosed /\ Queued
        /\ Threads /\ TopKept /\ ColorsInside /\ Agreement

LEMMA InitIInv == Init => IInv
<1> SUFFICES ASSUME Init PROVE IInv
  OBVIOUS
<1> USE CCAssumption DEF Init, Queue!Init, Queue!Empty, PairQueue!Init,
        PairQueue!Empty, Continue!Init, NoThread, Nobody, NoPair
<1>1. TypeOK /\ arcs \in Graphs
  BY DEF TypeOK
<1>2. Quiet
  BY DEF Quiet
<1>3. Colored /\ Inside /\ Frontier /\ FirstClosed /\ Queued
  BY DEF Traversing, Coloring, Colored, Inside, Frontier, FirstClosed, Queued
<1>4. Threads /\ TopKept /\ ColorsInside /\ Agreement
  BY DEF Threads, TopKept, ColorsInside, Agreement
<1> QED BY <1>1, <1>2, <1>3, <1>4 DEF IInv

-----------------------------------------------------------------------------
(* Types                                                                   *)

LEMMA WriterTypes ==
    ASSUME TypeOK, NEW w \in writing
    PROVE  /\ w.from \in Vertices /\ w.to \in Vertices /\ w.color \in Color
           /\ w.slot \in Pairs \X (Nat \ {0})
BY DEF TypeOK

LEMMA ReaderTypes ==
    ASSUME TypeOK, NEW s \in reading
    PROVE  s \in Pairs \X (Nat \ {0}) /\ s[1] \in Pairs
BY DEF TypeOK

\* A thread writes one vertex of its pair with a colour of the other.
LEMMA ChoiceTypes ==
    ASSUME TypeOK, Colored, pc = "colorKernel", NEW s \in reading, NEW w \in Choices(s)
    PROVE  /\ w.slot = s /\ w.from \in Vertices /\ w.to \in Vertices
           /\ w.color = colors[w.from] /\ w.color \in Color
           /\ \/ w.from = s[1][1] /\ w.to = s[1][2]
              \/ w.from = s[1][2] /\ w.to = s[1][1]
           /\ w \in [slot : Pairs \X (Nat \ {0}), from : Vertices,
                     to : Vertices, color : Color]
<1>1. s \in Pairs \X (Nat \ {0}) /\ s[1][1] \in Vertices /\ s[1][2] \in Vertices
  BY ReaderTypes, PairTypes
<1>2. \A v \in Vertices : colors[v] \in Color
  BY DEF Colored, Coloring
<1>3. CASE w = [slot |-> s, from |-> s[1][1], to |-> s[1][2], color |-> colors[s[1][1]]]
  BY <1>1, <1>2, <1>3
<1>4. CASE w = [slot |-> s, from |-> s[1][2], to |-> s[1][1], color |-> colors[s[1][2]]]
  BY <1>1, <1>2, <1>4
<1> QED BY <1>3, <1>4 DEF Choices

\* Where the threads of a kernel are.
LEMMA Kernels == ASSUME TypeOK, Quiet
                 PROVE  /\ \A e \in Edges : visiting[e] > 0 => pc = "giantKernel"
                        /\ \A v \in Vertices : marking[v] > 0 => pc = "giantKernel"
                        /\ reading # {} \/ writing # {} => pc = "colorKernel"
<1>1. ASSUME pc # "giantKernel", NEW e \in Edges PROVE ~(visiting[e] > 0)
  <2>1. visiting[e] = 0
    BY <1>1 DEF Quiet, NoThread
  <2> QED BY <2>1
<1>2. ASSUME pc # "giantKernel", NEW v \in Vertices PROVE ~(marking[v] > 0)
  <2>1. marking[v] = 0
    BY <1>2 DEF Quiet, Nobody
  <2> QED BY <2>1
<1>3. reading # {} \/ writing # {} => pc = "colorKernel"
  BY DEF Quiet
<1> QED BY <1>1, <1>2, <1>3

LEMMA TypeStep == TypeOK /\ arcs \in Graphs /\ Quiet /\ Colored /\ [Next]_vars
                    => TypeOK' /\ arcs' = arcs
<1> SUFFICES ASSUME TypeOK, arcs \in Graphs, Quiet, Colored, [Next]_vars
             PROVE  TypeOK' /\ arcs' = arcs
  OBVIOUS
<1>a. \A b \in [Vertices -> Nat] : Queue!Count(b) \in Nat
  BY CountIsZero
<1>b. \A b \in [Pairs -> Nat] : PairQueue!Count(b) \in Nat
  BY PairCountIsZero
<1>c. MaxDegreeId \in Vertices
  BY MaxDegreeType
<1>d. FIRST_COLOR \in Color /\ \A v \in Vertices : v + 1 \in Color
  BY CCAssumption DEF Vertices, Color, FIRST_COLOR
<1>e. input \in [Vertices -> Nat] /\ output \in [Vertices -> Nat]
  BY DEF TypeOK
<1>f. visiting \in [Edges -> Nat] /\ marking \in [Vertices -> Nat]
  BY DEF TypeOK
<1>g. pairIn \in [Pairs -> Nat] /\ pairOut \in [Pairs -> Nat]
  BY DEF TypeOK
<1>h. arcs \in [Edges -> Nat] /\ colors \in [Vertices -> Color \cup {NO_COLOR}]
  BY DEF TypeOK
<1>1. CASE Reset
  BY <1>1 DEF TypeOK, Reset, Queue!Clear, Queue!Empty, pairVars, flagVars
<1>2. CASE Start
  <2>1. Queue!With(input, MaxDegreeId) \in [Vertices -> Nat]
    BY <1>c, <1>e DEF Queue!With
  <2>2. [colors EXCEPT ![MaxDegreeId] = FIRST_COLOR] \in [Vertices -> Color \cup {NO_COLOR}]
    BY <1>d, <1>h
  <2>3. Queue!Count(input) + 1 \in Nat
    BY <1>a, <1>e
  <2> QED BY <1>2, <2>1, <2>2, <2>3 DEF TypeOK, Start, Queue!HostInsert, pairVars, flagVars
<1>3. CASE LaunchGiant
  <2>1. ASSUME NEW e \in Edges PROVE input[e[1]] * arcs[e] \in Nat
    BY <1>e, <1>h, Product DEF Edges
  <2> QED BY <1>3, <2>1 DEF TypeOK, LaunchGiant, graphVars, pairVars, flagVars
<1>4. CASE \E e \in Edges : TestColor(e)
  <2>1. PICK e \in Edges : TestColor(e)
    BY <1>4
  <2>2. e[2] \in Vertices
    BY DEF Edges
  <2>3. visiting' \in [Edges -> Nat]
    <3>1. visiting[e] \in Nat /\ visiting[e] > 0
      BY <1>f, <2>1 DEF TestColor
    <3>2. visiting[e] - 1 \in Nat
      BY <3>1
    <3> QED BY <1>f, <2>1, <3>2 DEF TestColor
  <2>4. marking' \in [Vertices -> Nat]
    BY <1>f, <2>1, <2>2 DEF TestColor
  <2> QED BY <2>1, <2>3, <2>4 DEF TypeOK, TestColor, graphVars, pairVars, flagVars
<1>5. CASE \E v \in Vertices : Mark(v)
  <2>1. PICK v \in Vertices : Mark(v)
    BY <1>5
  <2>2. marking' \in [Vertices -> Nat]
    <3>1. marking[v] \in Nat /\ marking[v] > 0
      BY <1>f, <2>1 DEF Mark
    <3>2. marking[v] - 1 \in Nat
      BY <3>1
    <3> QED BY <1>f, <2>1, <3>2 DEF Mark
  <2>3. Queue!With(output, v) \in [Vertices -> Nat]
    BY <1>e DEF Queue!With
  <2>4. colors' \in [Vertices -> Color \cup {NO_COLOR}]
    BY <1>d, <1>h, <2>1 DEF Mark
  <2> QED BY <2>1, <2>2, <2>3, <2>4 DEF TypeOK, Mark, Queue!DeviceInsert, pairVars, flagVars
<1>6. CASE NextGiant
  BY <1>6, <1>a DEF TypeOK, NextGiant, Queue!Swap, Queue!Empty, pairVars, flagVars
<1>7. CASE CollectVertices
  <2>1. input' \in [Vertices -> Nat]
    BY <1>7, <1>e DEF CollectVertices, Queue!AppendAndSwap
  <2>2. colors' \in [Vertices -> Color \cup {NO_COLOR}]
    BY <1>7, <1>d, <1>h DEF CollectVertices
  <2> QED BY <1>7, <2>1, <2>2, <1>a DEF TypeOK, CollectVertices, Queue!AppendAndSwap,
             Queue!Empty, pairVars, flagVars
<1>8. CASE NoOthers
  BY <1>8 DEF TypeOK, NoOthers, graphVars, pairVars, flagVars
<1>9. CASE CollectPairs
  <2>1. ASSUME NEW p \in Pairs PROVE pairOut[p] + input[p[1]] * arcs[p] \in Nat
    <3>1. input[p[1]] * arcs[p] \in Nat
      BY <1>e, <1>h, PairTypes, Product
    <3>2. pairOut[p] \in Nat
      BY <1>g
    <3> QED BY <3>1, <3>2
  <2>2. pairIn' \in [Pairs -> Nat]
    BY <1>9, <2>1 DEF CollectPairs, PairQueue!AppendAndSwap
  <2> QED BY <1>9, <2>2, <1>b DEF TypeOK, CollectPairs, PairQueue!AppendAndSwap,
             PairQueue!Empty, graphVars, flagVars
<1>10. CASE LaunchColoring
  <2>1. PairQueue!Slots(pairIn) \subseteq Pairs \X (Nat \ {0})
    <3>1. ASSUME NEW s \in PairQueue!Slots(pairIn) PROVE s \in Pairs \X (Nat \ {0})
      <4>1. PICK p \in Pairs : s \in {p} \X (1 .. pairIn[p])
        BY DEF PairQueue!Slots
      <4>2. pairIn[p] \in Nat
        BY <1>g
      <4>3. 1 .. pairIn[p] \subseteq Nat \ {0}
        BY <4>2
      <4> QED BY <4>1, <4>3
    <3> QED BY <3>1
  <2> QED BY <1>10, <2>1 DEF TypeOK, LaunchColoring, Continue!AssignAndLaunch,
             graphVars, pairVars
<1>11. CASE SkipColoring
  BY <1>11 DEF TypeOK, SkipColoring, Continue!AssignAndSkip, graphVars, pairVars
<1>12. CASE \E s \in reading : ReadColors(s)
  <2>1. PICK s \in reading : ReadColors(s)
    BY <1>12
  <2>2. Differing(s) \subseteq [slot : Pairs \X (Nat \ {0}), from : Vertices,
                                to : Vertices, color : Color]
    BY ChoiceTypes, Kernels DEF Differing
  <2> QED BY <2>1, <2>2 DEF TypeOK, ReadColors, graphVars, pairVars, flagVars
<1>13. CASE \E w \in writing : WriteColor(w)
  <2>1. PICK w \in writing : WriteColor(w)
    BY <1>13
  <2>2. w.to \in Vertices /\ w.color \in Color /\ colors[w.from] \in Color
    BY WriterTypes, Kernels DEF Colored, Coloring
  <2>3. colors' \in [Vertices -> Color \cup {NO_COLOR}]
    BY <1>h, <2>1, <2>2 DEF WriteColor
  <2> QED BY <2>1, <2>3 DEF TypeOK, WriteColor, Continue!DeviceAssign, graphVars, pairVars
<1>14. CASE EndColoring
  BY <1>14 DEF TypeOK, EndColoring, graphVars, pairVars, flagVars
<1>15. CASE TestContinue
  BY <1>15 DEF TypeOK, TestContinue, Continue!Current, Continue!HostRead, graphVars, pairVars
<1>16. CASE UNCHANGED vars
  BY <1>16 DEF TypeOK, vars, graphVars, pairVars, flagVars
<1> QED BY <1>1, <1>2, <1>3, <1>4, <1>5, <1>6, <1>7, <1>8, <1>9, <1>10, <1>11, <1>12,
           <1>13, <1>14, <1>15, <1>16 DEF Next, Run

-----------------------------------------------------------------------------
(* The other parts, action by action                                       *)

Rest == Quiet /\ Colored /\ Inside /\ Frontier /\ FirstClosed /\ Queued
          /\ Threads /\ TopKept /\ ColorsInside /\ Agreement

\* Parts that say nothing of the state an action ends in.
LEMMA Trivially ==
    ( /\ ~Traversing => Inside /\ Frontier
      /\ ~Coloring /\ pc # "pairs" => Queued
      /\ ~Coloring /\ pc # "pairs" /\ pc # "done" => FirstClosed /\ TopKept
      /\ pc \notin {"colorKernel", "continue", "done"} => Agreement
      /\ reading = {} /\ writing = {} => Threads )'
BY DEF Traversing, Coloring, Inside, Frontier, Queued, FirstClosed, TopKept, Agreement,
       Threads

LEMMA ResetStep == IInv /\ Reset => Rest'
<1> SUFFICES ASSUME IInv, Reset PROVE Rest'
  OBVIOUS
<1> USE DEF Reset, Queue!Clear, Queue!Empty, pairVars, flagVars
<1>1. \A v \in Vertices : colors'[v] = NO_COLOR
  OBVIOUS
<1>2. pc' = "ready" /\ reading' = {} /\ writing' = {}
  BY DEF IInv, Quiet
<1>3. Quiet'
  BY <1>1, <1>2 DEF IInv, Quiet, Nobody
<1>4. Colored' /\ ColorsInside'
  BY <1>1, <1>2 DEF Colored, ColorsInside, Traversing, Coloring
<1>5. (Inside /\ Frontier /\ FirstClosed /\ Queued /\ Threads /\ TopKept /\ Agreement)'
  BY <1>2, Trivially DEF Traversing, Coloring
<1> QED BY <1>3, <1>4, <1>5 DEF Rest

\* The vertex of largest degree is all the traversal has, and it is enqueued.
LEMMA StartStep == IInv /\ Start => Rest'
<1> SUFFICES ASSUME IInv, Start PROVE Rest'
  OBVIOUS
<1>0. /\ TypeOK /\ arcs \in Graphs /\ arcs' = arcs
      /\ pc' = "giant" /\ reading' = {} /\ writing' = {}
      /\ visiting' = NoThread /\ marking' = Nobody /\ output' = Nobody
      /\ pairOut' = NoPair /\ input = Nobody
      /\ colors' = [colors EXCEPT ![MaxDegreeId] = FIRST_COLOR]
      /\ input' = Queue!With(input, MaxDegreeId)
      /\ size' = Queue!Count(input) + 1
  BY DEF IInv, Quiet, Start, Queue!HostInsert, pairVars, flagVars
<1>1. MaxDegreeId \in Vertices /\ MaxDegreeId' = MaxDegreeId
  BY <1>0, MaxDegreeType, SameComponents
<1>2. \A v \in Vertices : colors'[v] = IF v = MaxDegreeId THEN FIRST_COLOR ELSE NO_COLOR
  BY <1>0, <1>1 DEF IInv, TypeOK, Quiet, Start
<1>3. \A v \in Vertices : input'[v] = IF v = MaxDegreeId THEN 1 ELSE 0
  <2>1. \A v \in Vertices : input[v] = 0
    BY <1>0 DEF Nobody
  <2>2. \A v \in Vertices : input'[v] = IF v = MaxDegreeId THEN input[v] + 1 ELSE input[v]
    BY <1>0, <1>1 DEF TypeOK, Queue!With
  <2> QED BY <2>1, <2>2
<1>4. Quiet'
  <2>1. size' = Queue!Count(input')
    BY <1>0, <1>1, CountOfWith DEF TypeOK
  <2> QED BY <1>0, <2>1 DEF Quiet
<1>5. Connected(MaxDegreeId, MaxDegreeId)'
  BY ReachesItself, <1>1, SameComponents, <1>0
<1>6. Colored'
  BY <1>0, <1>2 DEF Colored, Coloring
<1>7. ColorsInside'
  BY <1>1, <1>2, <1>5 DEF ColorsInside, Origin
<1>8. Inside'
  BY <1>0, <1>1, <1>3, <1>5 DEF Inside, NoThread, Nobody
<1>9. Frontier'
  <2> SUFFICES ASSUME NEW e \in Edges, colors'[e[1]] = FIRST_COLOR PROVE Pending(e)'
    BY DEF Frontier
  <2>1. e[1] = MaxDegreeId
    BY <1>2, CCAssumption DEF Edges, FIRST_COLOR
  <2> QED BY <1>0, <1>1, <1>3, <2>1 DEF Pending
<1>10. (FirstClosed /\ Queued /\ Threads /\ TopKept /\ Agreement)'
  BY <1>0, Trivially DEF Traversing, Coloring
<1> QED BY <1>4, <1>6, <1>7, <1>8, <1>9, <1>10 DEF Rest

LEMMA EdgeTypes == ASSUME NEW e \in Edges
                   PROVE  e[1] \in Vertices /\ e[2] \in Vertices /\ e = <<e[1], e[2]>>
BY DEF Edges

LEMMA LaunchGiantStep == IInv /\ LaunchGiant => Rest'
<1> SUFFICES ASSUME IInv, LaunchGiant PROVE Rest'
  OBVIOUS
<1>0. /\ TypeOK /\ arcs' = arcs /\ colors' = colors /\ input' = input
      /\ pc = "giant" /\ pc' = "giantKernel" /\ reading' = {} /\ writing' = {}
      /\ output' = output /\ marking' = marking /\ pairOut' = NoPair
      /\ visiting' = [e \in Edges |-> input[e[1]] * arcs[e]]
  BY DEF IInv, Quiet, LaunchGiant, graphVars, pairVars, flagVars
<1>1. ASSUME NEW e \in Edges
      PROVE  visiting'[e] > 0 <=> input[e[1]] > 0 /\ arcs[e] > 0
  <2>1. input[e[1]] \in Nat /\ arcs[e] \in Nat
    BY <1>0, EdgeTypes DEF TypeOK
  <2>2. visiting'[e] = input[e[1]] * arcs[e]
    BY <1>0
  <2> QED BY <2>1, <2>2, Product
<1>2. Inside'
  <2>1. \A v \in Vertices : input[v] > 0 \/ output[v] > 0 \/ marking[v] > 0
                              => Connected(MaxDegreeId, v)
    BY <1>0 DEF IInv, Inside, Traversing
  <2>2. ASSUME NEW e \in Edges, visiting'[e] > 0 PROVE Connected(MaxDegreeId, e[2])
    <3>1. Connected(MaxDegreeId, e[1]) /\ arcs[<<e[1], e[2]>>] > 0
      BY <1>1, <2>1, <2>2, EdgeTypes
    <3> QED BY <3>1, EdgeTypes, ReachesNext
  <2> QED BY <1>0, <2>1, <2>2, SameComponents DEF Inside
<1>3. Frontier'
  <2> SUFFICES ASSUME NEW e \in Edges, arcs[e] > 0, colors[e[1]] = FIRST_COLOR,
                      colors[e[2]] = NO_COLOR
               PROVE  visiting'[e] > 0
    BY <1>0 DEF Frontier, Pending
  <2>1. Pending(e)
    BY <1>0 DEF IInv, Frontier, Traversing
  <2>2. ~(visiting[e] > 0) /\ ~(marking[e[2]] > 0)
    BY <1>0, Kernels, EdgeTypes DEF IInv
  <2>3. output[e[1]] = 0
    BY <1>0, EdgeTypes DEF IInv, Quiet, Nobody
  <2>4. input[e[1]] > 0
    BY <2>1, <2>2, <2>3 DEF Pending
  <2> QED BY <1>1, <2>4
<1>4. Quiet' /\ Colored' /\ ColorsInside'
  BY <1>0, SameComponents
     DEF IInv, Quiet, Colored, ColorsInside, Traversing, Coloring
<1>5. (FirstClosed /\ Queued /\ Threads /\ TopKept /\ Agreement)'
  BY <1>0, Trivially DEF Coloring
<1> QED BY <1>2, <1>3, <1>4, <1>5 DEF Rest

\* A thread that finds no colour goes on to give one.
LEMMA TestStep == ASSUME IInv, NEW e \in Edges, TestColor(e) PROVE Rest'
<1>0. /\ TypeOK /\ arcs' = arcs /\ colors' = colors /\ input' = input
      /\ pc = "giantKernel" /\ pc' = "giantKernel" /\ reading' = {} /\ writing' = {}
      /\ output' = output /\ pairOut' = NoPair
      /\ visiting[e] > 0 /\ visiting' = [visiting EXCEPT ![e] = @ - 1]
      /\ marking' = IF colors[e[2]] = NO_COLOR
                    THEN [marking EXCEPT ![e[2]] = @ + 1] ELSE marking
  <2>1. pc = "giantKernel"
    BY Kernels DEF IInv, TestColor
  <2> QED BY <2>1 DEF IInv, Quiet, TestColor, graphVars, pairVars, flagVars
<1>1. Connected(MaxDegreeId, e[2])
  BY <1>0 DEF IInv, Inside, Traversing
<1>2. \A f \in Edges : /\ visiting'[f] > 0 => visiting[f] > 0
                       /\ f # e => visiting'[f] = visiting[f]
  BY <1>0 DEF TypeOK
<1>3. \A v \in Vertices : /\ marking'[v] > 0 => v = e[2] \/ marking[v] > 0
                          /\ marking[v] > 0 => marking'[v] > 0
  <2>1. CASE colors[e[2]] = NO_COLOR
    <3>1. \A v \in Vertices :
            marking'[v] = IF v = e[2] THEN marking[v] + 1 ELSE marking[v]
      BY <1>0, <2>1, EdgeTypes DEF TypeOK
    <3>2. \A v \in Vertices : marking[v] \in Nat
      BY <1>0 DEF TypeOK
    <3> QED BY <3>1, <3>2
  <2>2. CASE colors[e[2]] # NO_COLOR
    BY <1>0, <2>2
  <2> QED BY <2>1, <2>2
<1>4. colors[e[2]] = NO_COLOR => marking'[e[2]] > 0
  <2>1. marking[e[2]] \in Nat
    BY <1>0, EdgeTypes DEF TypeOK
  <2>2. colors[e[2]] = NO_COLOR => marking'[e[2]] = marking[e[2]] + 1
    BY <1>0, EdgeTypes DEF TypeOK
  <2> QED BY <2>1, <2>2
<1>5. Inside'
  BY <1>0, <1>1, <1>2, <1>3, SameComponents DEF IInv, Inside, Traversing
<1>6. Frontier'
  <2> SUFFICES ASSUME NEW f \in Edges, arcs[f] > 0, colors[f[1]] = FIRST_COLOR,
                      colors[f[2]] = NO_COLOR
               PROVE  Pending(f)'
    BY <1>0 DEF Frontier
  <2>1. visiting[f] > 0 \/ marking[f[2]] > 0 \/ output[f[1]] > 0
    BY <1>0 DEF IInv, Frontier, Traversing, Pending
  <2> QED BY <1>0, <1>2, <1>3, <1>4, <2>1, EdgeTypes DEF Pending
<1>7. Quiet' /\ Colored' /\ ColorsInside'
  BY <1>0, SameComponents
     DEF IInv, Quiet, Colored, ColorsInside, Traversing, Coloring
<1>8. (FirstClosed /\ Queued /\ Threads /\ TopKept /\ Agreement)'
  BY <1>0, Trivially DEF Coloring
<1> QED BY <1>5, <1>6, <1>7, <1>8 DEF Rest

\* A vertex that is given the first colour is enqueued: the edges out of it are
\* pending, and the edges into it need not be.
LEMMA MarkStep == ASSUME IInv, NEW v \in Vertices, Mark(v) PROVE Rest'
<1>0. /\ TypeOK /\ arcs' = arcs /\ input' = input /\ visiting' = visiting
      /\ pc = "giantKernel" /\ pc' = "giantKernel" /\ reading' = {} /\ writing' = {}
      /\ pairOut' = NoPair /\ colors' = [colors EXCEPT ![v] = FIRST_COLOR]
      /\ output' = Queue!With(output, v)
      /\ marking[v] > 0 /\ marking' = [marking EXCEPT ![v] = @ - 1]
  <2>1. pc = "giantKernel"
    BY Kernels DEF IInv, Mark
  <2> QED BY <2>1 DEF IInv, Quiet, Mark, Queue!DeviceInsert, pairVars, flagVars
<1>1. Connected(MaxDegreeId, v)
  BY <1>0 DEF IInv, Inside, Traversing
<1>2. \A u \in Vertices : colors'[u] = IF u = v THEN FIRST_COLOR ELSE colors[u]
  BY <1>0 DEF TypeOK
<1>3. \A u \in Vertices : /\ marking'[u] > 0 => marking[u] > 0
                          /\ u # v => marking'[u] = marking[u]
  BY <1>0 DEF TypeOK
<1>4. output'[v] > 0 /\ \A u \in Vertices : u # v => output'[u] = output[u]
  <2>1. output[v] \in Nat /\ output'[v] = output[v] + 1
    BY <1>0 DEF TypeOK, Queue!With
  <2>2. \A u \in Vertices : u # v => output'[u] = output[u]
    BY <1>0 DEF TypeOK, Queue!With
  <2> QED BY <2>1, <2>2
<1>5. Inside'
  BY <1>0, <1>1, <1>3, <1>4, SameComponents DEF IInv, Inside, Traversing
<1>6. Frontier'
  <2> SUFFICES ASSUME NEW f \in Edges, arcs[f] > 0, colors'[f[1]] = FIRST_COLOR,
                      colors'[f[2]] = NO_COLOR
               PROVE  Pending(f)'
    BY <1>0 DEF Frontier
  <2>1. f[2] # v /\ colors[f[2]] = NO_COLOR
    BY <1>2, EdgeTypes, CCAssumption DEF FIRST_COLOR
  <2>2. CASE f[1] = v
    BY <2>2, <1>4 DEF Pending
  <2>3. CASE f[1] # v
    <3>1. colors[f[1]] = FIRST_COLOR
      BY <1>2, <2>3, EdgeTypes
    <3>2. visiting[f] > 0 \/ marking[f[2]] > 0 \/ output[f[1]] > 0
      BY <1>0, <2>1, <3>1 DEF IInv, Frontier, Traversing, Pending
    <3> QED BY <1>0, <1>3, <1>4, <2>1, <2>3, <3>2, EdgeTypes DEF Pending
  <2> QED BY <2>2, <2>3
<1>7. Quiet' /\ Colored'
  BY <1>0, <1>2 DEF IInv, Quiet, Colored, Traversing, Coloring
<1>8. ColorsInside'
  BY <1>0, <1>1, <1>2, SameComponents DEF IInv, ColorsInside, Origin
<1>9. (FirstClosed /\ Queued /\ Threads /\ TopKept /\ Agreement)'
  BY <1>0, Trivially DEF Coloring
<1> QED BY <1>5, <1>6, <1>7, <1>8, <1>9 DEF Rest

LEMMA NextGiantStep == IInv /\ NextGiant => Rest'
<1> SUFFICES ASSUME IInv, NextGiant PROVE Rest'
  OBVIOUS
<1>0. /\ TypeOK /\ arcs' = arcs /\ colors' = colors
      /\ pc = "giantKernel" /\ pc' = "giant" /\ reading' = {} /\ writing' = {}
      /\ visiting = NoThread /\ visiting' = NoThread
      /\ marking = Nobody /\ marking' = Nobody
      /\ input' = output /\ output' = Nobody /\ size' = Queue!Count(output)
      /\ pairOut' = NoPair
  BY DEF IInv, Quiet, NextGiant, Queue!Swap, Queue!Empty, Nobody, pairVars, flagVars
<1>1. /\ \A e \in Edges : NoThread[e] = 0
      /\ \A v \in Vertices : Nobody[v] = 0
  BY DEF NoThread, Nobody
<1>2. Inside'
  <2>1. \A v \in Vertices : output[v] > 0 => Connected(MaxDegreeId, v)
    BY <1>0 DEF IInv, Inside, Traversing
  <2>2. ASSUME NEW v \in Vertices PROVE ~(output'[v] > 0) /\ ~(marking'[v] > 0)
    <3>1. output'[v] = 0 /\ marking'[v] = 0
      BY <1>0 DEF Nobody
    <3> QED BY <3>1
  <2>3. ASSUME NEW e \in Edges PROVE ~(visiting'[e] > 0)
    <3>1. visiting'[e] = 0
      BY <1>0 DEF NoThread
    <3> QED BY <3>1
  <2> QED BY <1>0, <2>1, <2>2, <2>3, SameComponents DEF Inside
<1>3. Frontier'
  <2> SUFFICES ASSUME NEW e \in Edges, arcs[e] > 0, colors[e[1]] = FIRST_COLOR,
                      colors[e[2]] = NO_COLOR
               PROVE  output[e[1]] > 0
    BY <1>0 DEF Frontier, Pending
  <2>1. visiting[e] > 0 \/ marking[e[2]] > 0 \/ output[e[1]] > 0
    BY <1>0 DEF IInv, Frontier, Traversing, Pending
  <2>2. visiting[e] = 0 /\ marking[e[2]] = 0
    BY <1>0, <1>1, EdgeTypes
  <2> QED BY <2>1, <2>2
<1>4. Quiet' /\ Colored' /\ ColorsInside'
  <2>1. size' = Queue!Count(input')
    BY <1>0
  <2> QED BY <1>0, <2>1, SameComponents
             DEF IInv, Quiet, Colored, ColorsInside, Traversing, Coloring
<1>5. (FirstClosed /\ Queued /\ Threads /\ TopKept /\ Agreement)'
  BY <1>0, Trivially DEF Coloring
<1> QED BY <1>2, <1>3, <1>4, <1>5 DEF Rest

LEMMA Symmetric == ASSUME arcs \in Graphs
                   PROVE  \A e \in Edges : /\ <<e[2], e[1]>> \in Edges
                                           /\ arcs[<<e[2], e[1]>>] = arcs[e]
<1> SUFFICES ASSUME NEW e \in Edges
             PROVE  <<e[2], e[1]>> \in Edges /\ arcs[<<e[2], e[1]>>] = arcs[e]
  OBVIOUS
<1>1. e[1] \in Vertices /\ e[2] \in Vertices /\ e = <<e[1], e[2]>>
  BY EdgeTypes
<1>2. arcs[<<e[1], e[2]>>] = arcs[<<e[2], e[1]>>]
  BY <1>1, CCAssumption
<1> QED BY <1>1, <1>2 DEF Edges

\* The queue of the traversal is empty: no edge is pending, and what has no colour
\* yet is what the first component does not reach.
LEMMA CollectVerticesStep == IInv /\ CollectVertices => Rest'
<1> SUFFICES ASSUME IInv, CollectVertices PROVE Rest'
  OBVIOUS
<1>0. /\ TypeOK /\ arcs \in Graphs /\ arcs' = arcs
      /\ pc = "giant" /\ pc' = "pairs" /\ reading' = {} /\ writing' = {}
      /\ visiting = NoThread /\ visiting' = NoThread
      /\ marking = Nobody /\ marking' = Nobody
      /\ output = Nobody /\ output' = Nobody /\ pairOut' = NoPair
      /\ input = Nobody /\ size' = Queue!Count(input')
      /\ input' = [v \in Vertices |-> output[v] + IF colors[v] = NO_COLOR THEN 1 ELSE 0]
      /\ colors' = [v \in Vertices |-> IF colors[v] = NO_COLOR THEN v + 1 ELSE colors[v]]
  <2>1. /\ pc = "giant" /\ size = 0 /\ visiting = NoThread /\ marking = Nobody
        /\ output = Nobody /\ reading = {} /\ writing = {} /\ pairOut = NoPair
        /\ size = Queue!Count(input)
    BY DEF IInv, Quiet, CollectVertices
  <2>2. input = Nobody
    BY <2>1, CountIsZero DEF IInv, TypeOK
  <2>3. input' = [v \in Vertices |-> output[v] + IF colors[v] = NO_COLOR THEN 1 ELSE 0]
    BY DEF CollectVertices, Queue!AppendAndSwap
  <2> QED BY <2>1, <2>2, <2>3 DEF IInv, CollectVertices, Queue!AppendAndSwap, Queue!Empty,
             Nobody, pairVars, flagVars
<1>1. \A v \in Vertices : colors[v] = FIRST_COLOR \/ colors[v] = NO_COLOR
  BY <1>0 DEF IInv, Colored, Traversing
<1>2. FIRST_COLOR = 0 /\ NO_COLOR # 0 /\ nV \in Nat /\ Vertices = 0 .. nV - 1
  BY CCAssumption DEF FIRST_COLOR, Vertices
<1>3. ASSUME NEW v \in Vertices
      PROVE  /\ colors[v] = NO_COLOR => colors'[v] = v + 1 /\ v + 1 # 0 /\ v + 1 \in Color
             /\ colors[v] # NO_COLOR => colors'[v] = 0
             /\ 0 \in Color
  <2>1. v \in 0 .. nV - 1
    BY <1>2
  <2>2. v + 1 # 0 /\ v + 1 \in Color /\ 0 \in Color
    BY <2>1, <1>2 DEF Color
  <2> QED BY <1>0, <1>1, <1>2, <2>2
<1>4. ASSUME NEW v \in Vertices PROVE input'[v] > 0 <=> colors[v] = NO_COLOR
  <2>1. output[v] = 0
    BY <1>0 DEF Nobody
  <2>2. input'[v] = IF colors[v] = NO_COLOR THEN 1 ELSE 0
    BY <1>0, <2>1
  <2> QED BY <2>2
<1>5. FirstClosed'
  <2>1. ASSUME NEW e \in Edges, arcs[e] > 0, colors[e[1]] = FIRST_COLOR
        PROVE  colors[e[2]] # NO_COLOR
    <3>1. input[e[1]] = 0 /\ visiting[e] = 0 /\ marking[e[2]] = 0 /\ output[e[1]] = 0
      BY <1>0, EdgeTypes DEF Nobody, NoThread
    <3>2. ~Pending(e)
      BY <3>1 DEF Pending
    <3> QED BY <1>0, <2>1, <3>2 DEF IInv, Frontier, Traversing
  <2>2. ASSUME NEW e \in Edges, arcs[e] > 0
        PROVE  colors[e[1]] = FIRST_COLOR <=> colors[e[2]] = FIRST_COLOR
    <3> DEFINE f == <<e[2], e[1]>>
    <3>1. f \in Edges /\ arcs[f] > 0 /\ f[1] = e[2] /\ f[2] = e[1]
      BY <1>0, <2>2, Symmetric
    <3> HIDE DEF f
    <3> QED BY <1>1, <2>1, <2>2, <3>1, EdgeTypes
  <2>3. \A v \in Vertices : colors'[v] = FIRST_COLOR <=> colors[v] = FIRST_COLOR
    BY <1>1, <1>2, <1>3
  <2> QED BY <1>0, <2>2, <2>3, EdgeTypes DEF FirstClosed
<1>6. Queued'
  BY <1>0, <1>1, <1>2, <1>3, <1>4 DEF Queued, Coloring
<1>7. Colored'
  BY <1>0, <1>3 DEF Colored, Traversing, Coloring
<1>8. TopKept'
  <2> SUFFICES ASSUME NEW v \in Vertices, Top(v)' PROVE colors'[v] = v + 1
    BY DEF TopKept
  <2>1. Connected(v, v)'
    BY <1>0, ReachesItself, SameComponents
  <2>2. colors'[v] # FIRST_COLOR
    BY <2>1 DEF Top
  <2> QED BY <2>2, <1>2, <1>3
<1>9. ColorsInside'
  <2> SUFFICES ASSUME NEW v \in Vertices PROVE Connected(Origin(colors'[v]), v)
    BY <1>0, SameComponents DEF ColorsInside
  <2>1. CASE colors[v] = NO_COLOR
    <3>1. Origin(colors'[v]) = v
      <4>1. colors'[v] = v + 1 /\ v + 1 # FIRST_COLOR /\ v \in Int
        BY <1>2, <1>3, <2>1
      <4> QED BY <4>1 DEF Origin
    <3> QED BY <3>1, ReachesItself
  <2>2. CASE colors[v] # NO_COLOR
    <3>1. colors'[v] = colors[v]
      BY <1>0, <2>2
    <3> QED BY <3>1, <2>2 DEF IInv, ColorsInside
  <2> QED BY <2>1, <2>2
<1>10. Quiet'
  BY <1>0 DEF Quiet
<1>11. (Inside /\ Frontier /\ Threads /\ Agreement)'
  BY <1>0, Trivially DEF Traversing
<1> QED BY <1>5, <1>6, <1>7, <1>8, <1>9, <1>10, <1>11 DEF Rest

LEMMA NoOthersStep == IInv /\ NoOthers => Rest'
<1> SUFFICES ASSUME IInv, NoOthers PROVE Rest'
  OBVIOUS
<1>0. /\ TypeOK /\ arcs' = arcs /\ colors' = colors
      /\ pc = "pairs" /\ pc' = "done" /\ reading' = {} /\ writing' = {}
      /\ input = Nobody
  <2>1. pc = "pairs" /\ size = 0 /\ size = Queue!Count(input)
    BY DEF IInv, Quiet, NoOthers
  <2>2. input = Nobody
    BY <2>1, CountIsZero DEF IInv, TypeOK
  <2> QED BY <2>1, <2>2 DEF IInv, Quiet, NoOthers
<1>1. Agreement'
  <2>1. ASSUME NEW v \in Vertices PROVE colors[v] = FIRST_COLOR
    <3>1. input[v] = 0
      BY <1>0 DEF Nobody
    <3>2. ~(input[v] > 0)
      BY <3>1
    <3> QED BY <1>0, <3>2 DEF IInv, Queued
  <2> QED BY <1>0, <2>1, PairTypes DEF Agreement, Differ
<1>2. Quiet'
  BY <1>0 DEF IInv, Quiet, NoOthers, graphVars, pairVars, flagVars
<1>3. Colored' /\ FirstClosed' /\ TopKept' /\ ColorsInside'
  BY <1>0, SameComponents
     DEF IInv, Colored, FirstClosed, TopKept, ColorsInside, Top, Traversing, Coloring
<1>4. (Inside /\ Frontier /\ Queued /\ Threads)'
  BY <1>0, Trivially DEF Traversing, Coloring
<1> QED BY <1>1, <1>2, <1>3, <1>4 DEF Rest

LEMMA CollectPairsStep == IInv /\ CollectPairs => Rest'
<1> SUFFICES ASSUME IInv, CollectPairs PROVE Rest'
  OBVIOUS
<1>0. /\ TypeOK /\ arcs' = arcs /\ colors' = colors
      /\ pc = "pairs" /\ pc' = "color" /\ reading' = {} /\ writing' = {}
      /\ pairOut = NoPair /\ pairs' = PairQueue!Count(pairIn')
      /\ pairIn' = [p \in Pairs |-> pairOut[p] + input[p[1]] * arcs[p]]
  BY DEF IInv, Quiet, CollectPairs, PairQueue!AppendAndSwap, graphVars, flagVars
<1>1. Queued'
  <2> SUFFICES ASSUME NEW p \in Pairs
               PROVE  pairIn'[p] > 0 <=> arcs[p] > 0 /\ colors[p[1]] # FIRST_COLOR
    BY <1>0 DEF Queued, Coloring
  <2>1. pairOut[p] = 0 /\ input[p[1]] \in Nat /\ arcs[p] \in Nat
    BY <1>0, PairTypes DEF TypeOK, NoPair
  <2>2. pairIn'[p] = input[p[1]] * arcs[p]
    <3>1. pairIn'[p] = pairOut[p] + input[p[1]] * arcs[p]
      BY <1>0
    <3>2. input[p[1]] * arcs[p] \in Nat
      BY <2>1, Product
    <3> QED BY <2>1, <3>1, <3>2
  <2>3. pairIn'[p] > 0 <=> input[p[1]] > 0 /\ arcs[p] > 0
    BY <2>1, <2>2, Product
  <2>4. input[p[1]] > 0 <=> colors[p[1]] # FIRST_COLOR
    BY <1>0, PairTypes DEF IInv, Queued
  <2> QED BY <2>3, <2>4
<1>2. Quiet'
  BY <1>0 DEF IInv, Quiet, CollectPairs, PairQueue!AppendAndSwap, PairQueue!Empty, NoPair,
     graphVars, flagVars
<1>3. Colored' /\ FirstClosed' /\ TopKept' /\ ColorsInside'
  BY <1>0, SameComponents
     DEF IInv, Colored, FirstClosed, TopKept, ColorsInside, Top, Traversing, Coloring
<1>4. (Inside /\ Frontier /\ Threads /\ Agreement)'
  BY <1>0, Trivially DEF Traversing
<1> QED BY <1>1, <1>2, <1>3, <1>4 DEF Rest

\* Where the colouring is not at work, nothing of it has changed.
LEMMA LaterFrame ==
    ASSUME IInv, arcs' = arcs, colors' = colors,
           pc \in {"color", "colorKernel", "continue"},
           pc' \in {"color", "colorKernel", "continue", "done"},
           pc' = "done" \/ pairIn' = pairIn
    PROVE  (Colored /\ FirstClosed /\ TopKept /\ ColorsInside /\ Inside /\ Frontier /\ Queued)'
<1>1. Colored' /\ FirstClosed'
  BY DEF IInv, Colored, FirstClosed, Traversing, Coloring
<1>2. TopKept' /\ ColorsInside'
  BY SameComponents DEF IInv, TopKept, ColorsInside, Top
<1>3. Inside' /\ Frontier' /\ Queued'
  BY DEF IInv, Inside, Frontier, Queued, Traversing, Coloring
<1> QED BY <1>1, <1>2, <1>3

\* Every pair that differs gets a thread.
LEMMA LaunchColoringStep == IInv /\ LaunchColoring => Rest'
<1> SUFFICES ASSUME IInv, LaunchColoring PROVE Rest'
  OBVIOUS
<1>0. /\ TypeOK /\ arcs' = arcs /\ colors' = colors /\ pairIn' = pairIn
      /\ pc = "color" /\ pc' = "colorKernel"
      /\ reading' = PairQueue!Slots(pairIn) /\ writing' = {}
  BY DEF IInv, Quiet, LaunchColoring, graphVars, pairVars
<1>1. \A p \in Pairs : /\ pairIn[p] \in Nat
                       /\ pairIn[p] > 0 <=> arcs[p] > 0 /\ colors[p[1]] # FIRST_COLOR
  BY <1>0 DEF IInv, Queued, Coloring, TypeOK
<1>2. Threads'
  <2>1. ASSUME NEW s \in reading' PROVE arcs[s[1]] > 0 /\ colors[s[1][1]] # FIRST_COLOR
    <3>1. PICK p \in Pairs : s \in {p} \X (1 .. pairIn[p])
      BY <1>0 DEF PairQueue!Slots
    <3>2. PICK k \in 1 .. pairIn[p] : s[1] = p
      BY <3>1
    <3>3. pairIn[p] > 0
      BY <1>1, <3>2
    <3> QED BY <1>1, <3>2, <3>3
  <2> QED BY <1>0, <2>1 DEF Threads
<1>3. Agreement'
  <2> SUFFICES ASSUME NEW p \in Pairs, Differ(p) PROVE \E s \in reading' : s[1] = p
    BY <1>0 DEF Agreement, Differ
  <2>1. colors[p[1]] = FIRST_COLOR <=> colors[p[2]] = FIRST_COLOR
    BY <1>0, PairTypes DEF IInv, FirstClosed, Coloring, Differ
  <2>2. pairIn[p] > 0
    BY <1>1, <2>1 DEF Differ
  <2>3. 1 \in 1 .. pairIn[p]
    BY <1>1, <2>2
  <2>4. <<p, 1>> \in {p} \X (1 .. pairIn[p])
    BY <2>3
  <2>5. <<p, 1>> \in reading' /\ <<p, 1>>[1] = p
    BY <1>0, <2>4 DEF PairQueue!Slots
  <2> QED BY <2>5
<1>4. Quiet'
  BY <1>0 DEF IInv, Quiet, LaunchColoring, Continue!AssignAndLaunch, graphVars, pairVars
<1> QED BY <1>0, <1>2, <1>3, <1>4, LaterFrame DEF Rest

\* The pair queue is empty: there is no pair to differ.
LEMMA SkipColoringStep == IInv /\ SkipColoring => Rest'
<1> SUFFICES ASSUME IInv, SkipColoring PROVE Rest'
  OBVIOUS
<1>0. /\ TypeOK /\ arcs' = arcs /\ colors' = colors /\ pairIn' = pairIn
      /\ pc = "color" /\ pc' = "continue" /\ outdated' = TRUE
      /\ reading' = {} /\ writing' = {} /\ pairs = 0 /\ pairs = PairQueue!Count(pairIn)
  BY DEF IInv, Quiet, SkipColoring, Continue!AssignAndSkip, graphVars, pairVars
<1>1. pairIn = NoPair
  BY <1>0, PairCountIsZero DEF TypeOK
<1>2. Agreement'
  <2> SUFFICES ASSUME NEW p \in Pairs, Differ(p) PROVE FALSE
    BY <1>0 DEF Agreement, Differ
  <2>1. colors[p[1]] = FIRST_COLOR <=> colors[p[2]] = FIRST_COLOR
    BY <1>0, PairTypes DEF IInv, FirstClosed, Coloring, Differ
  <2>2. pairIn[p] > 0 <=> arcs[p] > 0 /\ colors[p[1]] # FIRST_COLOR
    BY <1>0 DEF IInv, Queued, Coloring
  <2>3. pairIn[p] = 0
    BY <1>1 DEF NoPair
  <2>4. ~(pairIn[p] > 0)
    BY <2>3
  <2> QED BY <2>1, <2>2, <2>4 DEF Differ
<1>3. Quiet'
  BY <1>0 DEF IInv, Quiet, SkipColoring, graphVars, pairVars
<1>4. Threads'
  BY <1>0, Trivially
<1> QED BY <1>0, <1>2, <1>3, <1>4, LaterFrame DEF Rest

\* Where a colour other than the first comes from.
LEMMA ColorTypes == ASSUME NEW c \in Color
                    PROVE  /\ c \in Nat /\ c # NO_COLOR
                           /\ c # FIRST_COLOR => Origin(c) = c - 1 /\ c - 1 \in Vertices
<1>1. c \in Nat /\ c <= nV /\ nV \in Nat
  BY CCAssumption DEF Color
<1>2. c # NO_COLOR
  BY <1>1, CCAssumption
<1>3. ASSUME c # 0 PROVE c - 1 \in 0 .. nV - 1
  BY <1>1, <1>3
<1> QED BY <1>1, <1>2, <1>3 DEF Origin, FIRST_COLOR, Vertices

\* A vertex next to the largest of a component has no larger colour.
LEMMA NothingAboveTop ==
    ASSUME IInv, pc = "colorKernel", NEW u \in Vertices, NEW v \in Vertices,
           arcs[<<u, v>>] > 0, colors[v] = v + 1,
           \A x \in Vertices : Connected(v, x) => colors[x] # FIRST_COLOR /\ x <= v
    PROVE  colors[u] <= colors[v]
<1>1. /\ TypeOK /\ arcs \in Graphs /\ <<v, u>> \in Edges
      /\ arcs[<<v, u>>] > 0
  BY CCAssumption DEF IInv, Edges
<1>2. Connected(v, u)
  BY <1>1, ReachesItself, ReachesNext
<1>3. colors[u] # FIRST_COLOR /\ colors[u] \in Color /\ colors[u] # NO_COLOR
  <2>1. colors[u] \in Color
    BY DEF IInv, Colored, Coloring
  <2> QED BY <1>2, <2>1, ColorTypes
<1>4. Origin(colors[u]) = colors[u] - 1 /\ colors[u] - 1 \in Vertices
  BY <1>3, ColorTypes
<1>5. Connected(u, colors[u] - 1)
  BY <1>1, <1>3, <1>4, ReachesBack DEF IInv, ColorsInside
<1>6. colors[u] - 1 <= v
  BY <1>2, <1>4, <1>5, ReachesOn
<1>7. colors[u] \in Nat
  BY <1>3, ColorTypes
<1>8. v \in Nat
  BY VerticesType
<1>9. colors[u] <= v + 1
  <2> HIDE DEF IInv
  <2> DEFINE c == colors[u]
  <2>1. c \in Nat /\ c - 1 <= v /\ v \in Nat
    BY <1>6, <1>7, <1>8
  <2> HIDE DEF c
  <2>2. c <= v + 1
    BY <2>1
  <2> QED BY <2>2 DEF c
<1> QED BY <1>9

LEMMA ReadStep == ASSUME IInv, NEW s \in reading, ReadColors(s) PROVE Rest'
<1>0. /\ TypeOK /\ Quiet /\ Colored /\ arcs \in Graphs /\ arcs' = arcs /\ colors' = colors
      /\ pairIn' = pairIn /\ pc = "colorKernel" /\ pc' = "colorKernel"
      /\ reading' = reading \ {s} /\ writing' = writing \cup Differing(s)
      /\ device' = device
  <2>1. pc = "colorKernel"
    BY Kernels DEF IInv
  <2> QED BY <2>1 DEF IInv, ReadColors, pairVars, flagVars
<1>1. /\ s[1] \in Pairs /\ s[1] \in Edges /\ s[1][1] \in Vertices /\ s[1][2] \in Vertices
      /\ s[1] = <<s[1][1], s[1][2]>>
      /\ arcs[s[1]] > 0 /\ colors[s[1][1]] # FIRST_COLOR
  BY <1>0, ReaderTypes, PairTypes DEF IInv, Threads
<1>2. colors[s[1][2]] # FIRST_COLOR /\ arcs[<<s[1][2], s[1][1]>>] > 0
  BY <1>0, <1>1, Symmetric DEF IInv, FirstClosed, Coloring
<1>3. ASSUME NEW w \in Differing(s)
      PROVE  /\ arcs[<<w.from, w.to>>] > 0 /\ colors[w.from] # FIRST_COLOR
             /\ w.color # FIRST_COLOR /\ Connected(Origin(w.color), w.to) /\ ~Top(w.to)
  <2>1. w \in Choices(s) /\ w.color > colors[w.to]
    BY DEF Differing
  <2>2. /\ w.from \in Vertices /\ w.to \in Vertices /\ w.color = colors[w.from]
        /\ \/ w.from = s[1][1] /\ w.to = s[1][2]
           \/ w.from = s[1][2] /\ w.to = s[1][1]
    BY <1>0, <2>1, ChoiceTypes
  <2>3. arcs[<<w.from, w.to>>] > 0 /\ colors[w.from] # FIRST_COLOR
    BY <1>1, <1>2, <2>2
  <2>4. colors[w.from] \in Color /\ colors[w.to] \in Color /\ colors[w.from] # NO_COLOR
    <3>1. colors[w.from] \in Color /\ colors[w.to] \in Color
      BY <1>0, <2>2 DEF Colored, Coloring
    <3> QED BY <3>1, ColorTypes
  <2>5. Connected(Origin(w.color), w.to)
    <3>1. Connected(Origin(w.color), w.from)
      BY <2>2, <2>4 DEF IInv, ColorsInside
    <3> QED BY <2>2, <2>3, <3>1, ReachesNext
  <2>6. ~Top(w.to)
    <3>1. SUFFICES ASSUME Top(w.to) PROVE FALSE
      OBVIOUS
    <3>2. colors[w.from] <= colors[w.to]
      <4>1. colors[w.to] = w.to + 1
        BY <1>0, <2>2, <3>1 DEF IInv, TopKept
      <4>2. \A x \in Vertices : Connected(w.to, x) => colors[x] # FIRST_COLOR /\ x <= w.to
        BY <3>1 DEF Top
      <4> QED BY <1>0, <2>2, <2>3, <4>1, <4>2, NothingAboveTop
    <3> QED BY <2>1, <2>2, <2>4, <3>2 DEF Color
  <2> QED BY <2>2, <2>3, <2>5, <2>6
<1>4. Threads'
  <2>1. \A x \in reading' : arcs[x[1]] > 0 /\ colors[x[1][1]] # FIRST_COLOR
    BY <1>0 DEF IInv, Threads
  <2>2. \A w \in writing' :
          /\ arcs[<<w.from, w.to>>] > 0 /\ colors[w.from] # FIRST_COLOR
          /\ w.color # FIRST_COLOR /\ Connected(Origin(w.color), w.to) /\ ~Top(w.to)
    BY <1>0, <1>3 DEF IInv, Threads
  <2> QED BY <1>0, <2>1, <2>2, SameComponents DEF Threads, Top
<1>5. Agreement'
  <2> SUFFICES ASSUME device = FALSE, NEW p \in Pairs, Differ(p)
               PROVE  (\E x \in reading' : x[1] = p) \/ (\E w \in writing' : w.slot[1] = p)
    BY <1>0 DEF Agreement, Differ
  <2>1. (\E x \in reading : x[1] = p) \/ (\E w \in writing : w.slot[1] = p)
    BY <1>0 DEF IInv, Agreement
  <2>2. CASE s[1] = p
    <3>1. colors[p[1]] \in Color /\ colors[p[2]] \in Color /\ colors[p[1]] # colors[p[2]]
      BY <1>0, PairTypes DEF Differ, Colored, Coloring
    <3>2. colors[p[1]] > colors[p[2]] \/ colors[p[2]] > colors[p[1]]
      BY <3>1 DEF Color
    <3>3. \E w \in Differing(s) : w.slot[1] = p
      <4>1. CASE colors[p[1]] > colors[p[2]]
        <5> DEFINE w == [slot |-> s, from |-> s[1][1], to |-> s[1][2],
                         color |-> colors[s[1][1]]]
        <5>1. w \in Choices(s) /\ w.color > colors[w.to] /\ w.slot[1] = p
          BY <2>2, <4>1 DEF Choices
        <5> HIDE DEF w
        <5> QED BY <5>1 DEF Differing
      <4>2. CASE colors[p[2]] > colors[p[1]]
        <5> DEFINE w == [slot |-> s, from |-> s[1][2], to |-> s[1][1],
                         color |-> colors[s[1][2]]]
        <5>1. w \in Choices(s) /\ w.color > colors[w.to] /\ w.slot[1] = p
          BY <2>2, <4>2 DEF Choices
        <5> HIDE DEF w
        <5> QED BY <5>1 DEF Differing
      <4> QED BY <3>2, <4>1, <4>2
    <3> QED BY <1>0, <3>3
  <2>3. CASE s[1] # p
    BY <1>0, <2>1, <2>3
  <2> QED BY <2>2, <2>3
<1>6. Quiet'
  BY <1>0 DEF Quiet, ReadColors, graphVars, pairVars, flagVars
<1> QED BY <1>0, <1>4, <1>5, <1>6, LaterFrame DEF Rest

\* The vertex that is written is not the largest of its component, and neither it
\* nor the vertex the colour is from is in the first one.
LEMMA WriteStep == ASSUME IInv, NEW w \in writing, WriteColor(w) PROVE Rest'
<1>0. /\ TypeOK /\ Quiet /\ Colored /\ arcs \in Graphs /\ arcs' = arcs
      /\ pairIn' = pairIn /\ pc = "colorKernel" /\ pc' = "colorKernel"
      /\ reading' = reading /\ writing' = writing \ {w} /\ device' = TRUE
  <2>1. pc = "colorKernel"
    BY Kernels DEF IInv
  <2> QED BY <2>1 DEF IInv, WriteColor, Continue!DeviceAssign, pairVars
<1>1. PICK c \in {w.color, colors[w.from]} : colors' = [colors EXCEPT ![w.to] = c]
  BY DEF WriteColor
<1>2. /\ w.from \in Vertices /\ w.to \in Vertices
      /\ arcs[<<w.from, w.to>>] > 0 /\ colors[w.from] # FIRST_COLOR
      /\ w.color # FIRST_COLOR /\ w.color \in Color
      /\ Connected(Origin(w.color), w.to) /\ ~Top(w.to)
  BY <1>0, WriterTypes DEF IInv, Threads
<1>3. colors[w.to] # FIRST_COLOR
  <2>1. <<w.from, w.to>> \in Edges
    BY <1>2 DEF Edges
  <2> QED BY <1>0, <1>2, <2>1 DEF IInv, FirstClosed, Coloring
<1>4. c \in Color /\ c # FIRST_COLOR /\ Connected(Origin(c), w.to)
  <2>1. colors[w.from] \in Color
    BY <1>0, <1>2 DEF Colored, Coloring
  <2>2. Connected(Origin(colors[w.from]), w.from)
    BY <1>2, <2>1, ColorTypes DEF IInv, ColorsInside
  <2>3. Connected(Origin(colors[w.from]), w.to)
    BY <1>2, <2>2, ReachesNext
  <2> QED BY <1>2, <2>1, <2>3
<1>5. \A v \in Vertices : colors'[v] = IF v = w.to THEN c ELSE colors[v]
  BY <1>0, <1>1 DEF TypeOK
<1>6. \A v \in Vertices : colors'[v] = FIRST_COLOR <=> colors[v] = FIRST_COLOR
  BY <1>3, <1>4, <1>5
<1>7. \A v : Top(v)' <=> Top(v)
  BY <1>0, <1>6, SameComponents DEF Top
<1>8. Colored' /\ FirstClosed'
  <2>1. Colored'
    BY <1>0, <1>4, <1>5 DEF Colored, Traversing, Coloring
  <2>2. FirstClosed'
    BY <1>0, <1>6, EdgeTypes DEF IInv, FirstClosed, Coloring
  <2> QED BY <2>1, <2>2
<1>9. Queued'
  BY <1>0, <1>6, PairTypes DEF IInv, Queued, Coloring
<1>10. Threads'
  <2>1. \A s \in reading' : arcs[s[1]] > 0 /\ colors'[s[1][1]] # FIRST_COLOR
    <3>1. \A s \in reading : s[1][1] \in Vertices
      BY <1>0, ReaderTypes, PairTypes
    <3> QED BY <1>0, <1>6, <3>1 DEF IInv, Threads
  <2>2. \A x \in writing' :
          /\ arcs[<<x.from, x.to>>] > 0 /\ colors'[x.from] # FIRST_COLOR
          /\ x.color # FIRST_COLOR /\ Connected(Origin(x.color), x.to) /\ ~Top(x.to)'
    BY <1>0, <1>6, <1>7, WriterTypes DEF IInv, Threads
  <2> QED BY <1>0, <2>1, <2>2, SameComponents DEF Threads
<1>11. TopKept'
  <2> SUFFICES ASSUME NEW v \in Vertices, Top(v) PROVE colors'[v] = v + 1
    BY <1>7 DEF TopKept
  <2>1. v # w.to
    BY <1>2
  <2>2. colors[v] = v + 1
    BY <1>0 DEF IInv, TopKept
  <2> QED BY <1>5, <2>1, <2>2
<1>12. ColorsInside'
  <2> SUFFICES ASSUME NEW v \in Vertices, colors'[v] # NO_COLOR
               PROVE  Connected(Origin(colors'[v]), v)
    BY <1>0, SameComponents DEF ColorsInside
  <2>1. CASE v = w.to
    BY <1>4, <1>5, <2>1
  <2>2. CASE v # w.to
    <3>1. colors'[v] = colors[v]
      BY <1>5, <2>2
    <3> QED BY <3>1 DEF IInv, ColorsInside
  <2> QED BY <2>1, <2>2
<1>13. Agreement'
  BY <1>0 DEF Agreement
<1>14. Quiet'
  BY <1>0 DEF Quiet, WriteColor, Continue!DeviceAssign, graphVars, pairVars
<1>15. Inside' /\ Frontier'
  BY <1>0, Trivially DEF Traversing
<1> QED BY <1>8, <1>9, <1>10, <1>11, <1>12, <1>13, <1>14, <1>15 DEF Rest

\* No thread is left: if none has told the host, no pair differs.
LEMMA EndStep == IInv /\ EndColoring => Rest'
<1> SUFFICES ASSUME IInv, EndColoring PROVE Rest'
  OBVIOUS
<1>0. /\ arcs' = arcs /\ colors' = colors /\ pairIn' = pairIn /\ device' = device
      /\ pc = "colorKernel" /\ pc' = "continue"
      /\ reading = {} /\ writing = {} /\ reading' = {} /\ writing' = {}
  BY DEF EndColoring, pairVars, flagVars
<1>1. Agreement'
  BY <1>0 DEF IInv, Agreement, Differ
<1>2. Quiet'
  BY <1>0 DEF IInv, Quiet, EndColoring, graphVars, pairVars, flagVars
<1>3. Threads'
  BY <1>0, Trivially
<1> QED BY <1>0, <1>1, <1>2, <1>3, LaterFrame DEF Rest

\* The host reads what the device has.
LEMMA TestContinueStep == IInv /\ TestContinue => Rest'
<1> SUFFICES ASSUME IInv, TestContinue PROVE Rest'
  OBVIOUS
<1>0. /\ arcs' = arcs /\ colors' = colors /\ pairIn' = pairIn
      /\ pc = "continue" /\ pc' = IF device THEN "color" ELSE "done"
      /\ reading' = {} /\ writing' = {}
  BY DEF IInv, Quiet, TestContinue, Continue!Current, pairVars
<1>1. Agreement'
  <2>1. device \in BOOLEAN
    BY DEF IInv, TypeOK
  <2> QED BY <1>0, <2>1 DEF IInv, Agreement, Differ
<1>2. Quiet'
  BY <1>0 DEF IInv, Quiet, TestContinue, graphVars, pairVars
<1>3. Threads'
  BY <1>0, Trivially
<1> QED BY <1>0, <1>1, <1>2, <1>3, LaterFrame DEF Rest

LEMMA StutterStep == IInv /\ UNCHANGED vars => Rest'
<1> SUFFICES ASSUME IInv, UNCHANGED vars PROVE Rest'
  OBVIOUS
<1> USE SameComponents DEF IInv, vars, graphVars, pairVars, flagVars
<1>1. Quiet' /\ Colored' /\ Inside'
  BY DEF Quiet, Colored, Inside, Traversing, Coloring
<1>2. Frontier' /\ FirstClosed' /\ Queued'
  BY DEF Frontier, Pending, FirstClosed, Queued, Traversing, Coloring
<1>3. Threads' /\ TopKept' /\ ColorsInside'
  BY DEF Threads, TopKept, ColorsInside, Top
<1>4. Agreement'
  BY DEF Agreement, Differ
<1> QED BY <1>1, <1>2, <1>3, <1>4 DEF Rest

LEMMA NextIInv == IInv /\ [Next]_vars => IInv'
<1> SUFFICES ASSUME IInv, [Next]_vars PROVE IInv'
  OBVIOUS
<1>1. TypeOK' /\ (arcs \in Graphs)'
  BY TypeStep DEF IInv
<1>2. Rest'
  <2>1. Reset \/ Start \/ UNCHANGED vars => Rest'
    BY ResetStep, StartStep, StutterStep
  <2>2. LaunchGiant \/ NextGiant \/ CollectVertices => Rest'
    BY LaunchGiantStep, NextGiantStep, CollectVerticesStep
  <2>3. (\E e \in Edges : TestColor(e)) \/ (\E v \in Vertices : Mark(v)) => Rest'
    BY TestStep, MarkStep
  <2>4. NoOthers \/ CollectPairs \/ LaunchColoring \/ SkipColoring => Rest'
    BY NoOthersStep, CollectPairsStep, LaunchColoringStep, SkipColoringStep
  <2>5. (\E s \in reading : ReadColors(s)) \/ (\E w \in writing : WriteColor(w)) => Rest'
    BY ReadStep, WriteStep
  <2>6. EndColoring \/ TestContinue => Rest'
    BY EndStep, TestContinueStep
  <2> QED BY <2>1, <2>2, <2>3, <2>4, <2>5, <2>6 DEF Next, Run
<1> QED BY <1>1, <1>2 DEF IInv, Rest

-----------------------------------------------------------------------------
(* The theorems                                                            *)

\* Colours, queue buffers, flag and threads keep their types.
THEOREM TypesHold == Spec => []TypeOK
<1>1. IInv => TypeOK
  BY DEF IInv
<1> QED BY <1>1, InitIInv, NextIInv, PTL DEF Spec

\* A colour never leaves its component, neither in a vertex nor in a thread that
\* is about to write it, in whatever order the threads read and write.
THEOREM ColorsStayInComponents == Spec => []ColorsFromComponent
<1>1. IInv => ColorsFromComponent
  BY DEF IInv, ColorsInside, Threads, ColorsFromComponent
<1> QED BY <1>1, InitIInv, NextIInv, PTL DEF Spec

\* Updates that overwrite each other never lose the largest colour of a component.
THEOREM LargestIsKept == Spec => []LargestKept
<1>1. IInv => LargestKept
  <2> SUFFICES ASSUME IInv, pc \in {"color", "colorKernel", "continue", "done"},
                      NEW v \in Vertices,
                      \A u \in Vertices : Connected(v, u) => colors[u] # FIRST_COLOR /\ u <= v
               PROVE  colors[v] = v + 1
    BY DEF LargestKept
  <2>1. Top(v)
    BY DEF Top
  <2> QED BY <2>1 DEF IInv, TopKept
<1> QED BY <1>1, InitIInv, NextIInv, PTL DEF Spec

\* When run() returns, two vertices have the same colour exactly if they are
\* connected: equal colours have one origin, and where no pair differs the vertices
\* of a colour are a set that edges do not leave.
THEOREM ComponentsAreExact == Spec => []ComponentsExact
<1>1. IInv => ComponentsExact
  <2> SUFFICES ASSUME IInv, pc = "done", NEW u \in Vertices, NEW v \in Vertices
               PROVE  (colors[u] = colors[v]) = Connected(u, v)
    BY DEF ComponentsExact
  <2>0. arcs \in Graphs /\ \A x \in Vertices : colors[x] \in Color
    BY DEF IInv, Colored
  <2>1. ASSUME colors[u] = colors[v] PROVE Connected(u, v)
    <3> DEFINE o == Origin(colors[u])
    <3>1. o \in Vertices
      <4>1. CASE colors[u] = FIRST_COLOR
        BY <2>0, <4>1, MaxDegreeType DEF Origin
      <4>2. CASE colors[u] # FIRST_COLOR
        BY <2>0, <4>2, ColorTypes
      <4> QED BY <4>1, <4>2
    <3>2. Connected(o, u) /\ Connected(o, v)
      BY <2>0, <2>1, ColorTypes DEF IInv, ColorsInside
    <3> HIDE DEF o
    <3> QED BY <2>0, <3>1, <3>2, ReachesBack, ReachesOn
  <2>2. ASSUME Connected(u, v) PROVE colors[u] = colors[v]
    <3> DEFINE S == {x \in Vertices : colors[x] = colors[u]}
    <3>1. ASSUME NEW x \in Vertices, NEW y \in Vertices, arcs[<<x, y>>] > 0
          PROVE  colors[x] = colors[y]
      <4>1. x \in Int /\ y \in Int /\ <<x, y>> \in Edges /\ <<y, x>> \in Edges
        BY VerticesType DEF Edges
      <4>2. arcs[<<y, x>>] > 0
        BY <2>0, <3>1, CCAssumption
      <4>3. CASE x > y
        BY <3>1, <4>1, <4>3 DEF IInv, Agreement, Differ, Pairs
      <4>4. CASE y > x
        BY <4>1, <4>2, <4>4 DEF IInv, Agreement, Differ, Pairs
      <4>5. CASE x = y
        BY <4>5
      <4> QED BY <4>1, <4>3, <4>4, <4>5
    <3>2. Closed(S) /\ S \in SUBSET Vertices /\ u \in S
      BY <3>1 DEF Closed
    <3> QED BY <2>2, <3>2 DEF Connected
  <2>3. (colors[u] = colors[v]) \in BOOLEAN /\ Connected(u, v) \in BOOLEAN
    BY DEF Connected
  <2> QED BY <2>1, <2>2, <2>3
<1> QED BY <1>1, InitIInv, NextIInv, PTL DEF Spec
=============================================================================
