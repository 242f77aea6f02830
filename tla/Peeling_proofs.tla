--------------------------- MODULE Peeling_proofs ---------------------------
(***************************************************************************)
(* Theorems about the algorithms that peel a graph.                        *)
(*                                                                         *)
(* CoreNumber, for every finite set of vertices and every set of           *)
(* undirected graphs: the degree counters are exact although the threads   *)
(* of an edge kernel may peel both ends of an edge, no core is peeled too  *)
(* early, and the numbers that run() stores are the core numbers.          *)
(*                                                                         *)
(* KTruss, for every graph with sorted, symmetric lists, every number of   *)
(* threads and every order of calls: no edge of a truss is erased, and     *)
(* threads in lockstep leave the largest truss.  Most of it is about the   *)
(* merge of two lists (TrussSupport): the threads' shares of the merge     *)
(* path own each match of the lists once.                                  *)
(***************************************************************************)
EXTENDS CoreNumber, KTruss, Enumeration

-----------------------------------------------------------------------------
(* Bags of vertices and their totals                                       *)

Bags == [Vertices -> Nat]

LEMMA TotalFilled == \A b : Total(b) = Cardinality(Filled(Vertices, b))
BY DEF Total, Filled

LEMMA CountsAreTotals == \A b : /\ Active!Count(b) = Total(b)
                                /\ Peel!Count(b) = Total(b)
                                /\ Iter!Count(b) = Total(b)
BY DEF Active!Count, Active!Slots, Active!Cardinality, Cardinality, Total,
       Peel!Count, Peel!Slots, Peel!Cardinality,
       Iter!Count, Iter!Slots, Iter!Cardinality

LEMMA TotalType == ASSUME NEW b \in Bags
                   PROVE  Total(b) \in Nat
BY FilledIsZero, TotalFilled, CoreAssumption DEF Bags

\* Only a bag without items has none.
LEMMA TotalZero == ASSUME NEW b \in Bags, Total(b) = 0, NEW v \in Vertices
                   PROVE  b[v] = 0
<1>1. b = [w \in Vertices |-> 0]
  BY FilledIsZero, TotalFilled, CoreAssumption DEF Bags
<1> QED BY <1>1

LEMMA TotalEmpty == ASSUME NEW b \in Bags, \A v \in Vertices : b[v] = 0
                    PROVE  Total(b) = 0
<1>1. b = [w \in Vertices |-> 0]
  BY DEF Bags
<1> QED BY <1>1, FilledIsZero, TotalFilled, CoreAssumption DEF Bags

\* One item less.
LEMMA TotalLess == ASSUME NEW b \in Bags, NEW v \in Vertices, b[v] > 0
                   PROVE  Total([b EXCEPT ![v] = @ - 1]) = Total(b) - 1
<1> DEFINE c == [b EXCEPT ![v] = @ - 1]
<1>1. c \in Bags
  <2>1. b[v] \in Nat /\ b[v] > 0
    BY DEF Bags
  <2>2. b[v] - 1 \in Nat
    BY <2>1
  <2> QED BY <2>2 DEF Bags
<1>2. [c EXCEPT ![v] = @ + 1] = b
  <2>1. b[v] \in Nat /\ c[v] = b[v] - 1 /\ \A w \in Vertices \ {v} : c[w] = b[w]
    BY DEF Bags
  <2>2. c[v] + 1 = b[v]
    BY <2>1
  <2> HIDE DEF c
  <2>3. [c EXCEPT ![v] = @ + 1] \in [Vertices -> Nat]
    BY <1>1, <2>2 DEF Bags
  <2>4. \A w \in Vertices : [c EXCEPT ![v] = @ + 1][w] = b[w]
    BY <1>1, <2>1, <2>2 DEF Bags
  <2> QED BY <2>3, <2>4 DEF Bags
<1>3. Total([c EXCEPT ![v] = @ + 1]) = Total(c) + 1
  BY <1>1, FilledByOne, TotalFilled, CoreAssumption DEF Bags
<1>4. Total(c) \in Nat /\ Total(b) \in Nat
  BY <1>1, TotalType
<1>5. Total(b) = Total(c) + 1
  BY <1>2, <1>3
<1> HIDE DEF c
<1>6. Total(c) = Total(b) - 1
  BY <1>4, <1>5
<1> QED BY <1>6 DEF c

\* A bag with no fewer of any item has no fewer items.
LEMMA TotalMonotone ==
    ASSUME NEW b \in Bags, NEW c \in Bags, \A v \in Vertices : b[v] <= c[v]
    PROVE  Total(b) <= Total(c)
<1>1. IsFiniteSet(Filled(Vertices, c))
  BY FilledFinite, CoreAssumption DEF Bags
<1>2. Filled(Vertices, b) \subseteq Filled(Vertices, c)
  <2> SUFFICES ASSUME NEW v \in Vertices, NEW n \in 1 .. b[v]
               PROVE  n \in 1 .. c[v]
    BY DEF Filled
  <2>1. b[v] \in Nat /\ c[v] \in Nat /\ b[v] <= c[v]
    BY DEF Bags
  <2> QED BY <2>1
<1> QED BY <1>1, <1>2, FS_Subset, TotalFilled

\* Bags with equally many of each item.
LEMMA TotalEqual ==
    ASSUME NEW b \in Bags, NEW c \in Bags, \A v \in Vertices : b[v] = c[v]
    PROVE  Total(b) = Total(c)
<1>1. b = c
  BY DEF Bags
<1> QED BY <1>1

\* A set as a bag.
LEMMA TotalOnce == ASSUME NEW S \in SUBSET Vertices
                   PROVE  Once(S) \in Bags /\ Total(Once(S)) = Cardinality(S)
<1> DEFINE F == Filled(Vertices, Once(S))
           f == [v \in S |-> <<v, 1>>]
<1>1. Once(S) \in Bags
  BY DEF Once, Bags
<1>2. IsFiniteSet(S)
  BY FS_Subset, CoreAssumption
<1>3. F = {<<v, 1>> : v \in S}
  <2>1. ASSUME NEW x \in F PROVE x \in {<<v, 1>> : v \in S}
    <3>1. PICK v \in Vertices : x \in {v} \X (1 .. Once(S)[v])
      BY <2>1 DEF Filled
    <3>2. PICK n \in 1 .. Once(S)[v] : x = <<v, n>>
      BY <3>1
    <3>3. v \in S /\ n = 1
      BY <3>2 DEF Once
    <3> QED BY <3>2, <3>3
  <2>2. ASSUME NEW v \in S PROVE <<v, 1>> \in F
    <3>1. Once(S)[v] = 1
      BY DEF Once
    <3> QED BY <3>1 DEF Filled
  <2> QED BY <2>1, <2>2
<1>4. f \in Bijection(S, F)
  BY <1>3 DEF Bijection, Injection, Surjection, IsInjective
<1>5. Cardinality(F) = Cardinality(S)
  BY <1>2, <1>4, FS_Bijection DEF ExistsBijection
<1> QED BY <1>1, <1>5, TotalFilled

-----------------------------------------------------------------------------
(* Degrees and cores                                                       *)

LEMMA ArcsType == ASSUME arcs \in Graphs
                  PROVE  /\ arcs \in [Edges -> Nat]
                         /\ \A u, v \in Vertices : arcs[<<u, v>>] \in Nat
                         /\ \A u, v \in Vertices : arcs[<<u, v>>] = arcs[<<v, u>>]
<1>1. arcs \in {g \in [Edges -> Nat] : \A u, v \in Vertices : g[<<u, v>>] = g[<<v, u>>]}
  BY CoreAssumption
<1>2. arcs \in [Edges -> Nat] /\ \A u, v \in Vertices : arcs[<<u, v>>] = arcs[<<v, u>>]
  BY <1>1
<1>3. \A u, v \in Vertices : <<u, v>> \in Edges
  BY DEF Edges
<1> QED BY <1>2, <1>3

\* The degree within a set grows with the set, up to the degree.
LEMMA DegreesGrow ==
    ASSUME arcs \in Graphs, NEW v \in Vertices, NEW S, NEW T, S \subseteq T
    PROVE  /\ Degree(v) \in Nat
           /\ DegreeIn(S, v) \in Nat
           /\ DegreeIn(S, v) <= DegreeIn(T, v)
           /\ DegreeIn(S, v) <= Degree(v)
<1> DEFINE all   == [w \in Vertices |-> arcs[<<v, w>>]]
           in(X) == [w \in Vertices |-> IF w \in X THEN arcs[<<v, w>>] ELSE 0]
<1>1. \A w \in Vertices : arcs[<<v, w>>] \in Nat
  BY ArcsType
<1>2. all \in Bags /\ in(S) \in Bags /\ in(T) \in Bags
  BY <1>1 DEF Bags
<1>3. \A w \in Vertices : in(S)[w] <= in(T)[w] /\ in(S)[w] <= all[w]
  BY <1>1
<1>4. Degree(v) = Total(all) /\ DegreeIn(S, v) = Total(in(S)) /\ DegreeIn(T, v) = Total(in(T))
  BY DEF Degree, DegreeIn
<1> HIDE DEF all, in
<1> QED BY <1>2, <1>3, <1>4, TotalType, TotalMonotone

\* An edge gives both of its ends a degree.
LEMMA EdgeGivesDegree ==
    ASSUME arcs \in Graphs, NEW u \in Vertices, NEW v \in Vertices,
           arcs[<<u, v>>] > 0
    PROVE  Degree(u) > 0 /\ Degree(v) > 0
<1>1. \A x, y \in Vertices : arcs[<<x, y>>] \in Nat /\ arcs[<<x, y>>] = arcs[<<y, x>>]
  BY ArcsType
<1>2. ASSUME NEW x \in Vertices, NEW y \in Vertices, arcs[<<x, y>>] > 0
      PROVE  Degree(x) > 0
  <2> DEFINE all == [w \in Vertices |-> arcs[<<x, w>>]]
  <2>1. all \in Bags
    BY <1>1 DEF Bags
  <2>2. all[y] # 0
    BY <1>1, <1>2
  <2>3. Degree(x) = Total(all)
    BY DEF Degree
  <2> HIDE DEF all
  <2>4. Total(all) # 0 /\ Total(all) \in Nat
    BY <2>1, <2>2, TotalZero, TotalType
  <2> QED BY <2>3, <2>4
<1> QED BY <1>1, <1>2

\* What is said of a graph stays true while the graph does not change.
LEMMA CoresStable ==
    ASSUME arcs' = arcs
    PROVE  /\ \A v : Degree(v)' = Degree(v)
           /\ \A S, k : IsCore(S, k)' <=> IsCore(S, k)
           /\ \A v, k : HasCoreNumber(v, k)' <=> HasCoreNumber(v, k)
<1>1. \A v : Degree(v)' = Degree(v)
  BY DEF Degree
<1>2. \A S, v : DegreeIn(S, v)' = DegreeIn(S, v)
  BY DEF DegreeIn
<1>3. \A S, k : IsCore(S, k)' <=> IsCore(S, k)
  BY <1>2 DEF IsCore
<1>4. \A v, k : HasCoreNumber(v, k)' <=> HasCoreNumber(v, k)
  BY <1>3 DEF HasCoreNumber
<1> QED BY <1>1, <1>3, <1>4

\* A core of a higher degree is one of a lower degree.
LEMMA CoresWeaken ==
    ASSUME arcs \in Graphs, NEW S \in SUBSET Vertices, NEW k \in Nat,
           IsCore(S, k + 1)
    PROVE  IsCore(S, k)
<1>1. \A v \in S : DegreeIn(S, v) \in Nat /\ DegreeIn(S, v) >= k + 1
  BY DegreesGrow DEF IsCore
<1> QED BY <1>1 DEF IsCore

-----------------------------------------------------------------------------
(* The inductive invariant                                                 *)

\* The active queue holds the vertices that have edges.
Marks == /\ \A v \in Vertices : activeIn[v] > 0 => Degree(v) > 0
         /\ pc \in {"loop", "done"} =>
              \A v \in Vertices : Degree(v) > 0 => /\ activeIn[v] = 1
                                                   /\ vertex_pres[v] \in {0, 1, 2}

\* Threads of the edge kernel begin at vertices peeled at this level.
Threads == /\ pc # "loop" => pending = NoThread
           /\ \A u, v \in Vertices : pending[<<u, v>>] > 0 => vertex_pres[u] = 2

\* Nothing is peeled at level zero; after it, the buffer into which peeled
\* vertices go holds none of those that may still be peeled.
Levels == /\ pc = "loop" /\ peel = 0 =>
               \A v \in Vertices : Degree(v) > 0 => vertex_pres[v] = 1
          /\ pc = "loop" /\ peel > 0 =>
               \A v \in Vertices : vertex_pres[v] = 1 /\ activeIn[v] > 0 => peelOut[v] = 0

\* The vertices that had no number when the level began: a core of the level.
Level     == {v \in Vertices : activeIn[v] > 0 /\ vertex_pres[v] \in {1, 2}}
LevelCore == pc = "loop" => IsCore(Level, peel)

\* n_active counts what remains, and a loop ends with nothing.
Counted == /\ pc = "loop" => n_active = Cardinality(Remaining)
           /\ pc = "done" => Remaining = {}

\* The numbers that CoreNumber has stored are right, isolated vertices
\* included; at the end it has stored all of them.
Numbered == ~kcore =>
    /\ \A v \in Vertices : Degree(v) = 0 => core_number[v] = 0
    /\ pc \in {"loop", "done"} =>
         \A v \in Vertices : activeIn[v] > 0 /\ vertex_pres[v] = 0
                               => HasCoreNumber(v, core_number[v])
    /\ pc = "done" => \A v \in Vertices : activeIn[v] > 0 => vertex_pres[v] # 2

\* Those that KCore has stored, in this run or an earlier one, are one too
\* large, and there is a core of the stored number.
KNumbered == kcore =>
    /\ \A v \in Vertices : core_number[v] # 0 =>
         /\ HasCoreNumber(v, core_number[v] - 1)
         /\ \E S \in SUBSET Vertices : S # {} /\ IsCore(S, core_number[v])
    /\ pc \in {"loop", "done"} =>
         \A v \in Vertices : activeIn[v] > 0 /\ vertex_pres[v] = 0
                               => core_number[v] # 0
    /\ pc = "done" =>
         \A v \in Vertices : activeIn[v] > 0 /\ vertex_pres[v] = 2 =>
           HasCoreNumber(v, peel) /\ core_number[v] = 0

IInv == /\ TypeOK /\ DegreesExact /\ CoresKept
        /\ Marks /\ Threads /\ Levels /\ LevelCore /\ Counted
        /\ Numbered /\ KNumbered

LEMMA InitIInv == Init => IInv
<1> SUFFICES ASSUME Init PROVE IInv
  OBVIOUS
<1> USE DEF Init, Active!Init, Active!Empty, Peel!Init, Peel!Empty, Iter!Init, Iter!Empty
<1>1. \A v \in Vertices : activeIn[v] = 0
  OBVIOUS
<1>2. \A u, v \in Vertices : pending[<<u, v>>] = 0
  BY DEF NoThread, Edges
<1>3. TypeOK
  BY CoreAssumption DEF TypeOK, NoThread
<1>4. DegreesExact /\ CoresKept
  BY <1>1 DEF DegreesExact, CoresKept, Remaining
<1>5. Marks /\ Threads /\ Levels /\ LevelCore /\ Counted
  BY <1>1, <1>2 DEF Marks, Threads, Levels, LevelCore, Counted
<1>6. Numbered /\ KNumbered
  BY <1>1 DEF Numbered, KNumbered
<1> QED BY <1>3, <1>4, <1>5, <1>6 DEF IInv

-----------------------------------------------------------------------------
(* Facts about a state of the loop                                         *)

\* Degree counters are those of a bag of edges.
LEMMA RemainingBag ==
    ASSUME TypeOK, NEW v \in Vertices
    PROVE  [w \in Vertices |-> IF w \in Remaining THEN arcs[<<v, w>>]
                                                  ELSE pending[<<w, v>>]] \in Bags
<1>1. \A w \in Vertices : arcs[<<v, w>>] \in Nat /\ pending[<<w, v>>] \in Nat
  <2>1. \A w \in Vertices : <<w, v>> \in Edges
    BY DEF Edges
  <2> QED BY <2>1, ArcsType DEF TypeOK
<1> QED BY <1>1 DEF Bags

\* With no thread to come, what a vertex counts is its edges to the others.
LEMMA HeadDegrees ==
    ASSUME IInv, pending = NoThread, NEW v \in Remaining
    PROVE  vertex_deg[v] = DegreeIn(Remaining, v)
<1>1. v \in Vertices /\ \A w \in Vertices : pending[<<w, v>>] = 0
  BY DEF Remaining, NoThread, Edges
<1>2. [w \in Vertices |-> IF w \in Remaining THEN arcs[<<v, w>>]
                                             ELSE pending[<<w, v>>]]
        = [w \in Vertices |-> IF w \in Remaining THEN arcs[<<v, w>>] ELSE 0]
  BY <1>1
<1> QED BY <1>1, <1>2 DEF IInv, DegreesExact, DegreeIn

\* Nothing is peeled at level zero.
LEMMA LevelZero == ASSUME IInv, AtHead, peel = 0
                   PROVE  Peelable = {}
<1> SUFFICES ASSUME NEW v \in Peelable PROVE FALSE
  OBVIOUS
<1> USE DEF IInv
<1>1. v \in Remaining /\ v \in Vertices /\ vertex_deg[v] <= 0
  BY DEF Peelable, Remaining
<1>2. Degree(v) > 0
  BY <1>1 DEF Marks, Remaining
<1>3. \A w \in Vertices : Degree(w) > 0 => w \in Remaining
  BY DEF AtHead, Levels, Marks, Remaining
<1>4. \A w \in Vertices : w \notin Remaining => arcs[<<v, w>>] = 0
  <2>1. \A w \in Vertices : arcs[<<v, w>>] \in Nat
    BY <1>1, ArcsType DEF TypeOK
  <2> QED BY <1>1, <1>3, <2>1, EdgeGivesDegree DEF TypeOK
<1>5. [w \in Vertices |-> IF w \in Remaining THEN arcs[<<v, w>>] ELSE 0]
        = [w \in Vertices |-> arcs[<<v, w>>]]
  BY <1>4
<1>6. DegreeIn(Remaining, v) = Degree(v)
  BY <1>5 DEF DegreeIn, Degree
<1>7. Degree(v) \in Nat
  BY <1>1, DegreesGrow DEF TypeOK
<1> QED BY <1>1, <1>2, <1>6, <1>7, HeadDegrees DEF AtHead

\* A vertex peeled at this level has the number of the level.
LEMMA PeeledNumber ==
    ASSUME IInv, pc = "loop", NEW v \in Vertices, activeIn[v] > 0, vertex_pres[v] = 2
    PROVE  HasCoreNumber(v, peel)
<1>1. v \in Level /\ Level \in SUBSET Vertices /\ IsCore(Level, peel)
  BY DEF IInv, LevelCore, Level
<1>2. \A S \in SUBSET Vertices : v \in S => ~IsCore(S, peel + 1)
  BY DEF IInv, CoresKept, Remaining
<1> QED BY <1>1, <1>2 DEF HasCoreNumber

\* A vertex has one core number.
LEMMA SameNumber ==
    ASSUME arcs \in Graphs, NEW v \in Vertices, NEW j \in Nat, NEW k \in Nat,
           HasCoreNumber(v, j), HasCoreNumber(v, k)
    PROVE  j = k
<1>1. ASSUME NEW i \in Nat, NEW l \in Nat, HasCoreNumber(v, i), HasCoreNumber(v, l)
      PROVE  ~(i < l)
  <2> SUFFICES ASSUME i < l PROVE FALSE
    OBVIOUS
  <2>1. PICK S \in SUBSET Vertices : v \in S /\ IsCore(S, l)
    BY <1>1 DEF HasCoreNumber
  <2>2. \A w \in S : DegreeIn(S, w) \in Nat /\ DegreeIn(S, w) >= l
    BY <2>1, DegreesGrow DEF IsCore
  <2>3. IsCore(S, i + 1)
    BY <2>2 DEF IsCore
  <2> QED BY <1>1, <2>1, <2>3 DEF HasCoreNumber
<1> QED BY <1>1

\* An isolated vertex has core number 0.
LEMMA IsolatedNumber ==
    ASSUME arcs \in Graphs, NEW v \in Vertices, Degree(v) = 0
    PROVE  HasCoreNumber(v, 0)
<1>1. \A S \in SUBSET Vertices : DegreeIn(S, v) \in Nat /\ DegreeIn(S, v) <= 0
  BY DegreesGrow
<1>2. {v} \in SUBSET Vertices /\ v \in {v} /\ IsCore({v}, 0)
  BY <1>1 DEF IsCore
<1>3. \A S \in SUBSET Vertices : v \in S => ~IsCore(S, 0 + 1)
  BY <1>1 DEF IsCore
<1> QED BY <1>2, <1>3 DEF HasCoreNumber

-----------------------------------------------------------------------------
(* The steps                                                               *)

LEMMA ResetStep == IInv /\ Reset => IInv'
<1> SUFFICES ASSUME IInv, Reset PROVE IInv'
  OBVIOUS
<1> USE DEF Reset, Active!Swap, Active!Empty, Peel!Swap, Peel!Empty, Iter!Swap, Iter!Empty
<1>1. /\ pc' = "ready" /\ arcs' = arcs /\ kcore' = kcore /\ vertex_pres' = vertex_pres
      /\ core_number' = core_number /\ pending' = pending
      /\ activeIn' = [v \in Vertices |-> 0]
  BY DEF graph, IInv, TypeOK
<1>2. \A v \in Vertices : activeIn'[v] = 0
  BY <1>1
<1>3. TypeOK'
  BY <1>1 DEF IInv, TypeOK, graph
<1>4. DegreesExact' /\ CoresKept'
  BY <1>1, <1>2 DEF DegreesExact, CoresKept, Remaining
<1>5. Marks' /\ Levels' /\ LevelCore' /\ Counted'
  BY <1>1, <1>2 DEF Marks, Levels, LevelCore, Counted
<1>6. Threads'
  BY <1>1 DEF IInv, Threads, NoThread
<1>7. Numbered' /\ KNumbered'
  BY <1>1, CoresStable DEF IInv, Numbered, KNumbered
<1> QED BY <1>3, <1>4, <1>5, <1>6, <1>7 DEF IInv

LEMMA DecrementStep == IInv /\ (\E e \in Edges : DecrementDegree(e)) => IInv'
<1> SUFFICES ASSUME IInv, NEW e \in Edges, DecrementDegree(e) PROVE IInv'
  OBVIOUS
<1> DEFINE u == e[1]
           w == e[2]
           bag(v, p) == [x \in Vertices |-> IF x \in Remaining THEN arcs[<<v, x>>]
                                                               ELSE p[<<x, v>>]]
<1>1. u \in Vertices /\ w \in Vertices /\ e = <<u, w>>
  BY DEF Edges
<1>2. /\ pc' = pc /\ arcs' = arcs /\ kcore' = kcore /\ vertex_pres' = vertex_pres
      /\ core_number' = core_number /\ n_active' = n_active /\ peel' = peel
      /\ activeIn' = activeIn /\ peelIn' = peelIn /\ peelOut' = peelOut
  BY DEF DecrementDegree, graph, activeQ, peelQ, iterQ
<1>3. Remaining' = Remaining /\ Level' = Level
  BY <1>2 DEF Remaining, Level
<1>4. pending[e] \in Nat /\ pending[e] > 0 /\ pending' = [pending EXCEPT ![e] = @ - 1]
  BY DEF DecrementDegree, IInv, TypeOK
<1>5. pc = "loop" /\ vertex_pres[u] = 2 /\ u \notin Remaining
  <2>1. pending # NoThread
    BY <1>4 DEF NoThread
  <2>2. pending[<<u, w>>] > 0
    BY <1>1, <1>4
  <2>3. vertex_pres[u] = 2
    BY <1>1, <2>2 DEF IInv, Threads
  <2> QED BY <2>1, <2>3 DEF IInv, Threads, Remaining, TypeOK
<1>6. TypeOK'
  <2>1. pending' \in [Edges -> Nat]
    BY <1>4 DEF IInv, TypeOK
  <2>2. vertex_deg' \in [Vertices -> Int]
    <3>1. [vertex_deg EXCEPT ![u] = @ - 1] \in [Vertices -> Int]
      BY <1>1 DEF IInv, TypeOK
    <3>2. [[vertex_deg EXCEPT ![u] = @ - 1] EXCEPT ![w] = @ - 1] \in [Vertices -> Int]
      BY <1>1, <3>1
    <3> QED BY <3>2 DEF DecrementDegree
  <2> QED BY <1>2, <2>1, <2>2 DEF IInv, TypeOK, DecrementDegree, activeQ, iterQ
<1>7. DegreesExact'
  <2> SUFFICES ASSUME NEW v \in Remaining
               PROVE  vertex_deg'[v] = Total(bag(v, pending'))
    BY <1>2, <1>3 DEF DegreesExact
  <2>1. v \in Vertices /\ v # u
    BY <1>5 DEF Remaining
  <2>2. vertex_deg[v] = Total(bag(v, pending)) /\ vertex_deg \in [Vertices -> Int]
    BY DEF IInv, DegreesExact, TypeOK
  <2>3. bag(v, pending) \in Bags
    BY <2>1, RemainingBag DEF IInv
  <2>4. CASE v = w
    <3>1. vertex_deg'[v] = vertex_deg[v] - 1
      BY <1>1, <2>1, <2>2, <2>4 DEF DecrementDegree
    <3>2. bag(v, pending)[u] > 0
      BY <1>1, <1>4, <1>5, <2>4
    <3>3. \A x \in Vertices : pending'[<<x, v>>] =
             IF x = u THEN pending[<<x, v>>] - 1 ELSE pending[<<x, v>>]
      <4>1. \A x \in Vertices : <<x, v>> \in Edges
        BY <2>1 DEF Edges
      <4>2. pending \in [Edges -> Nat]
        BY DEF IInv, TypeOK
      <4> QED BY <1>1, <1>4, <2>4, <4>1, <4>2
    <3>4. bag(v, pending') = [bag(v, pending) EXCEPT ![u] = @ - 1]
      BY <1>1, <1>5, <3>3
    <3>5. Total(bag(v, pending')) = Total(bag(v, pending)) - 1
      <4> HIDE DEF bag
      <4> QED BY <1>1, <2>3, <3>2, <3>4, TotalLess
    <3> QED BY <2>2, <3>1, <3>5
  <2>5. CASE v # w
    <3>1. vertex_deg'[v] = vertex_deg[v]
      BY <1>1, <2>1, <2>2, <2>5 DEF DecrementDegree
    <3>2. \A x \in Vertices : pending'[<<x, v>>] = pending[<<x, v>>]
      <4>1. \A x \in Vertices : <<x, v>> \in Edges /\ <<x, v>> # e
        BY <1>1, <2>1, <2>5 DEF Edges
      <4>2. pending \in [Edges -> Nat]
        BY DEF IInv, TypeOK
      <4> QED BY <1>4, <4>1, <4>2
    <3>3. bag(v, pending') = bag(v, pending)
      BY <3>2
    <3> QED BY <2>2, <3>1, <3>3
  <2> QED BY <2>4, <2>5
<1>8. CoresKept' /\ LevelCore' /\ Marks' /\ Levels' /\ Counted' /\ Numbered' /\ KNumbered'
  <2>1. CoresKept' /\ LevelCore'
    BY <1>2, <1>3, CoresStable DEF IInv, CoresKept, LevelCore
  <2>2. Marks' /\ Levels' /\ Counted'
    BY <1>2, <1>3, CoresStable DEF IInv, Marks, Levels, Counted
  <2>3. Numbered' /\ KNumbered'
    BY <1>2, CoresStable DEF IInv, Numbered, KNumbered
  <2> QED BY <2>1, <2>2, <2>3
<1>9. Threads'
  <2>1. ASSUME NEW x \in Vertices, NEW y \in Vertices, pending'[<<x, y>>] > 0
        PROVE  pending[<<x, y>>] > 0
    <3>1. <<x, y>> \in Edges /\ pending \in [Edges -> Nat]
      BY DEF Edges, IInv, TypeOK
    <3> QED BY <1>4, <2>1, <3>1
  <2> QED BY <1>2, <1>5, <2>1 DEF IInv, Threads
<1> QED BY <1>6, <1>7, <1>8, <1>9 DEF IInv

LEMMA BeginStep == IInv /\ Begin => IInv'
<1> SUFFICES ASSUME IInv, Begin PROVE IInv'
  OBVIOUS
<1> DEFINE connected == {v \in Vertices : Degree(v) > 0}
<1>1. /\ pc \in {"ready", "done"} /\ pc' = "loop" /\ arcs' = arcs /\ kcore' = kcore
      /\ core_number' = core_number /\ peel' = 0 /\ pending' = pending
      /\ peelIn' = peelIn /\ peelOut' = peelOut /\ iterIn' = iterIn /\ iterOut' = iterOut
      /\ n_active' = activeSize'
  BY DEF Begin, graph, peelQ, iterQ
<1>2. \A v \in Vertices : Degree(v) \in Nat
  BY DegreesGrow DEF IInv, TypeOK
<1>3. /\ activeIn' = Once(connected)
      /\ activeOut' = Active!Empty
      /\ activeSize' = Active!Count(activeIn')
  <2>1. \A v \in Vertices : Once(connected)[v] \in {0, 1} /\ activeOut[v] = 0
    BY DEF Once, IInv, TypeOK, Active!Empty
  <2>2. activeIn' = [v \in Vertices |-> activeOut[v] + Once(connected)[v]]
    BY DEF Begin, Active!AppendAndSwap
  <2>3. activeIn' = Once(connected)
    BY <2>1, <2>2 DEF Once
  <2> QED BY <2>3 DEF Begin, Active!AppendAndSwap
<1>4. \A v \in Vertices : activeIn'[v] = IF v \in connected THEN 1 ELSE 0
  BY <1>3 DEF Once
<1>5. \A v \in connected : vertex_pres'[v] = 1 /\ vertex_deg'[v] = Degree(v)
  BY DEF Begin
<1>6. Remaining' = connected /\ Level' = connected
  BY <1>4, <1>5 DEF Remaining, Level
<1>7. pending' = NoThread /\ \A u, v \in Vertices : pending'[<<u, v>>] = 0
  BY <1>1 DEF IInv, Threads, NoThread, Edges
<1>8. n_active' = Cardinality(connected) /\ n_active' \in Nat
  <2>1. Total(Once(connected)) = Cardinality(connected) /\ Once(connected) \in Bags
    BY TotalOnce
  <2> QED BY <1>1, <1>3, <2>1, CountsAreTotals, TotalType
<1>9. TypeOK'
  <2>1. activeIn' \in [Vertices -> {0, 1}]
    BY <1>3 DEF Once
  <2>2. vertex_pres' \in [Vertices -> Int] /\ vertex_deg' \in [Vertices -> Int]
    BY <1>2 DEF Begin, IInv, TypeOK
  <2> QED BY <1>1, <1>3, <1>8, <2>1, <2>2 DEF IInv, TypeOK, Active!Empty, Iter!Empty
<1>10. DegreesExact'
  <2> SUFFICES ASSUME NEW v \in connected
               PROVE  vertex_deg'[v] = Total([w \in Vertices |->
                        IF w \in connected THEN arcs[<<v, w>>] ELSE pending'[<<w, v>>]])
    BY <1>1, <1>6 DEF DegreesExact
  <2>1. \A w \in Vertices : arcs[<<v, w>>] \in Nat
    BY ArcsType DEF IInv, TypeOK
  <2>2. \A w \in Vertices : w \notin connected => arcs[<<v, w>>] = 0
    BY <2>1, EdgeGivesDegree DEF IInv, TypeOK
  <2>3. [w \in Vertices |-> IF w \in connected THEN arcs[<<v, w>>] ELSE pending'[<<w, v>>]]
          = [w \in Vertices |-> arcs[<<v, w>>]]
    BY <1>7, <2>2
  <2> QED BY <1>5, <2>3 DEF Degree
<1>11. CoresKept'
  <2> SUFFICES ASSUME NEW S \in SUBSET Vertices, IsCore(S, 0 + 1), NEW v \in S
               PROVE  Degree(v) > 0
    BY <1>1, <1>6, CoresStable DEF CoresKept
  <2>1. v \in Vertices /\ DegreeIn(S, v) >= 1
    BY DEF IsCore
  <2> QED BY <2>1, DegreesGrow DEF IInv, TypeOK
<1>12. Marks' /\ Threads' /\ Levels' /\ Counted'
  BY <1>1, <1>4, <1>5, <1>6, <1>7, <1>8, CoresStable DEF Marks, Threads, Levels, Counted
<1>13. LevelCore'
  <2>1. \A v \in connected : DegreeIn(connected, v) >= 0
    BY DegreesGrow DEF IInv, TypeOK
  <2>2. IsCore(connected, 0)
    BY <2>1 DEF IsCore
  <2> QED BY <1>1, <1>6, <2>2, CoresStable DEF LevelCore
<1>14. Numbered' /\ KNumbered'
  <2>1. \A v \in Vertices : activeIn'[v] > 0 => vertex_pres'[v] = 1
    BY <1>4, <1>5
  <2> QED BY <1>1, <2>1, CoresStable DEF IInv, Numbered, KNumbered
<1> QED BY <1>9, <1>10, <1>11, <1>12, <1>13, <1>14 DEF IInv

LEMMA PeelStep == IInv /\ PeelVertices => IInv'
<1> SUFFICES ASSUME IInv, PeelVertices PROVE IInv'
  OBVIOUS
<1>1. /\ pc = "loop" /\ pc' = "loop" /\ arcs' = arcs /\ kcore' = kcore /\ pending = NoThread
      /\ core_number' = core_number /\ peel' = peel /\ vertex_deg' = vertex_deg
      /\ activeIn' = activeIn /\ activeOut' = activeOut
      /\ Peelable # {} /\ peelIn' = peelIn /\ n_active' = n_active - iterSize'
  BY DEF PeelVertices, AtHead, graph, activeQ, Peel!Append
<1>2. /\ Peelable \subseteq Remaining /\ Remaining \subseteq Vertices
      /\ \A v \in Peelable : vertex_deg[v] <= peel
  BY DEF Peelable, Remaining
<1>3. \A v \in Vertices : vertex_pres'[v] = IF v \in Peelable THEN 2 ELSE vertex_pres[v]
  BY DEF PeelVertices
<1>4. Remaining' = Remaining \ Peelable
  BY <1>1, <1>3 DEF Remaining
<1>5. Level' = Level
  BY <1>1, <1>2, <1>3 DEF Level, Remaining
<1>6. peel # 0
  BY <1>1, LevelZero DEF AtHead
<1>7. \A v \in Vertices : peelOut'[v] = peelOut[v] + (IF v \in Peelable THEN 1 ELSE 0)
  <2>1. peelOut' = [v \in Vertices |-> peelOut[v] + Once(Peelable)[v]]
    BY DEF PeelVertices, Peel!Append
  <2> QED BY <2>1 DEF Once
<1>8. /\ iterIn' = Once(Peelable) /\ iterOut' = Iter!Empty /\ iterSize' = Iter!Count(iterIn')
  <2>1. \A v \in Vertices : Once(Peelable)[v] \in {0, 1} /\ iterOut[v] = 0
    BY DEF Once, IInv, TypeOK, Iter!Empty
  <2>2. iterIn' = [v \in Vertices |-> iterOut[v] + Once(Peelable)[v]]
    BY DEF PeelVertices, Iter!AppendAndSwap
  <2>3. iterIn' = Once(Peelable)
    BY <2>1, <2>2 DEF Once
  <2> QED BY <2>3 DEF PeelVertices, Iter!AppendAndSwap
<1>9. n_active' = Cardinality(Remaining \ Peelable) /\ n_active' \in Nat
  <2>1. iterSize' = Cardinality(Peelable)
    BY <1>2, <1>8, TotalOnce, CountsAreTotals
  <2>2. IsFiniteSet(Remaining) /\ IsFiniteSet(Peelable)
    BY <1>2, FS_Subset, CoreAssumption
  <2>3. /\ IsFiniteSet(Remaining \ Peelable)
        /\ Cardinality(Remaining \ Peelable)
             = Cardinality(Remaining) - Cardinality(Remaining \cap Peelable)
    BY <2>2, FS_Difference
  <2>4. Remaining \cap Peelable = Peelable
    BY <1>2
  <2> QED BY <1>1, <2>1, <2>3, <2>4, FS_CardinalityType DEF IInv, Counted
<1>10. \A u, v \in Vertices : pending'[<<u, v>>] = IF u \in Peelable THEN arcs[<<u, v>>] ELSE 0
  <2>1. pending' = [e \in Edges |-> iterIn'[e[1]] * arcs[e]]
    BY DEF PeelVertices
  <2>2. ASSUME NEW u \in Vertices, NEW v \in Vertices
        PROVE  pending'[<<u, v>>] = IF u \in Peelable THEN arcs[<<u, v>>] ELSE 0
    <3>1. <<u, v>> \in Edges /\ arcs[<<u, v>>] \in Nat
      BY ArcsType DEF Edges, IInv, TypeOK
    <3>2. iterIn'[u] = IF u \in Peelable THEN 1 ELSE 0
      BY <1>8 DEF Once
    <3>3. pending'[<<u, v>>] = iterIn'[u] * arcs[<<u, v>>]
      BY <2>1, <3>1
    <3> QED BY <3>1, <3>2, <3>3
  <2> QED BY <2>2
<1>11. TypeOK'
  <2>1. iterIn' \in [Vertices -> {0, 1}]
    BY <1>8 DEF Once
  <2>2. peelOut' \in [Vertices -> {0, 1}]
    <3>1. \A v \in Vertices : v \in Peelable => peelOut[v] = 0
      BY <1>1, <1>6 DEF Peelable, IInv, Levels, TypeOK
    <3>2. \A v \in Vertices : peelOut'[v] \in {0, 1}
      BY <1>7, <3>1 DEF IInv, TypeOK
    <3>3. peelOut' = [v \in Vertices |-> peelOut'[v]]
      BY DEF PeelVertices, Peel!Append
    <3> QED BY <3>2, <3>3
  <2>3. pending' \in [Edges -> Nat]
    <3>1. pending' = [e \in Edges |-> pending'[e]]
      BY DEF PeelVertices
    <3>2. \A u, v \in Vertices : arcs[<<u, v>>] \in Nat
      BY ArcsType DEF IInv, TypeOK
    <3>3. ASSUME NEW u \in Vertices, NEW v \in Vertices
          PROVE  pending'[<<u, v>>] \in Nat
      <4>1. pending'[<<u, v>>] \in {arcs[<<u, v>>], 0}
        BY <1>10
      <4> QED BY <3>2, <4>1
    <3>4. \A e \in Edges : pending'[e] \in Nat
      BY <3>3 DEF Edges
    <3> QED BY <3>1, <3>4
  <2>4. vertex_pres' \in [Vertices -> Int]
    BY DEF PeelVertices, IInv, TypeOK
  <2> QED BY <1>1, <1>8, <1>9, <2>1, <2>2, <2>3, <2>4
          DEF IInv, TypeOK, Active!Empty, Iter!Empty
<1>12. DegreesExact'
  <2> SUFFICES ASSUME NEW v \in Remaining \ Peelable
               PROVE  [w \in Vertices |-> IF w \in Remaining \ Peelable
                                          THEN arcs[<<v, w>>] ELSE pending'[<<w, v>>]]
                        = [w \in Vertices |-> IF w \in Remaining THEN arcs[<<v, w>>]
                                              ELSE pending[<<w, v>>]]
    BY <1>1, <1>4 DEF IInv, DegreesExact
  <2>1. v \in Vertices
    BY <1>2
  <2>2. \A w \in Vertices : pending[<<w, v>>] = 0 /\ arcs[<<w, v>>] = arcs[<<v, w>>]
    BY <1>1, <2>1, ArcsType DEF NoThread, Edges, IInv, TypeOK
  <2> QED BY <1>2, <1>10, <2>1, <2>2
<1>13. CoresKept'
  <2> SUFFICES ASSUME NEW S \in SUBSET Vertices, IsCore(S, peel + 1), NEW v \in S
               PROVE  v \in Remaining \ Peelable
    BY <1>1, <1>4, CoresStable DEF CoresKept
  <2>1. S \subseteq Remaining
    BY <1>1 DEF IInv, CoresKept
  <2>2. v \in Vertices /\ DegreeIn(S, v) >= peel + 1
    BY DEF IsCore
  <2>3. /\ DegreeIn(S, v) \in Nat /\ DegreeIn(Remaining, v) \in Nat
        /\ DegreeIn(S, v) <= DegreeIn(Remaining, v)
    BY <2>1, <2>2, DegreesGrow DEF IInv, TypeOK
  <2>4. vertex_deg[v] = DegreeIn(Remaining, v)
    BY <1>1, <2>1, HeadDegrees
  <2>5. peel \in Nat
    BY DEF IInv, TypeOK
  <2> QED BY <1>2, <2>1, <2>2, <2>3, <2>4, <2>5
<1>14. Marks' /\ Threads' /\ Levels' /\ LevelCore' /\ Counted'
  <2>1. Marks'
    BY <1>1, <1>3, CoresStable DEF IInv, Marks
  <2>2. Threads'
    BY <1>1, <1>3, <1>10 DEF Threads
  <2>3. Levels'
    BY <1>1, <1>3, <1>6, <1>7 DEF IInv, Levels, TypeOK
  <2>4. LevelCore'
    BY <1>1, <1>5, CoresStable DEF IInv, LevelCore
  <2>5. Counted'
    BY <1>1, <1>4, <1>9 DEF Counted
  <2> QED BY <2>1, <2>2, <2>3, <2>4, <2>5
<1>15. Numbered' /\ KNumbered'
  <2>1. \A v \in Vertices : vertex_pres'[v] = 0 => vertex_pres[v] = 0
    BY <1>3
  <2> QED BY <1>1, <2>1, CoresStable DEF IInv, Numbered, KNumbered
<1> QED BY <1>11, <1>12, <1>13, <1>14, <1>15 DEF IInv

\* The kernel RemovePres gives the vertices of the level their number.
LEMMA RemoveFacts ==
    ASSUME IInv, NEW number, RemovePres(number), activeIn' = activeIn, pc # "ready"
    PROVE  /\ \A v \in Vertices :
                IF activeIn[v] > 0 /\ vertex_pres[v] = 2
                THEN vertex_pres'[v] = 0 /\ core_number'[v] = number
                ELSE vertex_pres'[v] = vertex_pres[v] /\ core_number'[v] = core_number[v]
           /\ Remaining' = Remaining
           /\ Level' = Remaining
           /\ vertex_pres' \in [Vertices -> Int]
           /\ number \in Nat => core_number' \in [Vertices -> Nat]
<1>1. \A v \in Vertices :
        IF activeIn[v] > 0 /\ vertex_pres[v] = 2
        THEN vertex_pres'[v] = 0 /\ core_number'[v] = number
        ELSE vertex_pres'[v] = vertex_pres[v] /\ core_number'[v] = core_number[v]
  BY DEF RemovePres
<1>2. Remaining' = Remaining /\ Level' = Remaining
  BY <1>1 DEF Remaining, Level
<1>3. /\ vertex_pres' \in [Vertices -> Int]
      /\ number \in Nat => core_number' \in [Vertices -> Nat]
  BY DEF RemovePres, IInv, TypeOK
<1> QED BY <1>1, <1>2, <1>3

LEMMA NextLevelStep == IInv /\ NextLevel => IInv'
<1> SUFFICES ASSUME IInv, NextLevel PROVE IInv'
  OBVIOUS
<1> DEFINE number == IF kcore THEN peel + 1 ELSE peel
<1>1. /\ pc = "loop" /\ pc' = "loop" /\ arcs' = arcs /\ kcore' = kcore
      /\ pending = NoThread /\ pending' = NoThread /\ peel' = peel + 1
      /\ vertex_deg' = vertex_deg /\ n_active' = n_active /\ n_active > 0
      /\ activeIn' = activeIn /\ activeOut' = activeOut /\ Peelable = {}
      /\ peelIn' = peelOut /\ peelOut' = [v \in Vertices |-> 0]
      /\ RemovePres(number)
  BY DEF NextLevel, AtHead, graph, activeQ, Peel!Swap, Peel!Empty
<1>2. peel \in Nat /\ number \in Nat /\ n_active = Cardinality(Remaining)
  BY <1>1 DEF IInv, TypeOK, Counted
<1>3. /\ \A v \in Vertices :
           IF activeIn[v] > 0 /\ vertex_pres[v] = 2
           THEN vertex_pres'[v] = 0 /\ core_number'[v] = number
           ELSE vertex_pres'[v] = vertex_pres[v] /\ core_number'[v] = core_number[v]
      /\ Remaining' = Remaining
      /\ Level' = Remaining
      /\ vertex_pres' \in [Vertices -> Int]
      /\ core_number' \in [Vertices -> Nat]
  BY <1>1, <1>2, RemoveFacts
<1>4. IsCore(Remaining, peel + 1)
  <2>1. ASSUME NEW v \in Remaining PROVE DegreeIn(Remaining, v) >= peel + 1
    <3>1. v \in Vertices /\ ~(vertex_deg[v] <= peel)
      BY <1>1 DEF Peelable, Remaining
    <3>2. vertex_deg[v] = DegreeIn(Remaining, v)
      BY <1>1, HeadDegrees
    <3>3. DegreeIn(Remaining, v) \in Nat
      BY <3>1, DegreesGrow DEF IInv, TypeOK
    <3> QED BY <1>2, <3>1, <3>2, <3>3
  <2> QED BY <2>1 DEF IsCore
<1>5. TypeOK'
  <2>1. /\ iterOut' = Iter!Empty
        /\ iterIn' \in [Vertices -> {0, 1}]
    BY DEF NextLevel, Iter!AppendAndSwap, Iter!Empty, Once, IInv, TypeOK
  <2>2. pending' \in [Edges -> Nat]
    BY <1>1 DEF NoThread
  <2> QED BY <1>1, <1>2, <1>3, <2>1, <2>2 DEF IInv, TypeOK, Active!Empty, Iter!Empty
<1>6. DegreesExact'
  <2>1. pending' = pending
    BY <1>1
  <2> QED BY <1>1, <1>3, <2>1 DEF IInv, DegreesExact
<1>7. CoresKept'
  <2> SUFFICES ASSUME NEW S \in SUBSET Vertices, IsCore(S, peel + 1 + 1)
               PROVE  S \subseteq Remaining
    BY <1>1, <1>3, CoresStable DEF CoresKept
  <2>1. IsCore(S, peel + 1)
    BY <1>2, CoresWeaken DEF IInv, TypeOK
  <2> QED BY <1>1, <2>1 DEF IInv, CoresKept
<1>8. Marks' /\ Threads' /\ Levels'
  <2>1. Marks'
    BY <1>1, <1>3, CoresStable DEF IInv, Marks
  <2>2. Threads'
    <3>1. \A u, v \in Vertices : pending'[<<u, v>>] = 0
      BY <1>1 DEF NoThread, Edges
    <3> QED BY <1>1, <3>1 DEF Threads
  <2>3. Levels'
    BY <1>1, <1>2 DEF Levels
  <2> QED BY <2>1, <2>2, <2>3
<1>9. LevelCore' /\ Counted'
  BY <1>1, <1>2, <1>3, <1>4, CoresStable DEF LevelCore, Counted
<1>10. \A v \in Vertices : activeIn[v] > 0 /\ vertex_pres[v] = 2 =>
          HasCoreNumber(v, peel) /\ Degree(v) > 0
  BY <1>1, PeeledNumber DEF IInv, Marks
<1>11. Numbered'
  <2> SUFFICES ASSUME ~kcore PROVE Numbered'
    BY <1>1 DEF Numbered
  <2>1. \A v \in Vertices : Degree(v) = 0 => core_number'[v] = 0
    BY <1>3, <1>10 DEF IInv, Numbered
  <2>2. \A v \in Vertices : activeIn[v] > 0 /\ vertex_pres'[v] = 0
                              => HasCoreNumber(v, core_number'[v])
    BY <1>1, <1>3, <1>10 DEF IInv, Numbered
  <2> QED BY <1>1, <2>1, <2>2, CoresStable DEF Numbered
<1>12. KNumbered'
  <2> SUFFICES ASSUME kcore PROVE KNumbered'
    BY <1>1 DEF KNumbered
  <2>1. Remaining # {} /\ Remaining \in SUBSET Vertices
    BY <1>1, <1>2, FS_EmptySet DEF Remaining
  <2>2. ASSUME NEW v \in Vertices, core_number'[v] # 0
        PROVE  /\ HasCoreNumber(v, core_number'[v] - 1)
               /\ \E S \in SUBSET Vertices : S # {} /\ IsCore(S, core_number'[v])
    <3>1. CASE activeIn[v] > 0 /\ vertex_pres[v] = 2
      <4>1. core_number'[v] = peel + 1 /\ core_number'[v] - 1 = peel
        BY <1>2, <1>3, <3>1
      <4>2. HasCoreNumber(v, core_number'[v] - 1)
        <5>1. HasCoreNumber(v, peel)
          BY <1>10, <3>1
        <5> QED BY <4>1, <5>1, Zenon
      <4>3. IsCore(Remaining, core_number'[v])
        BY <1>4, <4>1
      <4> QED BY <2>1, <4>2, <4>3
    <3>2. CASE ~(activeIn[v] > 0 /\ vertex_pres[v] = 2)
      BY <1>3, <2>2, <3>2 DEF IInv, KNumbered
    <3> QED BY <3>1, <3>2
  <2>3. \A v \in Vertices : activeIn[v] > 0 /\ vertex_pres'[v] = 0 => core_number'[v] # 0
    <3>1. peel + 1 # 0
      BY <1>2
    <3> QED BY <1>1, <1>3, <3>1 DEF IInv, KNumbered
  <2> QED BY <1>1, <2>2, <2>3, CoresStable DEF KNumbered
<1> QED BY <1>5, <1>6, <1>7, <1>8, <1>9, <1>11, <1>12 DEF IInv

\* At the end nothing remains, so that no set is a core beyond the last level.
LEMMA FinishStep == IInv /\ Finish => IInv'
<1> SUFFICES ASSUME IInv, Finish PROVE IInv'
  OBVIOUS
<1>1. /\ pc = "loop" /\ pc' = "done" /\ arcs' = arcs /\ kcore' = kcore
      /\ pending = NoThread /\ pending' = pending /\ peel' = peel
      /\ vertex_deg' = vertex_deg /\ n_active' = n_active /\ n_active <= 0
      /\ activeIn' = activeIn /\ activeOut' = activeOut
      /\ peelIn' = peelIn /\ peelOut' = peelOut /\ iterIn' = iterIn /\ iterOut' = iterOut
  BY DEF Finish, AtHead, graph, activeQ, peelQ, iterQ
<1>2. peel \in Nat /\ n_active \in Nat /\ n_active = Cardinality(Remaining)
  BY <1>1 DEF IInv, TypeOK, Counted
<1>3. Remaining = {}
  <2>1. IsFiniteSet(Remaining)
    BY FS_Subset, CoreAssumption DEF Remaining
  <2> QED BY <1>1, <1>2, <2>1, FS_EmptySet
<1>4. \A v \in Vertices : activeIn[v] > 0 =>
        /\ vertex_pres[v] \in {0, 2}
        /\ Degree(v) > 0
        /\ vertex_pres[v] = 2 => HasCoreNumber(v, peel)
  <2>1. \A v \in Vertices : activeIn[v] > 0 => Degree(v) > 0 /\ vertex_pres[v] \in {0, 1, 2}
    BY <1>1 DEF IInv, Marks
  <2>2. \A v \in Vertices : activeIn[v] > 0 => vertex_pres[v] # 1
    BY <1>3 DEF Remaining
  <2> QED BY <1>1, <2>1, <2>2, PeeledNumber
<1>5. CASE kcore
  <2>1. vertex_pres' = vertex_pres /\ core_number' = core_number
    BY <1>5 DEF Finish
  <2>2. Remaining' = {}
    BY <1>1, <1>3, <2>1 DEF Remaining
  <2>3. TypeOK' /\ DegreesExact' /\ CoresKept'
    BY <1>1, <2>1, <2>2 DEF IInv, TypeOK, DegreesExact, CoresKept
  <2>4. Marks' /\ Threads' /\ Levels' /\ LevelCore' /\ Counted'
    BY <1>1, <2>1, <2>2, CoresStable DEF IInv, Marks, Threads, Levels, LevelCore, Counted
  <2>5. \A v \in Vertices : vertex_pres[v] = 2 /\ activeIn[v] > 0 =>
          HasCoreNumber(v, peel) /\ core_number[v] = 0
    <3> SUFFICES ASSUME NEW v \in Vertices, vertex_pres[v] = 2, activeIn[v] > 0,
                        core_number[v] # 0
                 PROVE  FALSE
      BY <1>4
    <3> DEFINE c == core_number[v]
    <3>1. c \in Nat /\ c # 0
      BY DEF IInv, TypeOK
    <3>2. /\ HasCoreNumber(v, c - 1)
          /\ \E S \in SUBSET Vertices : S # {} /\ IsCore(S, c)
      BY <1>5 DEF IInv, KNumbered
    <3>3. HasCoreNumber(v, peel)
      BY <1>4
    <3> HIDE DEF c
    <3>4. c - 1 = peel
      <4>1. c - 1 \in Nat
        BY <3>1
      <4> QED BY <1>2, <3>2, <3>3, <4>1, SameNumber DEF IInv, TypeOK
    <3>5. c = peel + 1
      BY <1>2, <3>1, <3>4
    <3>6. PICK S \in SUBSET Vertices : S # {} /\ IsCore(S, peel + 1)
      BY <3>2, <3>5
    <3>7. S \subseteq Remaining
      BY <1>1, <3>6 DEF IInv, CoresKept
    <3> QED BY <1>3, <3>6, <3>7
  <2>6. Numbered' /\ KNumbered'
    BY <1>1, <1>5, <2>1, <2>5, CoresStable DEF IInv, Numbered, KNumbered
  <2> QED BY <2>3, <2>4, <2>6 DEF IInv
<1>6. CASE ~kcore
  <2>1. RemovePres(peel)
    BY <1>6 DEF Finish
  <2>2. /\ \A v \in Vertices :
             IF activeIn[v] > 0 /\ vertex_pres[v] = 2
             THEN vertex_pres'[v] = 0 /\ core_number'[v] = peel
             ELSE vertex_pres'[v] = vertex_pres[v] /\ core_number'[v] = core_number[v]
        /\ Remaining' = Remaining
        /\ vertex_pres' \in [Vertices -> Int]
        /\ core_number' \in [Vertices -> Nat]
    BY <1>1, <1>2, <2>1, RemoveFacts
  <2>3. TypeOK' /\ DegreesExact' /\ CoresKept'
    BY <1>1, <1>3, <2>2 DEF IInv, TypeOK, DegreesExact, CoresKept
  <2>4. Marks' /\ Threads' /\ Levels' /\ LevelCore' /\ Counted'
    <3>1. Marks'
      BY <1>1, <2>2, CoresStable DEF IInv, Marks
    <3>2. Threads'
      <4>1. \A u, v \in Vertices : pending'[<<u, v>>] = 0
        BY <1>1 DEF NoThread, Edges
      <4> QED BY <1>1, <4>1 DEF Threads
    <3> QED BY <1>1, <1>3, <2>2, <3>1, <3>2 DEF Levels, LevelCore, Counted
  <2>5. Numbered' /\ KNumbered'
    <3>1. \A v \in Vertices : Degree(v) = 0 => core_number'[v] = 0
      BY <1>4, <1>6, <2>2 DEF IInv, Numbered
    <3>2. \A v \in Vertices : activeIn[v] > 0 /\ vertex_pres'[v] = 0
                                => HasCoreNumber(v, core_number'[v])
      BY <1>1, <1>4, <1>6, <2>2 DEF IInv, Numbered
    <3>3. \A v \in Vertices : activeIn[v] > 0 => vertex_pres'[v] # 2
      BY <2>2
    <3> QED BY <1>1, <1>6, <3>1, <3>2, <3>3, CoresStable DEF Numbered, KNumbered
  <2> QED BY <2>3, <2>4, <2>5 DEF IInv
<1> QED BY <1>5, <1>6

LEMMA StutterStep == IInv /\ UNCHANGED vars => IInv'
<1> SUFFICES ASSUME IInv, UNCHANGED vars PROVE IInv'
  OBVIOUS
<1>1. Remaining' = Remaining /\ Level' = Level
  BY DEF vars, graph, activeQ, Remaining, Level
<1> USE DEF vars, graph, activeQ, peelQ, iterQ
<1>2. TypeOK' /\ DegreesExact' /\ CoresKept'
  BY <1>1, CoresStable DEF IInv, TypeOK, DegreesExact, CoresKept
<1>3. Marks' /\ Threads' /\ Levels' /\ LevelCore' /\ Counted'
  BY <1>1, CoresStable DEF IInv, Marks, Threads, Levels, LevelCore, Counted
<1>4. Numbered' /\ KNumbered'
  BY CoresStable DEF IInv, Numbered, KNumbered
<1> QED BY <1>2, <1>3, <1>4 DEF IInv

LEMMA StepIInv == IInv /\ [Next]_vars => IInv'
BY ResetStep, BeginStep, PeelStep, DecrementStep, NextLevelStep, FinishStep, StutterStep
   DEF Next, Run

LEMMA Invariance == Spec => []IInv
<1> QED BY InitIInv, StepIInv, PTL DEF Spec

-----------------------------------------------------------------------------
(* The theorems                                                            *)

\* Marks, counters, numbers, queue buffers and threads keep their types, in
\* every order of the threads of the edge kernels.
THEOREM TypesHold == Spec => []TypeOK
<1>1. IInv => TypeOK
  BY DEF IInv
<1> QED BY <1>1, Invariance, PTL

\* The degree counter of a vertex that is not peeled is the number of its edges
\* to others that are not, plus those whose thread is still to come.
THEOREM DegreesAreExact == Spec => []DegreesExact
<1>1. IInv => DegreesExact
  BY DEF IInv
<1> QED BY <1>1, Invariance, PTL

\* No vertex of a core beyond the level is peeled.
THEOREM CoresAreKept == Spec => []CoresKept
<1>1. IInv => CoresKept
  BY DEF IInv
<1> QED BY <1>1, Invariance, PTL

\* A buffer that holds no vertex twice fits.
LEMMA BufferFits == ASSUME NEW b \in [Vertices -> {0, 1}]
                    PROVE  Total(b) <= Room
<1>1. b \in Bags /\ \A v \in Vertices : b[v] <= Once(Vertices)[v]
  BY DEF Bags, Once
<1>2. Once(Vertices) \in Bags /\ Total(Once(Vertices)) = Cardinality(Vertices)
  BY TotalOnce
<1>3. Total(b) <= Cardinality(Vertices)
  BY <1>1, <1>2, TotalMonotone
<1>4. Total(b) \in Nat /\ Cardinality(Vertices) \in Nat
  BY <1>1, TotalType, FS_CardinalityType, CoreAssumption
<1> QED BY <1>3, <1>4 DEF Room

\* n_active counts the vertices that are not peeled, and peel_vqueue is never
\* filled beyond its room, however often run() is called.
THEOREM CountersAreExact == Spec => []CountersExact
<1>1. ASSUME IInv PROVE CountersExact
  <2>1. Peel!Count(peelIn) <= Room /\ Peel!Count(peelOut) <= Room
    BY <1>1, BufferFits, CountsAreTotals DEF IInv, TypeOK
  <2> QED BY <1>1, <2>1 DEF IInv, Counted, CountersExact, Peel!Fits
<1> QED BY <1>1, Invariance, PTL

\* When run() of CoreNumber has returned, every vertex has its core number.
THEOREM CoreNumbersAreExact == Spec => []CoreNumbersExact
<1>1. ASSUME IInv PROVE CoreNumbersExact
  <2> SUFFICES ASSUME pc = "done", ~kcore, NEW v \in Vertices
               PROVE  HasCoreNumber(v, core_number[v])
    BY DEF CoreNumbersExact
  <2> USE <1>1 DEF IInv
  <2>1. Degree(v) \in Nat
    BY DegreesGrow DEF TypeOK
  <2>2. CASE Degree(v) = 0
    BY <2>2, IsolatedNumber DEF Numbered, TypeOK
  <2>3. CASE Degree(v) > 0
    <3>1. activeIn[v] = 1 /\ vertex_pres[v] \in {0, 1, 2}
      BY <2>3 DEF Marks
    <3>2. vertex_pres[v] = 0
      BY <3>1 DEF Counted, Remaining, Numbered
    <3> QED BY <3>1, <3>2 DEF Numbered
  <2> QED BY <2>1, <2>2, <2>3
<1> QED BY <1>1, Invariance, PTL

\* When run() of KCore has returned, every vertex with edges has one more than
\* its core number, but those of the innermost core have nothing.
THEOREM KCoreNumbersHold == Spec => []KCoreNumbers
<1>1. ASSUME IInv PROVE KCoreNumbers
  <2> SUFFICES ASSUME pc = "done", kcore, NEW v \in Vertices, Degree(v) > 0
               PROVE  IF vertex_pres[v] = 2
                      THEN core_number[v] = 0 /\ HasCoreNumber(v, peel)
                      ELSE HasCoreNumber(v, core_number[v] - 1)
    BY DEF KCoreNumbers
  <2> USE <1>1 DEF IInv
  <2>1. activeIn[v] = 1 /\ vertex_pres[v] \in {0, 1, 2}
    BY DEF Marks
  <2>2. CASE vertex_pres[v] = 2
    BY <2>1, <2>2 DEF KNumbered
  <2>3. CASE vertex_pres[v] # 2
    <3>1. vertex_pres[v] = 0
      BY <2>1, <2>3 DEF Counted, Remaining
    <3>2. core_number[v] # 0
      BY <2>1, <3>1 DEF KNumbered
    <3> QED BY <2>3, <3>2 DEF KNumbered
  <2> QED BY <2>2, <2>3
<1> QED BY <1>1, Invariance, PTL

-----------------------------------------------------------------------------
(* K-truss: the matches of two lists and the points of the merge.          *)

\* A sorted list without duplicates.
Rising(l) == l \in Seq(Nat) /\ \A i, j \in 1 .. Len(l) : i < j => l[i] < l[j]

\* The lists of an intersection: EdgeCounts gives the longer one last, and avoids
\* lists of one element.
Pair(u, v) == /\ Rising(u) /\ Rising(v)
              /\ Len(u) >= 2 /\ Len(v) >= 2

\* The positions of the common elements, and the diagonal that cuts a match.
Matches(u, v) == {m \in (1 .. Len(u)) \X (1 .. Len(v)) : u[m[1]] = v[m[2]]}
Diagonal(m)   == m[1] + m[2] - 1

\* A point that no match has only one side of.
OnPath(u, v, i, j) == /\ i \in 0 .. Len(u) /\ j \in 0 .. Len(v)
                      /\ \A m \in Matches(u, v) : m[1] <= i <=> m[2] <= j

\* Lengths and elements.
LEMMA ListIs ==
    ASSUME NEW l, Rising(l)
    PROVE  /\ Len(l) \in Nat
           /\ \A i \in 1 .. Len(l) : l[i] \in Nat
           /\ \A i, j \in 1 .. Len(l) : i < j => l[i] < l[j]
  BY DEF Rising

\* A match is a pair of places, on a diagonal of the merge.
LEMMA MatchIs ==
    ASSUME NEW u, NEW v, Rising(u), Rising(v), NEW m \in Matches(u, v)
    PROVE  /\ m[1] \in 1 .. Len(u) /\ m[2] \in 1 .. Len(v)
           /\ m = <<m[1], m[2]>>
           /\ u[m[1]] = v[m[2]] /\ u[m[1]] \in Nat
           /\ Diagonal(m) \in 1 .. Len(u) + Len(v) - 1
<1>1. /\ m[1] \in 1 .. Len(u) /\ m[2] \in 1 .. Len(v)
      /\ m = <<m[1], m[2]>> /\ u[m[1]] = v[m[2]]
  BY DEF Matches
<1>2. Len(u) \in Nat /\ Len(v) \in Nat /\ u[m[1]] \in Nat
  BY <1>1, ListIs
<1>3. Diagonal(m) \in 1 .. Len(u) + Len(v) - 1
  BY <1>1, <1>2 DEF Diagonal
<1> QED BY <1>1, <1>2, <1>3

\* Matches follow each other in both lists.
LEMMA MatchesInOrder ==
    ASSUME NEW u, NEW v, Rising(u), Rising(v),
           NEW m \in Matches(u, v), NEW n \in Matches(u, v)
    PROVE  m[1] < n[1] <=> m[2] < n[2]
<1>1. /\ m[1] \in 1 .. Len(u) /\ m[2] \in 1 .. Len(v) /\ u[m[1]] = v[m[2]]
      /\ n[1] \in 1 .. Len(u) /\ n[2] \in 1 .. Len(v) /\ u[n[1]] = v[n[2]]
  BY MatchIs
<1>2. Len(u) \in Nat /\ Len(v) \in Nat
  BY ListIs
<1>3. ASSUME NEW l, Rising(l), NEW i \in 1 .. Len(l), NEW j \in 1 .. Len(l)
      PROVE  i < j <=> l[i] < l[j]
  <2>1. l[i] \in Nat /\ l[j] \in Nat /\ Len(l) \in Nat
        /\ (i < j => l[i] < l[j]) /\ (j < i => l[j] < l[i])
    BY <1>3, ListIs
  <2>2. i = j => l[i] = l[j]
    OBVIOUS
  <2> QED BY <2>1, <2>2
<1>4. m[1] < n[1] <=> u[m[1]] < u[n[1]]
  BY <1>1, <1>3
<1>5. m[2] < n[2] <=> v[m[2]] < v[n[2]]
  BY <1>1, <1>3
<1> QED BY <1>1, <1>4, <1>5

\* No two of them are on one diagonal.
LEMMA OneMatch ==
    ASSUME NEW u, NEW v, Rising(u), Rising(v),
           NEW m \in Matches(u, v), NEW n \in Matches(u, v), Diagonal(m) = Diagonal(n)
    PROVE  m = n
<1>1. /\ m[1] \in 1 .. Len(u) /\ m[2] \in 1 .. Len(v) /\ m = <<m[1], m[2]>>
      /\ n[1] \in 1 .. Len(u) /\ n[2] \in 1 .. Len(v) /\ n = <<n[1], n[2]>>
      /\ Len(u) \in Nat /\ Len(v) \in Nat
  BY MatchIs, ListIs
<1>2. (m[1] < n[1] <=> m[2] < n[2]) /\ (n[1] < m[1] <=> n[2] < m[2])
  BY MatchesInOrder
<1>3. m[1] + m[2] = n[1] + n[2]
  BY <1>1 DEF Diagonal
<1>4. m[1] = n[1] /\ m[2] = n[2]
  BY <1>1, <1>2, <1>3
<1> QED BY <1>1, <1>4

\* A point that a match ends at is on the path.
LEMMA MatchOnPath ==
    ASSUME NEW u, NEW v, Rising(u), Rising(v), NEW n \in Matches(u, v)
    PROVE  OnPath(u, v, n[1], n[2])
<1>1. /\ n[1] \in 0 .. Len(u) /\ n[2] \in 0 .. Len(v) /\ n[1] \in Nat /\ n[2] \in Nat
  BY MatchIs, ListIs
<1>2. ASSUME NEW m \in Matches(u, v) PROVE m[1] <= n[1] <=> m[2] <= n[2]
  <2>1. m[1] \in Nat /\ m[2] \in Nat
    BY MatchIs, ListIs
  <2>2. n[1] < m[1] <=> n[2] < m[2]
    BY MatchesInOrder
  <2> QED BY <1>1, <2>1, <2>2
<1> QED BY <1>1, <1>2 DEF OnPath

\* A point is on the path if it is where the merge of the lists passes.
LEMMA PathIs ==
    ASSUME NEW u, NEW v, Rising(u), Rising(v), NEW i \in 0 .. Len(u), NEW j \in 0 .. Len(v),
           i = 0 \/ j = Len(v) \/ u[i] < v[j + 1],
           j = 0 \/ i = Len(u) \/ v[j] < u[i + 1]
    PROVE  OnPath(u, v, i, j)
<1>0. Len(u) \in Nat /\ Len(v) \in Nat
  BY ListIs
<1> SUFFICES ASSUME NEW m \in Matches(u, v) PROVE m[1] <= i <=> m[2] <= j
  BY DEF OnPath
<1>1. /\ m[1] \in 1 .. Len(u) /\ m[2] \in 1 .. Len(v) /\ u[m[1]] = v[m[2]]
  BY MatchIs
<1>2. ASSUME m[1] <= i, ~(m[2] <= j) PROVE FALSE
  <2>1. i \in 1 .. Len(u) /\ j + 1 \in 1 .. Len(v) /\ j + 1 <= m[2]
    BY <1>0, <1>1, <1>2
  <2>2. u[i] < v[j + 1]
    BY <1>0, <2>1
  <2>3. (m[1] < i => u[m[1]] < u[i]) /\ (j + 1 < m[2] => v[j + 1] < v[m[2]])
    BY <1>1, <2>1, ListIs
  <2>4. /\ u[i] \in Nat /\ v[j + 1] \in Nat /\ u[m[1]] \in Nat /\ v[m[2]] \in Nat
        /\ u[m[1]] = v[m[2]]
    BY <1>1, <2>1, ListIs
  <2>5. (m[1] = i => u[m[1]] = u[i]) /\ (m[2] = j + 1 => v[m[2]] = v[j + 1])
    OBVIOUS
  <2>6. (m[1] < i \/ m[1] = i) /\ (j + 1 < m[2] \/ m[2] = j + 1)
    BY <1>0, <1>1, <1>2, <2>1
  <2> QED BY <2>2, <2>3, <2>4, <2>5, <2>6
<1>3. ASSUME ~(m[1] <= i), m[2] <= j PROVE FALSE
  <2>1. j \in 1 .. Len(v) /\ i + 1 \in 1 .. Len(u) /\ i + 1 <= m[1]
    BY <1>0, <1>1, <1>3
  <2>2. v[j] < u[i + 1]
    BY <1>0, <2>1
  <2>3. (m[2] < j => v[m[2]] < v[j]) /\ (i + 1 < m[1] => u[i + 1] < u[m[1]])
    BY <1>1, <2>1, ListIs
  <2>4. /\ v[j] \in Nat /\ u[i + 1] \in Nat /\ u[m[1]] \in Nat /\ v[m[2]] \in Nat
        /\ u[m[1]] = v[m[2]]
    BY <1>1, <2>1, ListIs
  <2>5. (m[2] = j => v[m[2]] = v[j]) /\ (m[1] = i + 1 => u[m[1]] = u[i + 1])
    OBVIOUS
  <2>6. (m[2] < j \/ m[2] = j) /\ (i + 1 < m[1] \/ m[1] = i + 1)
    BY <1>0, <1>1, <1>3, <2>1
  <2> QED BY <2>2, <2>3, <2>4, <2>5, <2>6
<1> QED BY <1>2, <1>3

-----------------------------------------------------------------------------
(* The search for the point on a diagonal.                                 *)

\* With one cell between the bounds the search ends, at uMin or one further.
Shifted(u, v, d, x) == /\ d - x > 0 /\ x > 0 /\ x < Len(u) - 1
                       /\ ~Above(u, v, x, d - x) /\ ~Below(u, v, x, d - x)

Narrowed(u, v, d, x) == IF Shifted(u, v, d, x) THEN <<x + 1, d - x - 1>> ELSE <<x, d - x>>

\* SearchStep when the bounds are next to each other.
LEMMA NarrowStep ==
    ASSUME NEW u, NEW v, NEW d \in Nat, NEW x \in Nat, NEW y \in Nat, x < y, y <= x + 1,
           NEW g
    PROVE  SearchStep(u, v, d, g, x, y, d - x) = Narrowed(u, v, d, x)
<1>1. (x + (x + 1)) \div 2 = x /\ x + 1 - x = 1 /\ d - x >= d - x
  OBVIOUS
<1>2. SearchStep(u, v, d, g, x, x + 1, d - x)
        = IF /\ d - x >= d - x /\ x + 1 - x = 1
             /\ d - x > 0 /\ x > 0 /\ x < Len(u) - 1
             /\ ~Above(u, v, x, d - x) /\ ~Below(u, v, x, d - x)
          THEN <<x + 1, d - x - 1>>
          ELSE IF \/ d - x >= d - x /\ x + 1 - x = 1
                  \/ Above(u, v, x, d - x) /\ ~Below(u, v, x, d - x)
          THEN <<x, d - x>>
          ELSE IF Above(u, v, x, d - x) THEN g[<<x, x, d - x>>]
          ELSE g[<<x, x + 1, d - x>>]
  BY <1>1 DEF SearchStep
<1>3. SearchStep(u, v, d, g, x, x + 1, d - x) = Narrowed(u, v, d, x)
  BY <1>1, <1>2 DEF Shifted, Narrowed
<1>4. y = x + 1
  OBVIOUS
<1> QED BY <1>3, <1>4

\* Else it takes the point in the middle, or goes on with one half.
Middle(x, y) == (x + y) \div 2

\* The middle of two bounds that are not is between them.
LEMMA MiddleIs ==
    ASSUME NEW x \in Nat, NEW y \in Nat, x < y, y # x + 1
    PROVE  Middle(x, y) \in Nat /\ x < Middle(x, y) /\ Middle(x, y) < y
<1>1. PICK i \in Nat : i = (x + y) \div 2 /\ 2 * i <= x + y /\ x + y <= 2 * i + 1
  OBVIOUS
<1> QED BY <1>1 DEF Middle

Widened(u, v, d, g, x, y, i) ==
    IF Above(u, v, i, d - i) /\ ~Below(u, v, i, d - i) THEN <<i, d - i>>
    ELSE IF Above(u, v, i, d - i) THEN g[<<x, i, d - x>>]
    ELSE g[<<i, y, d - i>>]

\* SearchStep when they are not.
LEMMA WideStep ==
    ASSUME NEW u, NEW v, NEW d \in Nat, NEW x \in Nat, NEW y \in Nat, x < y, y # x + 1,
           NEW g
    PROVE  SearchStep(u, v, d, g, x, y, d - x) = Widened(u, v, d, g, x, y, Middle(x, y))
<1>0. PICK i \in Nat : i = Middle(x, y)
  BY MiddleIs
<1>1. ~(d - i >= d - x /\ y - x = 1)
  OBVIOUS
<1>2. SearchStep(u, v, d, g, x, y, d - x)
        = IF (d - i >= d - x /\ y - x = 1) /\ d - i > 0 /\ i > 0 /\ i < Len(u) - 1
                  /\ ~Above(u, v, i, d - i) /\ ~Below(u, v, i, d - i)
          THEN <<i + 1, d - i - 1>>
          ELSE IF (d - i >= d - x /\ y - x = 1) \/ (Above(u, v, i, d - i) /\ ~Below(u, v, i, d - i))
          THEN <<i, d - i>>
          ELSE IF Above(u, v, i, d - i) THEN g[<<x, i, d - x>>]
          ELSE g[<<i, y, d - i>>]
  BY <1>0 DEF SearchStep, Middle
<1>3. SearchStep(u, v, d, g, x, y, d - x) = Widened(u, v, d, g, x, y, i)
  BY <1>1, <1>2 DEF Widened
<1> QED BY <1>0, <1>3

\* Where the path crosses, and the two places that the search ends at in its
\* stead: one cell short at the end of u, and on the first diagonal.
Crossing(u, v, d, i, j) ==
    \/ /\ i = 0 \/ j = Len(v) \/ u[i] <= v[j + 1]
       /\ i = Len(u) \/ j = 0 \/ v[j] < u[i + 1]
    \/ i = Len(u) - 1 /\ j >= 1 /\ u[Len(u)] <= v[j]
    \/ d = 1 /\ i = 0 /\ j = 1 /\ u[1] <= v[1]

\* What the bounds know of the path: it does not cross at uMin or before unless the
\* search began there, and not at uMax or behind.
Bounded(u, v, d, x, y) ==
    /\ x = Greater(0, d - Len(v)) \/ (x > 0 /\ x < Len(u) /\ d - x < Len(v) /\ u[x + 1] <= v[d - x])
    /\ y = Lesser(d, Len(u)) \/ (y < d /\ y < Len(u) /\ d - y < Len(v) /\ v[d - y + 1] < u[y])

\* The comparisons of the search in front of the ends of the lists.
LEMMA ComparisonsAre ==
    ASSUME NEW u, NEW v, Pair(u, v),
           NEW i \in 0 .. Len(u) - 1, NEW j \in 1 .. Len(v)
    PROVE  /\ Above(u, v, i, j) <=> v[j] < u[i + 1]
           /\ i > 0 /\ j < Len(v) => (Below(u, v, i, j) <=> v[j + 1] < u[i])
<1>0. Rising(u) /\ Rising(v) /\ Len(u) \in Nat /\ Len(v) \in Nat
  BY ListIs DEF Pair
<1>1. Cell(u, i) = u[i + 1] /\ Cell(v, j - 1) = v[j]
  <2>1. j - 1 \in 0 .. Len(v) - 1 /\ (j - 1) + 1 = j
    BY <1>0
  <2> QED BY <2>1 DEF Cell
<1>2. u[i + 1] \in Nat /\ v[j] \in Nat
  <2>1. i + 1 \in 1 .. Len(u)
    BY <1>0
  <2> QED BY <1>0, <2>1, ListIs
<1>3. ASSUME i > 0, j < Len(v) PROVE Below(u, v, i, j) <=> v[j + 1] < u[i]
  <2>1. i - 1 \in 0 .. Len(u) - 1 /\ (i - 1) + 1 = i /\ j \in 0 .. Len(v) - 1
    BY <1>0, <1>3
  <2>2. Cell(u, i - 1) = u[i] /\ Cell(v, j) = v[j + 1]
    BY <2>1 DEF Cell
  <2>3. i \in 1 .. Len(u) /\ j + 1 \in 1 .. Len(v)
    BY <1>0, <1>3
  <2>4. u[i] \in Nat /\ v[j + 1] \in Nat
    BY <1>0, <2>3, ListIs
  <2> QED BY <2>2, <2>4 DEF Below
<1>4. Above(u, v, i, j) <=> v[j] < u[i + 1]
  BY <1>1, <1>2 DEF Above
<1> QED BY <1>3, <1>4

\* Where the search begins.
StartsAt(u, v, d, x, y) ==
    /\ x \in 0 .. Len(u) /\ y \in 0 .. Len(u)
    /\ x = Greater(0, d - Len(v)) /\ y = Lesser(d, Len(u))
    /\ x < y /\ y <= d /\ d - x \in 0 .. Len(v)
    /\ d - x = Lesser(d, Len(v))
    /\ x = 0 \/ d - x = Len(v)
    /\ y = d \/ y = Len(u)
    /\ y = x + 1 => d = 1 \/ (x = Len(u) - 1 /\ d - x = Len(v))

\* The bounds that the search begins with.
LEMMA StartBounds ==
    ASSUME NEW u, NEW v, Pair(u, v), NEW d \in 1 .. Len(u) + Len(v) - 1
    PROVE  \E x, y : StartsAt(u, v, d, x, y)
<1>0. Len(u) \in Nat /\ Len(v) \in Nat /\ Len(u) >= 2 /\ Len(v) >= 2
  BY ListIs DEF Pair
<1>1. PICK a \in Nat, b \in Nat, e \in Nat : a = Len(u) /\ b = Len(v) /\ e = d
  BY <1>0
<1>2. PICK x \in Nat : x = Greater(0, e - b) /\ (x = 0 \/ x = e - b) /\ x >= e - b
  <2>1. CASE 0 >= e - b
    BY <2>1 DEF Greater
  <2>2. CASE ~(0 >= e - b)
    <3>1. e - b \in Nat
      BY <2>2
    <3> QED BY <2>2, <3>1 DEF Greater
  <2> QED BY <2>1, <2>2
<1>3. PICK y \in Nat : y = Lesser(e, a) /\ (y = e \/ y = a) /\ y <= e /\ y <= a
  BY DEF Lesser
<1>4. e - x = Lesser(e, b)
  BY <1>2 DEF Lesser
<1>5. a >= 2 /\ b >= 2 /\ 1 <= e /\ e <= a + b - 1
  BY <1>0, <1>1
<1>6. /\ x \in 0 .. a /\ y \in 0 .. a /\ x < y /\ e - x \in 0 .. b
      /\ x = 0 \/ e - x = b
      /\ y = x + 1 => e = 1 \/ (x = a - 1 /\ e - x = b)
  BY <1>2, <1>3, <1>5
<1>7. StartsAt(u, v, d, x, y)
  BY <1>1, <1>2, <1>3, <1>4, <1>6 DEF StartsAt
<1> QED BY <1>7

\* The end of a search whose bounds are one cell apart.
LEMMA NarrowEnds ==
    ASSUME NEW u, NEW v, Pair(u, v), NEW d \in 1 .. Len(u) + Len(v) - 1,
           NEW x \in 0 .. Len(u) - 1, x + 1 <= d, d - x \in 0 .. Len(v),
           Bounded(u, v, d, x, x + 1)
    PROVE  /\ Shifted(u, v, d, x) => /\ x + 1 \in 0 .. Len(u) /\ d - x - 1 \in 0 .. Len(v)
                                     /\ Crossing(u, v, d, x + 1, d - x - 1)
           /\ ~Shifted(u, v, d, x) => Crossing(u, v, d, x, d - x)
<1>0. /\ Len(u) \in Nat /\ Len(v) \in Nat /\ Len(u) >= 2 /\ Len(v) >= 2
      /\ Rising(u) /\ Rising(v)
  BY ListIs DEF Pair
<1>1. PICK j \in 1 .. Len(v) : j = d - x
  BY <1>0
<1>2. Above(u, v, x, j) <=> v[j] < u[x + 1]
  BY ComparisonsAre
<1>3. x + 1 \in 1 .. Len(u) /\ u[x + 1] \in Nat /\ v[j] \in Nat
  <2>1. x + 1 \in 1 .. Len(u)
    BY <1>0
  <2> QED BY <1>0, <2>1, ListIs
<1>4. PICK lo, hi : StartsAt(u, v, d, lo, hi)
  BY StartBounds
<1>41. /\ lo \in 0 .. Len(u) /\ hi \in 0 .. Len(u)
       /\ lo = Greater(0, d - Len(v)) /\ hi = Lesser(d, Len(u))
       /\ lo < hi /\ hi <= d
       /\ lo = 0 \/ d - lo = Len(v)
       /\ hi = d \/ hi = Len(u)
       /\ hi = lo + 1 => d = 1 \/ (lo = Len(u) - 1 /\ d - lo = Len(v))
  BY <1>4 DEF StartsAt
<1>5. /\ x = lo \/ (x > 0 /\ d - x < Len(v) /\ u[x + 1] <= v[j])
      /\ x + 1 = hi \/ v[j] < u[x + 1]
  <2>1. d - (x + 1) + 1 = j
    BY <1>1
  <2> QED BY <1>1, <1>41, <2>1 DEF Bounded
<1>6. CASE v[j] < u[x + 1]
  <2>1. x = lo
    BY <1>3, <1>5, <1>6
  <2>2. Crossing(u, v, d, x, j)
    BY <1>1, <1>41, <1>6, <2>1 DEF Crossing
  <2> QED BY <1>1, <1>2, <1>6, <2>2 DEF Shifted
<1>7. CASE ~(v[j] < u[x + 1]) /\ x # lo
  <2>1. /\ x + 1 = hi /\ x > 0 /\ d - x < Len(v) /\ u[x + 1] <= v[j]
    BY <1>5, <1>7
  <2>2. j + 1 \in 1 .. Len(v) /\ x \in 1 .. Len(u) /\ j < j + 1 /\ x < x + 1
    BY <1>0, <1>1, <2>1
  <2>3. u[x] < u[x + 1] /\ v[j] < v[j + 1] /\ u[x] \in Nat /\ v[j + 1] \in Nat
    BY <1>0, <1>3, <2>2, ListIs
  <2>4. ~Below(u, v, x, j)
    <3>1. Below(u, v, x, j) <=> v[j + 1] < u[x]
      BY <1>1, <2>1, ComparisonsAre
    <3>2. ~(v[j + 1] < u[x])
      <4>1. PICK p, q, r, s \in Nat : p = u[x] /\ q = u[x + 1] /\ r = v[j] /\ s = v[j + 1]
        BY <1>3, <2>3
      <4>2. p < q /\ q <= r /\ r < s
        BY <2>1, <2>3, <4>1
      <4>3. ~(s < p)
        BY <4>2
      <4> QED BY <4>1, <4>3
    <3> QED BY <3>1, <3>2
  <2>5. CASE x < Len(u) - 1
    <3>1. x + 1 = d /\ j = 1 /\ d - x - 1 = 0
      BY <1>0, <1>1, <1>41, <2>1, <2>5
    <3>2. u[x + 1] <= v[0 + 1]
      BY <2>1, <3>1
    <3>3. Crossing(u, v, d, x + 1, 0)
      BY <3>2 DEF Crossing
    <3>4. x + 1 \in 0 .. Len(u) /\ 0 \in 0 .. Len(v)
      BY <1>0
    <3>5. Shifted(u, v, d, x)
      BY <1>1, <1>2, <1>7, <2>1, <2>4, <2>5, <3>1 DEF Shifted
    <3> QED BY <1>1, <3>1, <3>3, <3>4, <3>5
  <2>6. CASE ~(x < Len(u) - 1)
    <3>1. x = Len(u) - 1 /\ x + 1 = Len(u)
      BY <1>0, <2>6
    <3>2. Crossing(u, v, d, x, j)
      <4>1. j >= 1
        BY <1>1
      <4> QED BY <2>1, <3>1, <4>1 DEF Crossing
    <3> QED BY <1>1, <2>6, <3>2 DEF Shifted
  <2> QED BY <2>5, <2>6
<1>8. CASE ~(v[j] < u[x + 1]) /\ x = lo
  <2>1. x + 1 = hi /\ u[x + 1] <= v[j]
    BY <1>3, <1>5, <1>8
  <2>2. CASE d = 1
    <3>1. x = 0 /\ j = 1
      BY <1>1, <2>2
    <3>2. Crossing(u, v, d, x, j)
      BY <2>1, <2>2, <3>1 DEF Crossing
    <3> QED BY <1>1, <3>1, <3>2 DEF Shifted
  <2>3. CASE x = Len(u) - 1
    <3>1. x + 1 = Len(u) /\ j >= 1
      BY <1>0, <1>1, <2>3
    <3>2. Crossing(u, v, d, x, j)
      BY <2>1, <2>3, <3>1 DEF Crossing
    <3> QED BY <1>0, <1>1, <2>3, <3>2 DEF Shifted
  <2> QED BY <1>41, <1>8, <2>1, <2>2, <2>3
<1> QED BY <1>6, <1>7, <1>8

\* A diagonal between the corners of the grid.
Inner(u, v, d) == d \in 1 .. Len(u) + Len(v) - 1

\* The search ends, at a point where the path crosses the diagonal or at one of the
\* two that it ends at in its stead.
LEMMA SearchEnds ==
    ASSUME NEW u, NEW v, Pair(u, v), NEW d \in Nat, Inner(u, v, d)
    PROVE  \E i \in 0 .. Len(u), j \in 0 .. Len(v) :
              i + j = d /\ CrossingPoint(u, v, d) = <<i, j>> /\ Crossing(u, v, d, i, j)
<1>0. /\ Len(u) \in Nat /\ Len(v) \in Nat /\ Len(u) >= 2 /\ Len(v) >= 2
      /\ Rising(u) /\ Rising(v)
  BY ListIs DEF Pair
<1> DEFINE D == Bounds(u, v, d)
           Val == Int \X Int
           Half(g, s) == SearchStep(u, v, d, g, s[1], s[2], s[3])
           rank == [s \in D |-> s[2] - s[1]]
           F == [g \in [D -> Val] |-> [s \in D |-> Half(g, s)]]
           search == CHOOSE g : g = [s \in D |-> Half(g, s)]
<1>1. PICK lo, hi : StartsAt(u, v, d, lo, hi)
  BY StartBounds DEF Inner
<1>11. /\ lo \in 0 .. Len(u) /\ hi \in 0 .. Len(u)
       /\ lo = Greater(0, d - Len(v)) /\ hi = Lesser(d, Len(u))
       /\ lo < hi /\ hi <= d /\ d - lo \in 0 .. Len(v)
       /\ d - lo = Lesser(d, Len(v))
  BY <1>1 DEF StartsAt
<1>2. CrossingPoint(u, v, d) = search[<<lo, hi, d - lo>>]
  <2>1. d # 0
    BY DEF Inner
  <2> QED BY <1>11, <2>1 DEF CrossingPoint
<1>3. ASSUME NEW x, NEW y
      PROVE  <<x, y, d - x>> \in D <=> /\ x \in 0 .. Len(u) /\ y \in 0 .. Len(u)
                                       /\ d - x \in 0 .. Len(v) /\ x < y /\ y <= d
  BY DEF Bounds
<1>4. ASSUME NEW s \in D
      PROVE  \E x, y \in Nat : s = <<x, y, d - x>> /\ x < y /\ y <= d
  <2>1. PICK x \in 0 .. Len(u), y \in 0 .. Len(u), z \in 0 .. Len(v) : s = <<x, y, z>>
    BY DEF Bounds
  <2>2. x < y /\ y <= d /\ z = d - x /\ x \in Nat /\ y \in Nat
    BY <1>0, <2>1 DEF Bounds
  <2> QED BY <2>1, <2>2
<1>5. ASSUME NEW x \in Nat, NEW y \in Nat, <<x, y, d - x>> \in D, NEW i \in Nat, x < i, i < y
      PROVE  <<x, i, d - x>> \in D /\ <<i, y, d - i>> \in D
  <2>1. /\ x \in 0 .. Len(u) /\ y \in 0 .. Len(u) /\ d - x \in 0 .. Len(v) /\ y <= d
    BY <1>3, <1>5
  <2>2. i \in 0 .. Len(u) /\ d - i \in 0 .. Len(v) /\ i <= d
    BY <1>0, <1>5, <2>1
  <2> QED BY <1>3, <1>5, <2>1, <2>2
<1>6. ASSUME NEW g, NEW x, NEW y PROVE Half(g, <<x, y, d - x>>) = SearchStep(u, v, d, g, x, y, d - x)
  OBVIOUS
<1>61. \A s \in D : rank[s] = s[2] - s[1]
  OBVIOUS
<1>62. \A g \in [D -> Val] : F[g] = [s \in D |-> Half(g, s)]
  OBVIOUS
<1> HIDE DEF D, Half
<1>7. ASSUME NEW g \in [D -> Val], NEW s \in D PROVE Half(g, s) \in Val
  <2>1. PICK x \in Nat, y \in Nat : s = <<x, y, d - x>> /\ x < y /\ y <= d
    BY <1>4
  <2>2. CASE y <= x + 1
    <3>1. Narrowed(u, v, d, x) \in Val
      BY <1>0 DEF Narrowed
    <3>2. SearchStep(u, v, d, g, x, y, d - x) \in Val
      BY <2>1, <2>2, <3>1, NarrowStep
    <3> QED BY <1>6, <2>1, <2>2, <3>2
  <2>3. CASE ~(y <= x + 1)
    <3>1. PICK i \in Nat : i = Middle(x, y) /\ x < i /\ i < y
      BY <2>1, <2>3, MiddleIs
    <3>2. g[<<x, i, d - x>>] \in Val /\ g[<<i, y, d - i>>] \in Val
      BY <1>5, <2>1, <3>1
    <3>3. Widened(u, v, d, g, x, y, i) \in Val
      BY <1>0, <3>2 DEF Widened
    <3>4. SearchStep(u, v, d, g, x, y, d - x) \in Val
      BY <1>0, <2>1, <2>3, <3>1, <3>3, WideStep
    <3> QED BY <1>6, <2>1, <3>4
  <2> QED BY <2>2, <2>3
<1>8. rank \in [D -> Nat]
  <2> SUFFICES ASSUME NEW s \in D PROVE s[2] - s[1] \in Nat
    OBVIOUS
  <2>1. PICK x \in Nat, y \in Nat : s = <<x, y, d - x>> /\ x < y
    BY <1>4
  <2> QED BY <2>1
<1>9. F \in [[D -> Val] -> [D -> Val]]
  <2> HIDE DEF Val
  <2> QED BY <1>7
<1>10. ASSUME NEW g \in [D -> Val], NEW h \in [D -> Val], NEW s \in D,
              \A r \in D : rank[r] < rank[s] => g[r] = h[r]
       PROVE  F[g][s] = F[h][s]
  <2>1. PICK x \in Nat, y \in Nat : s = <<x, y, d - x>> /\ x < y /\ y <= d
    BY <1>4
  <2>2. F[g][s] = Half(g, s) /\ F[h][s] = Half(h, s)
    BY <1>62
  <2>3. CASE y <= x + 1
    <3>1. SearchStep(u, v, d, g, x, y, d - x) = SearchStep(u, v, d, h, x, y, d - x)
      BY <2>1, <2>3, NarrowStep
    <3> QED BY <1>6, <2>1, <2>2, <2>3, <3>1
  <2>4. CASE ~(y <= x + 1)
    <3>1. PICK i \in Nat : i = Middle(x, y) /\ x < i /\ i < y
      BY <2>1, <2>4, MiddleIs
    <3>2. /\ g[<<x, i, d - x>>] = h[<<x, i, d - x>>]
          /\ g[<<i, y, d - i>>] = h[<<i, y, d - i>>]
      <4>1. <<x, i, d - x>> \in D /\ <<i, y, d - i>> \in D
        BY <1>5, <2>1, <3>1
      <4>2. rank[<<x, i, d - x>>] = i - x /\ rank[<<i, y, d - i>>] = y - i /\ rank[s] = y - x
        BY <1>61, <2>1, <4>1
      <4>3. rank[<<x, i, d - x>>] < rank[s] /\ rank[<<i, y, d - i>>] < rank[s]
        <5>1. i - x < y - x /\ y - i < y - x
          BY <3>1
        <5> QED BY <4>2, <5>1
      <4> QED BY <1>10, <4>1, <4>3
    <3>3. Half(g, s) = Half(h, s)
      <4>1. /\ Half(g, s) = SearchStep(u, v, d, g, x, y, d - x)
            /\ Half(h, s) = SearchStep(u, v, d, h, x, y, d - x)
        BY <1>6, <2>1
      <4>2. SearchStep(u, v, d, g, x, y, d - x) = SearchStep(u, v, d, h, x, y, d - x)
        <5>1. Widened(u, v, d, g, x, y, i) = Widened(u, v, d, h, x, y, i)
          BY <3>2 DEF Widened
        <5> QED BY <1>0, <2>1, <2>4, <3>1, <5>1, WideStep
      <4> QED BY <4>1, <4>2
    <3> QED BY <2>2, <3>3
  <2> QED BY <2>3, <2>4
<1>110. search = [s \in D |-> Half(search, s)]
  <2>1. IsRecursion(D, Val, rank, F)
    <3>1. Val # {}
      <4>1. <<0, 0>> \in Val
        OBVIOUS
      <4> QED BY <4>1
    <3> HIDE DEF Val, rank, F
    <3> QED BY <1>8, <1>9, <1>10, <3>1 DEF IsRecursion
  <2>2. \E g : g \in [D -> Val] /\ g = F[g]
    <3> HIDE DEF Val, rank, F
    <3> QED BY <2>1, FixedPoint
  <2>3. \E g : g = [s \in D |-> Half(g, s)]
    <3> HIDE DEF Val, F
    <3> QED BY <1>62, <2>2
  <2> QED BY <2>3
<1> HIDE DEF search, rank, F, Val
<1>12. \A s \in D : search[s] = Half(search, s)
  BY <1>110
\* By induction on the distance of the bounds.
<1> DEFINE Ends(x, y) == \E i \in 0 .. Len(u), j \in 0 .. Len(v) :
                           /\ i + j = d /\ search[<<x, y, d - x>>] = <<i, j>>
                           /\ Crossing(u, v, d, i, j)
           Inside(x, y) == /\ <<x, y, d - x>> \in D /\ lo <= x /\ y <= hi
                           /\ Bounded(u, v, d, x, y)
           Good == {n \in Nat : \A x, y \in Nat : Inside(x, y) /\ y - x <= n => Ends(x, y)}
<1>120. \A n \in Nat : n \in Good <=>
            \A x, y \in Nat : Inside(x, y) /\ y - x <= n => Ends(x, y)
  <2> HIDE DEF Inside, Ends
  <2> QED OBVIOUS
<1>121. \A x, y : Inside(x, y) <=> /\ <<x, y, d - x>> \in D /\ lo <= x /\ y <= hi
                                  /\ Bounded(u, v, d, x, y)
  OBVIOUS
<1>122. \A x, y : Ends(x, y) <=> \E i \in 0 .. Len(u), j \in 0 .. Len(v) :
                           /\ i + j = d /\ search[<<x, y, d - x>>] = <<i, j>>
                           /\ Crossing(u, v, d, i, j)
  OBVIOUS
<1> HIDE DEF Inside, Ends, Good
<1>13. 0 \in Good
  <2>1. ASSUME NEW x \in Nat, NEW y \in Nat, Inside(x, y), y - x <= 0 PROVE FALSE
    <3>1. x < y
      BY <1>3, <1>121, <2>1
    <3> QED BY <2>1, <3>1
  <2> QED BY <1>120, <2>1
<1>14. ASSUME NEW n \in Nat, n \in Good PROVE n + 1 \in Good
  <2> SUFFICES ASSUME NEW x \in Nat, NEW y \in Nat, Inside(x, y), y - x <= n + 1
               PROVE  Ends(x, y)
    BY <1>120
  <2>0. /\ <<x, y, d - x>> \in D /\ lo <= x /\ y <= hi /\ Bounded(u, v, d, x, y)
    BY <1>121
  <2>1. /\ x \in 0 .. Len(u) - 1 /\ y \in 0 .. Len(u)
        /\ d - x \in 0 .. Len(v) /\ x < y /\ y <= d /\ <<x, y, d - x>> \in D
    BY <1>0, <1>3, <2>0
  <2>2. search[<<x, y, d - x>>] = SearchStep(u, v, d, search, x, y, d - x)
    BY <1>6, <1>12, <2>1
  <2>3. CASE y <= x + 1
    <3>0. y = x + 1
      BY <2>1, <2>3
    <3>1. Bounded(u, v, d, x, x + 1) /\ x + 1 <= d
      BY <2>0, <2>1, <3>0
    <3>20. search[<<x, y, d - x>>] = Narrowed(u, v, d, x)
      <4>1. x < y
        BY <2>1
      <4> QED BY <2>2, <2>3, <4>1, NarrowStep
    <3>2. search[<<x, y, d - x>>]
            = IF Shifted(u, v, d, x) THEN <<x + 1, d - x - 1>> ELSE <<x, d - x>>
      BY <3>20 DEF Narrowed
    <3>3. CASE Shifted(u, v, d, x)
      <4>1. /\ x + 1 \in 0 .. Len(u) /\ d - x - 1 \in 0 .. Len(v)
            /\ Crossing(u, v, d, x + 1, d - x - 1)
        BY <2>1, <3>1, <3>3, NarrowEnds DEF Inner
      <4>2. (x + 1) + (d - x - 1) = d
        BY <1>0
      <4>3. search[<<x, y, d - x>>] = <<x + 1, d - x - 1>>
        BY <3>2, <3>3
      <4> QED BY <4>1, <4>2, <4>3, <1>122
    <3>4. CASE ~Shifted(u, v, d, x)
      <4>1. Crossing(u, v, d, x, d - x)
        BY <2>1, <3>1, <3>4, NarrowEnds DEF Inner
      <4>2. x \in 0 .. Len(u) /\ x + (d - x) = d
        BY <1>0, <2>1
      <4>3. search[<<x, y, d - x>>] = <<x, d - x>>
        BY <3>2, <3>4
      <4> QED BY <2>1, <4>1, <4>2, <4>3, <1>122
    <3> QED BY <3>3, <3>4
  <2>4. CASE ~(y <= x + 1)
    <3>0. PICK i \in Nat : i = Middle(x, y) /\ x < i /\ i < y
      <4>1. x < y /\ y # x + 1
        BY <2>1, <2>4
      <4> QED BY <4>1, MiddleIs
    <3>1. /\ x < i /\ i < y
          /\ search[<<x, y, d - x>>]
               = IF Above(u, v, i, d - i) /\ ~Below(u, v, i, d - i)
                 THEN <<i, d - i>>
                 ELSE IF Above(u, v, i, d - i) THEN search[<<x, i, d - x>>]
                 ELSE search[<<i, y, d - i>>]
      <4>1. search[<<x, y, d - x>>] = Widened(u, v, d, search, x, y, i)
        BY <1>0, <2>1, <2>2, <2>4, <3>0, WideStep
      <4> QED BY <3>0, <4>1 DEF Widened
    <3>2. PICK j \in 1 .. Len(v) - 1 : j = d - i
      <4>1. d - i \in 1 .. Len(v) - 1
        BY <1>0, <2>1, <3>1
      <4> QED BY <4>1
    <3>3. /\ i \in 0 .. Len(u) - 1 /\ i > 0 /\ j \in 1 .. Len(v) /\ j < Len(v)
          /\ i \in 0 .. Len(u) /\ j \in 0 .. Len(v) /\ i + j = d
      BY <1>0, <2>1, <3>1, <3>2
    <3>4. /\ Above(u, v, i, j) <=> v[j] < u[i + 1]
          /\ Below(u, v, i, j) <=> v[j + 1] < u[i]
      BY <3>3, ComparisonsAre
    <3>5. /\ u[i] \in Nat /\ u[i + 1] \in Nat /\ v[j] \in Nat /\ v[j + 1] \in Nat
      <4>1. i \in 1 .. Len(u) /\ i + 1 \in 1 .. Len(u) /\ j + 1 \in 1 .. Len(v)
        BY <1>0, <3>3
      <4> QED BY <1>0, <3>3, <4>1, ListIs
    <3>6. /\ <<x, i, d - x>> \in D /\ <<i, y, d - i>> \in D
          /\ i - x <= n /\ y - i <= n /\ lo <= i /\ i <= hi
      <4>1. <<x, i, d - x>> \in D /\ <<i, y, d - i>> \in D
        BY <1>5, <2>1, <3>1
      <4>2. lo \in Nat /\ hi \in Nat
        BY <1>0, <1>11
      <4>3. i - x <= n /\ y - i <= n /\ lo <= i /\ i <= hi
        BY <2>0, <3>1, <4>2
      <4> QED BY <4>1, <4>3
    <3>7. CASE Above(u, v, i, j) /\ ~Below(u, v, i, j)
      <4>1. Crossing(u, v, d, i, j)
        BY <3>4, <3>5, <3>7 DEF Crossing
      <4>2. search[<<x, y, d - x>>] = <<i, j>>
        BY <3>1, <3>2, <3>7
      <4> QED BY <3>3, <4>1, <4>2, <1>122
    <3>8. CASE Above(u, v, i, j) /\ Below(u, v, i, j)
      <4>1. Bounded(u, v, d, x, i)
        <5>1. i < d /\ i < Len(u) /\ d - i < Len(v) /\ v[d - i + 1] < u[i]
          BY <1>0, <2>1, <3>1, <3>2, <3>3, <3>4, <3>8
        <5> QED BY <2>0, <5>1 DEF Bounded
      <4>2. Ends(x, i)
        <5>1. Inside(x, i)
          BY <1>121, <2>0, <3>6, <4>1
        <5> QED BY <1>14, <1>120, <3>6, <5>1
      <4>3. search[<<x, y, d - x>>] = search[<<x, i, d - x>>]
        BY <3>1, <3>2, <3>8
      <4> QED BY <4>2, <4>3, <1>122
    <3>9. CASE ~Above(u, v, i, j)
      <4>1. Bounded(u, v, d, i, y)
        <5>1. i > 0 /\ i < Len(u) /\ d - i < Len(v) /\ u[i + 1] <= v[d - i]
          <6>1. ~(v[j] < u[i + 1])
            BY <3>2, <3>4, <3>9
          <6>2. u[i + 1] <= v[j]
            BY <3>5, <6>1
          <6> QED BY <1>0, <3>2, <3>3, <6>2
        <5> QED BY <2>0, <5>1 DEF Bounded
      <4>2. Ends(i, y)
        <5>1. Inside(i, y)
          BY <1>121, <2>0, <3>6, <4>1
        <5> QED BY <1>14, <1>120, <3>6, <5>1
      <4>3. search[<<x, y, d - x>>] = search[<<i, y, d - i>>]
        BY <3>1, <3>2, <3>9
      <4> QED BY <4>2, <4>3, <1>122
    <3> QED BY <3>7, <3>8, <3>9
  <2> QED BY <2>3, <2>4
<1>15. \A n \in Nat : n \in Good
  <2>1. Good \in SUBSET Nat
    BY DEF Good
  <2> QED BY <1>13, <1>14, <2>1, SetInduction
<1>16. Inside(lo, hi) /\ lo \in Nat /\ hi \in Nat /\ hi - lo \in Nat
  <2>1. Bounded(u, v, d, lo, hi)
    BY <1>11 DEF Bounded
  <2>2. <<lo, hi, d - lo>> \in D
    BY <1>11, <1>3
  <2> QED BY <1>0, <1>11, <2>1, <2>2, <1>121
<1>17. Ends(lo, hi)
  <2>1. hi - lo \in Good /\ hi - lo <= hi - lo
    BY <1>15, <1>16
  <2> QED BY <1>16, <1>120, <2>1
<1> QED BY <1>2, <1>17, <1>122

\* The end of a match that the diagonal cuts.
EndsU(u, v, i, j) == i > 0 /\ j < Len(v) /\ u[i] = v[j + 1]
EndsV(u, v, i, j) == j > 0 /\ i < Len(u) /\ v[j] = u[i + 1]

\* Where a thread begins: a match that the path crosses at the diagonal is
\* counted at once, and stepped over.
LEMMA StartPointIs ==
    ASSUME NEW u, NEW v, Pair(u, v), NEW i \in 0 .. Len(u), NEW j \in 0 .. Len(v)
    PROVE  StartPoint(u, v, i, j)
             = [u   |-> i + Bit(EndsV(u, v, i, j)),
                v   |-> j + Bit(EndsU(u, v, i, j)),
                sum |-> Bit(EndsU(u, v, i, j)) + Bit(EndsV(u, v, i, j))]
<1>0. Len(u) \in Nat /\ Len(v) \in Nat
  BY ListIs DEF Pair
<1>1. ASSUME NEW l, Len(l) \in Nat, NEW n \in 0 .. Len(l)
      PROVE  /\ n > 0 => Cell(l, n - 1) = l[n]
             /\ n < Len(l) => Cell(l, n) = l[n + 1]
  <2>1. n > 0 => n - 1 \in 0 .. Len(l) - 1 /\ (n - 1) + 1 = n
    BY <1>1
  <2>2. n < Len(l) => n \in 0 .. Len(l) - 1
    BY <1>1
  <2> QED BY <2>1, <2>2 DEF Cell
<1>2. (i > 0 /\ j < Len(v) /\ Cell(u, i - 1) = Cell(v, j)) <=> EndsU(u, v, i, j)
  <2>1. i > 0 => Cell(u, i - 1) = u[i]
    BY <1>0, <1>1
  <2>2. j < Len(v) => Cell(v, j) = v[j + 1]
    BY <1>0, <1>1
  <2> QED BY <2>1, <2>2 DEF EndsU
<1>3. (j > 0 /\ i < Len(u) /\ Cell(v, j - 1) = Cell(u, i)) <=> EndsV(u, v, i, j)
  <2>1. j > 0 => Cell(v, j - 1) = v[j]
    BY <1>0, <1>1
  <2>2. i < Len(u) => Cell(u, i) = u[i + 1]
    BY <1>0, <1>1
  <2> QED BY <2>1, <2>2 DEF EndsV
<1> QED BY <1>2, <1>3 DEF StartPoint, Bit

\* Where a thread begins: behind the match that its diagonal cuts, or on the path, or
\* where no match is left, or on the first diagonal.
GoodStart(u, v, d, s) ==
    /\ s.u \in 0 .. Len(u) /\ s.v \in 0 .. Len(v)
    /\ s.sum \in 0 .. 1 /\ s.u + s.v = d + s.sum
    /\ s.sum = 1 <=> \E m \in Matches(u, v) : Diagonal(m) = d
    /\ \/ OnPath(u, v, s.u, s.v)
       \/ /\ s.sum = 0 /\ s.u = Len(u) - 1
          /\ s.v = Len(v) \/ u[Len(u)] < v[s.v + 1]
          /\ \A m \in Matches(u, v) : Diagonal(m) < d
       \/ d = 1 /\ s.sum = 0 /\ s.u = 0 /\ s.v = 1 /\ u[1] < v[2]

\* No match is cut by a diagonal whose point on the path begins none.
LEMMA OffDiagonal ==
    ASSUME NEW u, NEW v, Rising(u), Rising(v), NEW i, NEW j, OnPath(u, v, i, j),
           NEW m \in Matches(u, v)
    PROVE  Diagonal(m) # i + j
<1>1. /\ i \in Nat /\ j \in Nat /\ m[1] \in Nat /\ m[2] \in Nat
      /\ m[1] <= i <=> m[2] <= j
  BY MatchIs, ListIs DEF OnPath
<1> QED BY <1>1 DEF Diagonal

\* A thread that begins at the crossing point has a good start.
LEMMA StartIs ==
    ASSUME NEW u, NEW v, Pair(u, v), NEW d \in Nat,
           NEW i \in 0 .. Len(u), NEW j \in 0 .. Len(v), i + j = d,
           d = 0 \/ Crossing(u, v, d, i, j)
    PROVE  GoodStart(u, v, d, StartPoint(u, v, i, j))
<1>0. /\ Len(u) \in Nat /\ Len(v) \in Nat /\ Len(u) >= 2 /\ Len(v) >= 2
      /\ Rising(u) /\ Rising(v)
  BY ListIs DEF Pair
<1>1. PICK s : s = StartPoint(u, v, i, j)
  OBVIOUS
<1>2. /\ s.u = i + Bit(EndsV(u, v, i, j)) /\ s.v = j + Bit(EndsU(u, v, i, j))
      /\ s.sum = Bit(EndsU(u, v, i, j)) + Bit(EndsV(u, v, i, j))
  BY <1>1, StartPointIs
<1>3. CASE EndsU(u, v, i, j)
  <2>1. /\ i \in 1 .. Len(u) /\ j + 1 \in 1 .. Len(v) /\ u[i] = v[j + 1]
    BY <1>0, <1>3 DEF EndsU
  <2>2. <<i, j + 1>> \in Matches(u, v)
    BY <2>1 DEF Matches
  <2>3. Diagonal(<<i, j + 1>>) = d
    BY <1>0 DEF Diagonal
  <2>4. ~EndsV(u, v, i, j)
    <3> SUFFICES ASSUME j > 0, i < Len(u), v[j] = u[i + 1] PROVE FALSE
      BY DEF EndsV
    <3>1. j \in 1 .. Len(v) /\ i + 1 \in 1 .. Len(u) /\ j < j + 1 /\ i < i + 1
      BY <1>0
    <3>2. /\ v[j] < v[j + 1] /\ u[i] < u[i + 1]
          /\ v[j] \in Nat /\ v[j + 1] \in Nat /\ u[i] \in Nat /\ u[i + 1] \in Nat
      BY <1>0, <2>1, <3>1, ListIs
    <3> QED BY <2>1, <3>2
  <2>5. s.u = i /\ s.v = j + 1 /\ s.sum = 1
    BY <1>0, <1>2, <1>3, <2>4 DEF Bit
  <2>6. OnPath(u, v, i, j + 1)
    BY <1>0, <2>2, MatchOnPath
  <2>7. j + 1 \in 0 .. Len(v) /\ i + (j + 1) = d + 1
    BY <1>0, <2>1
  <2> QED BY <1>1, <2>2, <2>3, <2>5, <2>6, <2>7 DEF GoodStart
<1>4. CASE EndsV(u, v, i, j) /\ ~EndsU(u, v, i, j)
  <2>1. /\ j \in 1 .. Len(v) /\ i + 1 \in 1 .. Len(u) /\ v[j] = u[i + 1]
    BY <1>0, <1>4 DEF EndsV
  <2>2. <<i + 1, j>> \in Matches(u, v)
    BY <2>1 DEF Matches
  <2>3. Diagonal(<<i + 1, j>>) = d
    BY <1>0 DEF Diagonal
  <2>5. s.u = i + 1 /\ s.v = j /\ s.sum = 1
    BY <1>0, <1>2, <1>4 DEF Bit
  <2>6. OnPath(u, v, i + 1, j)
    BY <1>0, <2>2, MatchOnPath
  <2>7. i + 1 \in 0 .. Len(u) /\ (i + 1) + j = d + 1
    BY <1>0, <2>1
  <2> QED BY <1>1, <2>2, <2>3, <2>5, <2>6, <2>7 DEF GoodStart
<1>5. CASE ~EndsU(u, v, i, j) /\ ~EndsV(u, v, i, j)
  <2>1. s.u = i /\ s.v = j /\ s.sum = 0
    BY <1>0, <1>2, <1>5 DEF Bit
  <2>2. ASSUME OnPath(u, v, i, j) PROVE GoodStart(u, v, d, s)
    <3>1. \A m \in Matches(u, v) : Diagonal(m) # d
      BY <1>0, <2>2, OffDiagonal
    <3> QED BY <2>1, <2>2, <3>1 DEF GoodStart
  <2>3. CASE d = 0
    <3>1. i = 0 /\ j = 0
      BY <1>0, <2>3
    <3> QED BY <1>0, <1>1, <2>2, <3>1, PathIs
  <2>4. CASE /\ i = 0 \/ j = Len(v) \/ u[i] <= v[j + 1]
             /\ i = Len(u) \/ j = 0 \/ v[j] < u[i + 1]
    <3>1. i = 0 \/ j = Len(v) \/ u[i] < v[j + 1]
      <4> SUFFICES ASSUME i # 0, j # Len(v) PROVE u[i] < v[j + 1]
        OBVIOUS
      <4>1. i \in 1 .. Len(u) /\ j + 1 \in 1 .. Len(v) /\ i > 0 /\ j < Len(v)
        BY <1>0
      <4>2. u[i] \in Nat /\ v[j + 1] \in Nat
        BY <1>0, <4>1, ListIs
      <4>3. u[i] # v[j + 1]
        BY <1>5, <4>1 DEF EndsU
      <4> QED BY <2>4, <4>2, <4>3
    <3> QED BY <1>0, <1>1, <2>2, <2>4, <3>1, PathIs
  <2>5. CASE i = Len(u) - 1 /\ j >= 1 /\ u[Len(u)] <= v[j]
    <3>1. /\ i + 1 = Len(u) /\ Len(u) \in 1 .. Len(u) /\ j \in 1 .. Len(v)
          /\ j > 0 /\ i < Len(u)
      BY <1>0, <2>5
    <3>2. u[Len(u)] \in Nat /\ v[j] \in Nat
      BY <1>0, <3>1, ListIs
    <3>3. u[Len(u)] < v[j]
      <4>1. v[j] # u[Len(u)]
        BY <1>5, <3>1 DEF EndsV
      <4> QED BY <2>5, <3>2, <4>1
    <3>4. j = Len(v) \/ u[Len(u)] < v[j + 1]
      <4> SUFFICES ASSUME j # Len(v) PROVE u[Len(u)] < v[j + 1]
        OBVIOUS
      <4>1. j + 1 \in 1 .. Len(v) /\ j < j + 1
        BY <1>0, <3>1
      <4>2. v[j] < v[j + 1] /\ v[j + 1] \in Nat
        BY <1>0, <3>1, <4>1, ListIs
      <4> QED BY <3>2, <3>3, <4>2
    <3>5. ASSUME NEW m \in Matches(u, v) PROVE Diagonal(m) < d
      <4>1. /\ m[1] \in 1 .. Len(u) /\ m[2] \in 1 .. Len(v) /\ u[m[1]] = v[m[2]]
        BY <1>0, MatchIs
      <4>2. m[2] < j
        <5> SUFFICES ASSUME ~(m[2] < j) PROVE FALSE
          OBVIOUS
        <5>1. j = m[2] \/ j < m[2]
          BY <1>0, <3>1, <4>1
        <5>2. m[1] = Len(u) \/ m[1] < Len(u)
          BY <1>0, <4>1
        <5>3. /\ u[m[1]] \in Nat /\ v[m[2]] \in Nat
              /\ j < m[2] => v[j] < v[m[2]]
              /\ m[1] < Len(u) => u[m[1]] < u[Len(u)]
          BY <1>0, <3>1, <4>1, ListIs
        <5>4. /\ v[j] <= v[m[2]] /\ u[m[1]] <= u[Len(u)]
          BY <3>2, <5>1, <5>2, <5>3
        <5> QED BY <3>2, <3>3, <4>1, <5>3, <5>4
      <4> QED BY <1>0, <2>5, <4>1, <4>2 DEF Diagonal
    <3>6. \A m \in Matches(u, v) : Diagonal(m) # d
      <4>1. \A m \in Matches(u, v) : Diagonal(m) \in Int
        BY <1>0, MatchIs
      <4> QED BY <3>5, <4>1
    <3> QED BY <1>1, <2>1, <2>5, <3>4, <3>5, <3>6 DEF GoodStart
  <2>6. CASE d = 1 /\ i = 0 /\ j = 1 /\ u[1] <= v[1]
    <3>1. 1 \in 1 .. Len(u) /\ 1 \in 1 .. Len(v) /\ 2 \in 1 .. Len(v) /\ 0 < Len(u)
      BY <1>0
    <3>2. u[1] \in Nat /\ v[1] \in Nat /\ v[2] \in Nat /\ v[1] < v[2]
      BY <1>0, <3>1, ListIs
    <3>3. u[1] # v[1]
      BY <1>5, <2>6, <3>1 DEF EndsV
    <3>4. u[1] < v[1] /\ u[1] < v[2]
      BY <2>6, <3>2, <3>3
    <3>5. ASSUME NEW m \in Matches(u, v), Diagonal(m) = d PROVE FALSE
      <4>1. /\ m[1] \in 1 .. Len(u) /\ m[2] \in 1 .. Len(v) /\ u[m[1]] = v[m[2]]
        BY <1>0, MatchIs
      <4>2. m[1] = 1 /\ m[2] = 1
        <5>1. PICK p \in Int, q \in Int : p = m[1] /\ q = m[2]
          BY <4>1
        <5>2. p >= 1 /\ q >= 1 /\ p + q - 1 = 1
          BY <1>0, <2>6, <3>5, <4>1, <5>1 DEF Diagonal
        <5> QED BY <5>1, <5>2
      <4> QED BY <3>3, <4>1, <4>2
    <3> QED BY <1>1, <2>1, <2>6, <3>4, <3>5 DEF GoodStart
  <2> QED BY <2>3, <2>4, <2>5, <2>6 DEF Crossing
<1> QED BY <1>1, <1>3, <1>4, <1>5

-----------------------------------------------------------------------------
(* The merge from a point of the path.                                     *)

Points(u, v, share) == (0 .. Len(u)) \X (0 .. Len(v)) \X (0 .. share + 1)

MergeStops(u, v, share, i, j, work) == work >= share \/ i = Len(u) \/ j = Len(v)

Onward(u, v, i, j, work) == <<i + Bit(u[i + 1] <= v[j + 1]), j + Bit(u[i + 1] >= v[j + 1]),
                              work + Bit(u[i + 1] = v[j + 1]) + 1>>

Ended(work)    == [found |-> 0, work |-> work]
Added(r, more) == [found |-> r.found + Bit(more), work |-> r.work]

\* MergeStep by its two cases.
LEMMA MergeStepIs ==
    ASSUME NEW u, NEW v, NEW share, NEW from, NEW i, NEW j, NEW work
    PROVE  /\ MergeStops(u, v, share, i, j, work)
                => MergeStep(u, v, share, from, i, j, work) = Ended(work)
           /\ ~MergeStops(u, v, share, i, j, work)
                => MergeStep(u, v, share, from, i, j, work)
                     = Added(from[Onward(u, v, i, j, work)], u[i + 1] = v[j + 1])
  BY DEF MergeStops, MergeStep, Ended, Added, Onward

\* It goes on behind the lesser one of the two elements, or behind both.
LEMMA OnwardIs ==
    ASSUME NEW u, NEW v, Rising(u), Rising(v), NEW share \in Nat,
           NEW i \in 0 .. Len(u), NEW j \in 0 .. Len(v), NEW w \in 0 .. share + 1,
           ~MergeStops(u, v, share, i, j, w)
    PROVE  /\ i + 1 \in 1 .. Len(u) /\ j + 1 \in 1 .. Len(v) /\ w < share
           /\ u[i + 1] \in Nat /\ v[j + 1] \in Nat
           /\ u[i + 1] = v[j + 1] => Onward(u, v, i, j, w) = <<i + 1, j + 1, w + 2>>
           /\ u[i + 1] < v[j + 1] => Onward(u, v, i, j, w) = <<i + 1, j, w + 1>>
           /\ v[j + 1] < u[i + 1] => Onward(u, v, i, j, w) = <<i, j + 1, w + 1>>
<1>1. Len(u) \in Nat /\ Len(v) \in Nat
  BY ListIs
<1>2. i + 1 \in 1 .. Len(u) /\ j + 1 \in 1 .. Len(v) /\ w < share
  BY <1>1 DEF MergeStops
<1>3. PICK p \in Nat, q \in Nat : p = u[i + 1] /\ q = v[j + 1]
  BY <1>2, ListIs
<1>4. Onward(u, v, i, j, w) = <<i + Bit(p <= q), j + Bit(p >= q), w + Bit(p = q) + 1>>
  BY <1>3 DEF Onward
<1>5. i \in Int /\ j \in Int /\ w \in Int
  OBVIOUS
<1>6. p = q => Onward(u, v, i, j, w) = <<i + 1, j + 1, w + 2>>
  BY <1>4, <1>5 DEF Bit
<1>7. p < q => Onward(u, v, i, j, w) = <<i + 1, j, w + 1>>
  BY <1>4, <1>5 DEF Bit
<1>8. q < p => Onward(u, v, i, j, w) = <<i, j + 1, w + 1>>
  BY <1>4, <1>5 DEF Bit
<1> QED BY <1>2, <1>3, <1>6, <1>7, <1>8

\* What the rounds return, as the function that they are a step of.
LEMMA MergeFixed ==
    ASSUME NEW u, NEW v, Rising(u), Rising(v), NEW share \in Nat
    PROVE  \E from : /\ \A s \in Points(u, v, share) :
                           from[s] = MergeStep(u, v, share, from, s[1], s[2], s[3])
                     /\ \A start : Merge(u, v, start, share)
                                     = from[<<start.u, start.v, start.sum>>]
<1>0. Len(u) \in Nat /\ Len(v) \in Nat
  BY ListIs
<1> DEFINE D == Points(u, v, share)
           Val == [found : Int, work : Int]
           Round(g, s) == MergeStep(u, v, share, g, s[1], s[2], s[3])
           rank == [s \in D |-> Len(u) + Len(v) - (s[1] + s[2])]
           F == [g \in [D -> Val] |-> [s \in D |-> Round(g, s)]]
           from == CHOOSE g : g = [s \in D |-> Round(g, s)]
<1>1. \A start : Merge(u, v, start, share) = from[<<start.u, start.v, start.sum>>]
  BY DEF Merge, Points
<1>2. ASSUME NEW s \in D
      PROVE  \E i \in 0 .. Len(u), j \in 0 .. Len(v), w \in 0 .. share + 1 : s = <<i, j, w>>
  BY DEF Points
<1>3. ASSUME NEW i, NEW j, NEW w
      PROVE  <<i, j, w>> \in D <=> i \in 0 .. Len(u) /\ j \in 0 .. Len(v) /\ w \in 0 .. share + 1
  BY DEF Points
<1>4. \A g, i, j, w : Round(g, <<i, j, w>>) = MergeStep(u, v, share, g, i, j, w)
  OBVIOUS
<1>5. \A s \in D : rank[s] = Len(u) + Len(v) - (s[1] + s[2])
  OBVIOUS
<1>6. \A g \in [D -> Val] : F[g] = [s \in D |-> Round(g, s)]
  OBVIOUS
<1>61. \A r : r \in Val <=> r = [found |-> r.found, work |-> r.work] /\ r.found \in Int /\ r.work \in Int
  OBVIOUS
<1> HIDE DEF D, Round
<1>7. ASSUME NEW i \in 0 .. Len(u), NEW j \in 0 .. Len(v), NEW w \in 0 .. share + 1,
             ~MergeStops(u, v, share, i, j, w)
      PROVE  /\ Onward(u, v, i, j, w) \in D
             /\ rank[Onward(u, v, i, j, w)] < rank[<<i, j, w>>]
  <2>1. /\ i + 1 \in 1 .. Len(u) /\ j + 1 \in 1 .. Len(v) /\ w < share
        /\ u[i + 1] \in Nat /\ v[j + 1] \in Nat
    BY <1>7, OnwardIs
  <2>2. \E k \in 0 .. Len(u), l \in 0 .. Len(v), x \in 0 .. share + 1 :
           Onward(u, v, i, j, w) = <<k, l, x>> /\ i + j < k + l
    <3>1. CASE u[i + 1] = v[j + 1]
      <4>1. Onward(u, v, i, j, w) = <<i + 1, j + 1, w + 2>>
        BY <1>7, <3>1, OnwardIs
      <4>2. i + 1 \in 0 .. Len(u) /\ j + 1 \in 0 .. Len(v) /\ w + 2 \in 0 .. share + 1
            /\ i + j < (i + 1) + (j + 1)
        BY <1>0, <2>1
      <4> QED BY <4>1, <4>2
    <3>2. CASE u[i + 1] < v[j + 1]
      <4>1. Onward(u, v, i, j, w) = <<i + 1, j, w + 1>>
        BY <1>7, <3>2, OnwardIs
      <4>2. i + 1 \in 0 .. Len(u) /\ w + 1 \in 0 .. share + 1 /\ i + j < (i + 1) + j
        BY <1>0, <2>1
      <4> QED BY <4>1, <4>2
    <3>3. CASE v[j + 1] < u[i + 1]
      <4>1. Onward(u, v, i, j, w) = <<i, j + 1, w + 1>>
        BY <1>7, <3>3, OnwardIs
      <4>2. j + 1 \in 0 .. Len(v) /\ w + 1 \in 0 .. share + 1 /\ i + j < i + (j + 1)
        BY <1>0, <2>1
      <4> QED BY <4>1, <4>2
    <3> QED BY <2>1, <3>1, <3>2, <3>3
  <2>3. PICK k \in 0 .. Len(u), l \in 0 .. Len(v), x \in 0 .. share + 1 :
           Onward(u, v, i, j, w) = <<k, l, x>> /\ i + j < k + l
    BY <2>2
  <2>4. <<k, l, x>> \in D /\ <<i, j, w>> \in D
    BY <1>3
  <2>5. rank[<<k, l, x>>] = Len(u) + Len(v) - (k + l) /\ rank[<<i, j, w>>] = Len(u) + Len(v) - (i + j)
    BY <1>5, <2>4
  <2>6. Len(u) + Len(v) - (k + l) < Len(u) + Len(v) - (i + j)
    BY <1>0, <2>3
  <2> QED BY <2>3, <2>4, <2>5, <2>6
<1>8. ASSUME NEW g \in [D -> Val], NEW s \in D PROVE Round(g, s) \in Val
  <2>1. PICK i \in 0 .. Len(u), j \in 0 .. Len(v), w \in 0 .. share + 1 : s = <<i, j, w>>
    BY <1>2
  <2>2. CASE MergeStops(u, v, share, i, j, w)
    <3>1. Round(g, s) = Ended(w)
      BY <1>4, <2>1, <2>2, MergeStepIs
    <3> QED BY <3>1 DEF Ended
  <2>3. CASE ~MergeStops(u, v, share, i, j, w)
    <3>1. Round(g, s) = Added(g[Onward(u, v, i, j, w)], u[i + 1] = v[j + 1])
      BY <1>4, <2>1, <2>3, MergeStepIs
    <3>2. g[Onward(u, v, i, j, w)] \in Val
      BY <1>7, <2>3
    <3>3. Bit(u[i + 1] = v[j + 1]) \in Int
      BY DEF Bit
    <3> QED BY <3>1, <3>2, <3>3 DEF Added
  <2> QED BY <2>2, <2>3
<1>9. rank \in [D -> Nat]
  <2> SUFFICES ASSUME NEW s \in D PROVE Len(u) + Len(v) - (s[1] + s[2]) \in Nat
    OBVIOUS
  <2>1. PICK i \in 0 .. Len(u), j \in 0 .. Len(v), w \in 0 .. share + 1 : s = <<i, j, w>>
    BY <1>2
  <2>2. Len(u) + Len(v) - (i + j) \in Nat
    BY <1>0
  <2> QED BY <2>1, <2>2
<1>10. F \in [[D -> Val] -> [D -> Val]]
  <2> HIDE DEF Val
  <2> QED BY <1>8
<1>11. ASSUME NEW g \in [D -> Val], NEW h \in [D -> Val], NEW s \in D,
              \A r \in D : rank[r] < rank[s] => g[r] = h[r]
       PROVE  F[g][s] = F[h][s]
  <2>1. PICK i \in 0 .. Len(u), j \in 0 .. Len(v), w \in 0 .. share + 1 : s = <<i, j, w>>
    BY <1>2
  <2>2. F[g][s] = Round(g, s) /\ F[h][s] = Round(h, s)
    BY <1>6
  <2>3. CASE MergeStops(u, v, share, i, j, w)
    BY <1>4, <2>1, <2>2, <2>3, MergeStepIs
  <2>4. CASE ~MergeStops(u, v, share, i, j, w)
    <3>1. ASSUME NEW e
          PROVE  Round(e, s) = Added(e[Onward(u, v, i, j, w)], u[i + 1] = v[j + 1])
      BY <1>4, <2>1, <2>4, MergeStepIs
    <3>2. g[Onward(u, v, i, j, w)] = h[Onward(u, v, i, j, w)]
      BY <1>7, <1>11, <2>1, <2>4
    <3> QED BY <2>2, <3>1, <3>2
  <2> QED BY <2>3, <2>4
<1>12. \A s \in D : from[s] = MergeStep(u, v, share, from, s[1], s[2], s[3])
  <2>1. IsRecursion(D, Val, rank, F)
    <3>1. Val # {}
      <4>1. [found |-> 0, work |-> 0] \in Val
        OBVIOUS
      <4> QED BY <4>1
    <3> HIDE DEF Val, rank, F
    <3> QED BY <1>9, <1>10, <1>11, <3>1 DEF IsRecursion
  <2>2. \E g : g \in [D -> Val] /\ g = F[g]
    <3> HIDE DEF Val, rank, F
    <3> QED BY <2>1, FixedPoint
  <2>3. \E g : g = [s \in D |-> Round(g, s)]
    <3> HIDE DEF Val, F
    <3> QED BY <1>6, <2>2
  <2>4. from = [s \in D |-> Round(from, s)]
    BY <2>3
  <2> HIDE DEF from
  <2>5. \A s \in D : from[s] = Round(from, s)
    BY <2>4
  <2> QED BY <2>5 DEF Round
<1> HIDE DEF from
<1> QED BY <1>1, <1>12 DEF D

\* The matches that the merge still has in front of it, up to diagonal e.
Ahead(u, v, i, e) == {m \in Matches(u, v) : m[1] > i /\ Diagonal(m) <= e}

\* Two lists have finitely many matches.
LEMMA MatchesFinite ==
    ASSUME NEW u, NEW v, Rising(u), Rising(v)
    PROVE  IsFiniteSet(Matches(u, v))
<1>1. Len(u) \in Nat /\ Len(v) \in Nat
  BY ListIs
<1>2. IsFiniteSet((1 .. Len(u)) \X (1 .. Len(v)))
  <2>1. IsFiniteSet(1 .. Len(u)) /\ IsFiniteSet(1 .. Len(v))
    BY <1>1, FS_Interval
  <2> QED BY <2>1, FS_Product
<1> QED BY <1>2, FS_Subset DEF Matches

\* Where it stops, none is left on its share; it has gone beyond it if it was told so.
LEMMA NoneAhead ==
    ASSUME NEW u, NEW v, Rising(u), Rising(v), NEW d \in Nat, NEW share \in Nat,
           NEW i, NEW j, OnPath(u, v, i, j),
           NEW w \in 0 .. share + 1, i + j = d + w, MergeStops(u, v, share, i, j, w)
    PROVE  Ahead(u, v, i, d + share) = {}
<1>0. Len(u) \in Nat /\ Len(v) \in Nat /\ i \in 0 .. Len(u) /\ j \in 0 .. Len(v)
  BY ListIs DEF OnPath
<1> SUFFICES ASSUME NEW m \in Matches(u, v), m[1] > i, Diagonal(m) <= d + share PROVE FALSE
  BY DEF Ahead
<1>1. m[1] \in 1 .. Len(u) /\ m[2] \in 1 .. Len(v) /\ (m[1] <= i <=> m[2] <= j)
  BY MatchIs DEF OnPath
<1>2. PICK a \in Nat, b \in Nat, p \in Nat, q \in Nat, x \in Nat, y \in Nat :
         /\ a = Len(u) /\ b = Len(v) /\ p = m[1] /\ q = m[2] /\ x = i /\ y = j
  BY <1>0, <1>1
<1>3. /\ p <= a /\ q <= b /\ p > x /\ q > y /\ x + y = d + w
      /\ p + q - 1 <= d + share
      /\ w >= share \/ x = a \/ y = b
  BY <1>0, <1>1, <1>2 DEF MergeStops, Diagonal
<1> QED BY <1>0, <1>3

\* Behind a match there is one less; behind an element that is none there are as many.
LEMMA PastMatch ==
    ASSUME NEW u, NEW v, Rising(u), Rising(v), NEW e \in Nat,
           NEW i \in Nat, NEW j \in Nat, OnPath(u, v, i, j), i + j < e,
           NEW n \in Matches(u, v), n[1] = i + 1, n[2] = j + 1
    PROVE  /\ OnPath(u, v, n[1], n[2])
           /\ n \notin Ahead(u, v, n[1], e)
           /\ Ahead(u, v, i, e) = Ahead(u, v, n[1], e) \cup {n}
           /\ Diagonal(n) = i + j + 1
<1>2. OnPath(u, v, n[1], n[2])
  BY MatchOnPath
<1>3. Diagonal(n) = i + j + 1
  BY DEF Diagonal
<1>4. ASSUME NEW m \in Matches(u, v), m[1] > i PROVE m = n \/ m[1] > n[1]
  <2>1. m[1] \in Nat
    BY MatchIs, ListIs
  <2>2. m[1] = i + 1 => m = n
    <3> SUFFICES ASSUME m[1] = i + 1 PROVE m = n
      OBVIOUS
    <3>1. m[2] \in Nat /\ m = <<m[1], m[2]>> /\ n = <<n[1], n[2]>>
      BY MatchIs, ListIs
    <3>2. (m[1] < n[1] <=> m[2] < n[2]) /\ (n[1] < m[1] <=> n[2] < m[2])
      BY MatchesInOrder
    <3>3. m[2] = j + 1
      BY <3>1, <3>2
    <3> QED BY <3>1, <3>3
  <2> QED BY <1>4, <2>1, <2>2
<1>5. ASSUME NEW m \in Matches(u, v) PROVE m[1] \in Nat
  BY MatchIs, ListIs
<1>6. n \in Ahead(u, v, i, e) /\ n \notin Ahead(u, v, n[1], e)
  <2>1. i + 1 > i /\ ~(i + 1 > i + 1) /\ i + j + 1 <= e
    OBVIOUS
  <2> QED BY <1>3, <2>1 DEF Ahead
<1>7. Ahead(u, v, n[1], e) \subseteq Ahead(u, v, i, e)
  BY <1>5 DEF Ahead
<1>8. \A m \in Ahead(u, v, i, e) : m = n \/ m \in Ahead(u, v, n[1], e)
  BY <1>4 DEF Ahead
<1>9. Ahead(u, v, i, e) = Ahead(u, v, n[1], e) \cup {n}
  BY <1>6, <1>7, <1>8
<1> QED BY <1>2, <1>3, <1>6, <1>9

\* A step past the smaller vertex keeps to the path and passes no match.
LEMMA PastU ==
    ASSUME NEW u, NEW v, Rising(u), Rising(v), NEW e \in Nat,
           NEW i \in Nat, NEW j \in Nat, OnPath(u, v, i, j),
           i + 1 \in 1 .. Len(u), j + 1 \in 1 .. Len(v), u[i + 1] < v[j + 1]
    PROVE  /\ OnPath(u, v, i + 1, j)
           /\ Ahead(u, v, i, e) = Ahead(u, v, i + 1, e)
<1>1. ASSUME NEW m \in Matches(u, v) PROVE m[1] # i + 1
  <2> SUFFICES ASSUME m[1] = i + 1 PROVE FALSE
    OBVIOUS
  <2>1. m[2] \in 1 .. Len(v) /\ u[m[1]] = v[m[2]] /\ (m[1] <= i <=> m[2] <= j)
    BY MatchIs DEF OnPath
  <2>2. m[2] = j + 1 \/ j + 1 < m[2]
    BY <2>1, ListIs
  <2>3. j + 1 < m[2] => v[j + 1] < v[m[2]]
    BY <2>1, ListIs
  <2>4. u[i + 1] \in Nat /\ v[j + 1] \in Nat
    BY ListIs
  <2> QED BY <2>1, <2>2, <2>3, <2>4
<1>2. ASSUME NEW m \in Matches(u, v) PROVE m[1] \in Nat
  BY MatchIs, ListIs
<1>3. \A m \in Matches(u, v) : (m[1] <= i <=> m[1] <= i + 1) /\ (m[1] > i <=> m[1] > i + 1)
  BY <1>1, <1>2
<1>4. OnPath(u, v, i + 1, j)
  BY <1>3, ListIs DEF OnPath
<1>5. Ahead(u, v, i, e) = Ahead(u, v, i + 1, e)
  BY <1>3 DEF Ahead
<1> QED BY <1>4, <1>5

\* The same step in the other list.
LEMMA PastV ==
    ASSUME NEW u, NEW v, Rising(u), Rising(v),
           NEW i \in Nat, NEW j \in Nat, OnPath(u, v, i, j),
           i + 1 \in 1 .. Len(u), j + 1 \in 1 .. Len(v), v[j + 1] < u[i + 1]
    PROVE  OnPath(u, v, i, j + 1)
<1>1. ASSUME NEW m \in Matches(u, v) PROVE m[2] # j + 1
  <2> SUFFICES ASSUME m[2] = j + 1 PROVE FALSE
    OBVIOUS
  <2>1. m[1] \in 1 .. Len(u) /\ u[m[1]] = v[m[2]] /\ (m[1] <= i <=> m[2] <= j)
    BY MatchIs DEF OnPath
  <2>2. m[1] = i + 1 \/ i + 1 < m[1]
    BY <2>1, ListIs
  <2>3. i + 1 < m[1] => u[i + 1] < u[m[1]]
    BY <2>1, ListIs
  <2>4. u[i + 1] \in Nat /\ v[j + 1] \in Nat
    BY ListIs
  <2> QED BY <2>1, <2>2, <2>3, <2>4
<1>2. ASSUME NEW m \in Matches(u, v) PROVE m[2] \in Nat
  BY MatchIs, ListIs
<1>3. \A m \in Matches(u, v) : m[2] <= j <=> m[2] <= j + 1
  BY <1>1, <1>2
<1> QED BY <1>3, ListIs DEF OnPath

\* What a merge finds from a point of the path, and when it goes beyond its share.
LEMMA MergeIs ==
    ASSUME NEW u, NEW v, Rising(u), Rising(v), NEW d \in Nat, NEW share \in Nat,
           NEW start, OnPath(u, v, start.u, start.v),
           start.sum \in 0 .. share, start.u + start.v = d + start.sum
    PROVE  LET ended == Merge(u, v, start, share)
               ahead == Ahead(u, v, start.u, d + share)
           IN  /\ ended.found = Cardinality(ahead)
               /\ ended.work > share <=> \E m \in ahead : Diagonal(m) = d + share
<1>0. Len(u) \in Nat /\ Len(v) \in Nat
  BY ListIs
<1>1. PICK from : /\ \A s \in Points(u, v, share) :
                        from[s] = MergeStep(u, v, share, from, s[1], s[2], s[3])
                  /\ \A st : Merge(u, v, st, share) = from[<<st.u, st.v, st.sum>>]
  BY MergeFixed
<1>2. PICK e \in Nat : e = d + share
  OBVIOUS
<1> DEFINE Right(i, j, w) ==
              /\ from[<<i, j, w>>].found = Cardinality(Ahead(u, v, i, e))
              /\ from[<<i, j, w>>].work \in Int
              /\ from[<<i, j, w>>].work > share
                   <=> w > share \/ \E m \in Ahead(u, v, i, e) : Diagonal(m) = e
           At(i, j, w) == OnPath(u, v, i, j) /\ w \in 0 .. share + 1 /\ i + j = d + w
           Left(i, j) == Len(u) + Len(v) - (i + j)
           Good == {n \in Nat : \A i, j, w : At(i, j, w) /\ Left(i, j) <= n => Right(i, j, w)}
<1>3. \A i, j, w : Right(i, j, w) <=>
              /\ from[<<i, j, w>>].found = Cardinality(Ahead(u, v, i, e))
              /\ from[<<i, j, w>>].work \in Int
              /\ from[<<i, j, w>>].work > share
                   <=> w > share \/ \E m \in Ahead(u, v, i, e) : Diagonal(m) = e
  OBVIOUS
<1>4. \A i, j, w : At(i, j, w) <=> OnPath(u, v, i, j) /\ w \in 0 .. share + 1 /\ i + j = d + w
  OBVIOUS
<1>5. \A n \in Nat : n \in Good <=> \A i, j, w : At(i, j, w) /\ Left(i, j) <= n => Right(i, j, w)
  <2> HIDE DEF At, Right, Left
  <2> QED OBVIOUS
<1>6. Good \in SUBSET Nat
  OBVIOUS
<1> HIDE DEF At, Right, Good
<1>7. ASSUME NEW i, NEW j, NEW w, At(i, j, w)
      PROVE  /\ i \in 0 .. Len(u) /\ j \in 0 .. Len(v) /\ w \in 0 .. share + 1
             /\ i + j = d + w /\ OnPath(u, v, i, j)
             /\ from[<<i, j, w>>] = MergeStep(u, v, share, from, i, j, w)
  <2>1. i \in 0 .. Len(u) /\ j \in 0 .. Len(v) /\ w \in 0 .. share + 1
        /\ i + j = d + w /\ OnPath(u, v, i, j)
    BY <1>4, <1>7 DEF OnPath
  <2>2. <<i, j, w>> \in Points(u, v, share)
    BY <2>1 DEF Points
  <2> QED BY <1>1, <2>1, <2>2
<1>8. ASSUME NEW i, NEW j, NEW w, At(i, j, w), MergeStops(u, v, share, i, j, w)
      PROVE  Right(i, j, w)
  <2>1. from[<<i, j, w>>] = Ended(w)
    BY <1>7, <1>8, MergeStepIs
  <2>2. Ahead(u, v, i, e) = {}
    <3>1. /\ OnPath(u, v, i, j) /\ w \in 0 .. share + 1 /\ i + j = d + w
      BY <1>7, <1>8
    <3>2. Ahead(u, v, i, d + share) = {}
      BY <1>8, <3>1, NoneAhead
    <3> QED BY <1>2, <3>2
  <2>3. from[<<i, j, w>>].found = 0 /\ from[<<i, j, w>>].work = w /\ w \in Int
    BY <1>7, <1>8, <2>1 DEF Ended
  <2>4. Cardinality(Ahead(u, v, i, e)) = 0
    BY <2>2, FS_EmptySet
  <2> QED BY <1>3, <2>2, <2>3, <2>4
<1>9. ASSUME NEW i, NEW j, NEW w, At(i, j, w), ~MergeStops(u, v, share, i, j, w),
             \A k, l, x : At(k, l, x) /\ Left(k, l) < Left(i, j) => Right(k, l, x)
      PROVE  Right(i, j, w)
  <2>1. /\ i + 1 \in 1 .. Len(u) /\ j + 1 \in 1 .. Len(v) /\ w < share
        /\ u[i + 1] \in Nat /\ v[j + 1] \in Nat
    BY <1>7, <1>9, OnwardIs
  <2>2. from[<<i, j, w>>] = Added(from[Onward(u, v, i, j, w)], u[i + 1] = v[j + 1])
    BY <1>7, <1>9, MergeStepIs
  <2>3. /\ i \in 0 .. Len(u) /\ j \in 0 .. Len(v) /\ w \in 0 .. share + 1
        /\ i + j = d + w /\ OnPath(u, v, i, j) /\ i \in Nat /\ j \in Nat /\ w \in Nat
    <3>1. /\ i \in 0 .. Len(u) /\ j \in 0 .. Len(v) /\ w \in 0 .. share + 1
          /\ i + j = d + w /\ OnPath(u, v, i, j)
      BY <1>7, <1>9
    <3> QED BY <1>0, <3>1
  <2>4. CASE u[i + 1] = v[j + 1]
    <3>1. Onward(u, v, i, j, w) = <<i + 1, j + 1, w + 2>>
      BY <1>9, <2>3, <2>4, OnwardIs
    <3>2. /\ from[<<i, j, w>>].found = from[<<i + 1, j + 1, w + 2>>].found + 1
          /\ from[<<i, j, w>>].work = from[<<i + 1, j + 1, w + 2>>].work
      BY <2>2, <2>4, <3>1 DEF Added, Bit
    <3>3. i + j < e /\ i + j + 1 <= e /\ (i + j + 1 = e <=> w + 2 > share)
      BY <1>2, <2>1, <2>3
    <3>4. PICK n : n = <<i + 1, j + 1>>
      OBVIOUS
    <3>5. /\ OnPath(u, v, i + 1, j + 1)
          /\ n \notin Ahead(u, v, i + 1, e)
          /\ Ahead(u, v, i, e) = Ahead(u, v, i + 1, e) \cup {n}
          /\ Diagonal(n) = i + j + 1
      <4>1. n \in Matches(u, v) /\ n[1] = i + 1 /\ n[2] = j + 1
        BY <2>1, <2>4, <3>4 DEF Matches
      <4>2. /\ OnPath(u, v, n[1], n[2])
            /\ n \notin Ahead(u, v, n[1], e)
            /\ Ahead(u, v, i, e) = Ahead(u, v, n[1], e) \cup {n}
            /\ Diagonal(n) = i + j + 1
        BY <1>2, <2>3, <3>3, <4>1, PastMatch
      <4> QED BY <4>1, <4>2
    <3>6. Right(i + 1, j + 1, w + 2)
      <4>1. At(i + 1, j + 1, w + 2)
        <5>1. w + 2 \in 0 .. share + 1 /\ (i + 1) + (j + 1) = d + (w + 2)
          BY <2>1, <2>3
        <5> QED BY <1>4, <3>5, <5>1
      <4>2. Left(i + 1, j + 1) < Left(i, j)
        BY <1>0, <2>3
      <4> QED BY <1>9, <4>1, <4>2
    <3>7. /\ from[<<i + 1, j + 1, w + 2>>].found = Cardinality(Ahead(u, v, i + 1, e))
          /\ from[<<i + 1, j + 1, w + 2>>].work \in Int
          /\ from[<<i + 1, j + 1, w + 2>>].work > share
               <=> w + 2 > share \/ \E m \in Ahead(u, v, i + 1, e) : Diagonal(m) = e
      BY <1>3, <3>6
    <3>8. Cardinality(Ahead(u, v, i, e)) = Cardinality(Ahead(u, v, i + 1, e)) + 1
      <4>1. IsFiniteSet(Ahead(u, v, i + 1, e))
        BY MatchesFinite, FS_Subset DEF Ahead
      <4> QED BY <3>5, <4>1, FS_AddElement
    <3>9. from[<<i, j, w>>].work > share
               <=> w > share \/ \E m \in Ahead(u, v, i, e) : Diagonal(m) = e
      <4>1. ~(w > share)
        BY <2>1, <2>3
      <4>2. (\E m \in Ahead(u, v, i, e) : Diagonal(m) = e)
               <=> (Diagonal(n) = e \/ \E m \in Ahead(u, v, i + 1, e) : Diagonal(m) = e)
        BY <3>5
      <4>3. Diagonal(n) = e <=> w + 2 > share
        BY <3>3, <3>5
      <4> QED BY <3>2, <3>7, <4>1, <4>2, <4>3
    <3> QED BY <1>3, <3>2, <3>7, <3>8, <3>9
  <2>5. CASE u[i + 1] < v[j + 1]
    <3>1. Onward(u, v, i, j, w) = <<i + 1, j, w + 1>>
      BY <1>9, <2>3, <2>5, OnwardIs
    <3>2. OnPath(u, v, i + 1, j) /\ Ahead(u, v, i, e) = Ahead(u, v, i + 1, e)
      BY <2>1, <2>3, <2>5, PastU
    <3>3. Right(i + 1, j, w + 1)
      <4>1. At(i + 1, j, w + 1)
        <5>1. w + 1 \in 0 .. share + 1 /\ (i + 1) + j = d + (w + 1)
          BY <2>1, <2>3
        <5> QED BY <1>4, <3>2, <5>1
      <4>2. Left(i + 1, j) < Left(i, j)
        BY <1>0, <2>3
      <4> QED BY <1>9, <4>1, <4>2
    <3>4. /\ from[<<i + 1, j, w + 1>>].found = Cardinality(Ahead(u, v, i, e))
          /\ from[<<i + 1, j, w + 1>>].work \in Int
          /\ from[<<i + 1, j, w + 1>>].work > share
               <=> w + 1 > share \/ \E m \in Ahead(u, v, i, e) : Diagonal(m) = e
      BY <1>3, <3>2, <3>3
    <3>5. ~(w > share) /\ ~(w + 1 > share)
      BY <2>1, <2>3
    <3>6. IsFiniteSet(Ahead(u, v, i, e))
      BY MatchesFinite, FS_Subset DEF Ahead
    <3>7. Cardinality(Ahead(u, v, i, e)) \in Nat
      BY <3>6, FS_CardinalityType
    <3>8. /\ from[<<i, j, w>>].found = from[<<i + 1, j, w + 1>>].found
          /\ from[<<i, j, w>>].work = from[<<i + 1, j, w + 1>>].work
      <4>1. ~(u[i + 1] = v[j + 1])
        BY <2>1, <2>5
      <4>2. from[<<i, j, w>>].found = from[<<i + 1, j, w + 1>>].found + 0
            /\ from[<<i, j, w>>].work = from[<<i + 1, j, w + 1>>].work
        BY <2>2, <3>1, <4>1 DEF Added, Bit
      <4> QED BY <3>4, <3>7, <4>2
    <3> QED BY <1>3, <3>4, <3>5, <3>8
  <2>6. CASE v[j + 1] < u[i + 1]
    <3>1. Onward(u, v, i, j, w) = <<i, j + 1, w + 1>>
      BY <1>9, <2>3, <2>6, OnwardIs
    <3>2. OnPath(u, v, i, j + 1)
      BY <2>1, <2>3, <2>6, PastV
    <3>3. Right(i, j + 1, w + 1)
      <4>1. At(i, j + 1, w + 1)
        <5>1. w + 1 \in 0 .. share + 1 /\ i + (j + 1) = d + (w + 1)
          BY <2>1, <2>3
        <5> QED BY <1>4, <3>2, <5>1
      <4>2. Left(i, j + 1) < Left(i, j)
        BY <1>0, <2>3
      <4> QED BY <1>9, <4>1, <4>2
    <3>4. /\ from[<<i, j + 1, w + 1>>].found = Cardinality(Ahead(u, v, i, e))
          /\ from[<<i, j + 1, w + 1>>].work \in Int
          /\ from[<<i, j + 1, w + 1>>].work > share
               <=> w + 1 > share \/ \E m \in Ahead(u, v, i, e) : Diagonal(m) = e
      BY <1>3, <3>3
    <3>5. ~(w > share) /\ ~(w + 1 > share)
      BY <2>1, <2>3
    <3>6. IsFiniteSet(Ahead(u, v, i, e))
      BY MatchesFinite, FS_Subset DEF Ahead
    <3>7. Cardinality(Ahead(u, v, i, e)) \in Nat
      BY <3>6, FS_CardinalityType
    <3>8. /\ from[<<i, j, w>>].found = from[<<i, j + 1, w + 1>>].found
          /\ from[<<i, j, w>>].work = from[<<i, j + 1, w + 1>>].work
      <4>1. ~(u[i + 1] = v[j + 1])
        BY <2>1, <2>6
      <4>2. from[<<i, j, w>>].found = from[<<i, j + 1, w + 1>>].found + 0
            /\ from[<<i, j, w>>].work = from[<<i, j + 1, w + 1>>].work
        BY <2>2, <3>1, <4>1 DEF Added, Bit
      <4> QED BY <3>4, <3>7, <4>2
    <3> QED BY <1>3, <3>4, <3>5, <3>8
  <2> QED BY <2>1, <2>4, <2>5, <2>6
<1>10. 0 \in Good
  <2> SUFFICES ASSUME NEW i, NEW j, NEW w, At(i, j, w), Left(i, j) <= 0 PROVE Right(i, j, w)
    BY <1>5
  <2>0. i \in 0 .. Len(u) /\ j \in 0 .. Len(v)
    BY <1>7
  <2>1. i = Len(u)
    BY <1>0, <2>0
  <2> QED BY <1>8, <2>1 DEF MergeStops
<1>11. ASSUME NEW n \in Nat, n \in Good PROVE n + 1 \in Good
  <2> SUFFICES ASSUME NEW i, NEW j, NEW w, At(i, j, w), Left(i, j) <= n + 1 PROVE Right(i, j, w)
    BY <1>5
  <2>1. \A k, l, x : At(k, l, x) /\ Left(k, l) < Left(i, j) => Right(k, l, x)
    <3> SUFFICES ASSUME NEW k, NEW l, NEW x, At(k, l, x), Left(k, l) < Left(i, j)
                 PROVE  Right(k, l, x)
      OBVIOUS
    <3>0. /\ i \in 0 .. Len(u) /\ j \in 0 .. Len(v)
          /\ k \in 0 .. Len(u) /\ l \in 0 .. Len(v)
      BY <1>7
    <3>1. Left(k, l) \in Int /\ Left(i, j) \in Int
      BY <1>0, <3>0
    <3>2. Left(k, l) <= n
      <4> HIDE DEF Left
      <4> QED BY <3>1
    <3> QED BY <1>5, <1>11, <3>2
  <2> QED BY <1>8, <1>9, <2>1
<1>12. \A n \in Nat : n \in Good
  BY <1>6, <1>10, <1>11, SetInduction
<1>13. Right(start.u, start.v, start.sum)
  <2>1. At(start.u, start.v, start.sum)
    <3>1. start.sum \in 0 .. share + 1
      OBVIOUS
    <3> QED BY <1>4, <3>1
  <2>11. start.u \in 0 .. Len(u) /\ start.v \in 0 .. Len(v)
    BY <1>7, <2>1
  <2>2. Left(start.u, start.v) \in Nat /\ Left(start.u, start.v) <= Left(start.u, start.v)
    BY <1>0, <2>11
  <2> QED BY <1>5, <1>12, <2>1, <2>2
<1>14. ~(start.sum > share)
  OBVIOUS
<1> QED BY <1>1, <1>2, <1>3, <1>13, <1>14

\* The merge of a thread that begins where no match is left, or on the first
\* diagonal, compares one element.
LEMMA MergeFindsNone ==
    ASSUME NEW u, NEW v, Pair(u, v), NEW share \in Nat \ {0}, NEW s,
           \/ /\ s.sum = 0 /\ s.u = Len(u) - 1 /\ s.v \in 0 .. Len(v)
              /\ s.v = Len(v) \/ u[Len(u)] < v[s.v + 1]
           \/ share = 1 /\ s.sum = 0 /\ s.u = 0 /\ s.v = 1 /\ u[1] < v[2]
    PROVE  /\ Merge(u, v, s, share).found = 0
           /\ Merge(u, v, s, share).work \in 0 .. 1
<1>0. /\ Len(u) \in Nat /\ Len(v) \in Nat /\ Len(u) >= 2 /\ Len(v) >= 2
      /\ Rising(u) /\ Rising(v)
  BY ListIs DEF Pair
<1>1. PICK from : /\ \A p \in Points(u, v, share) :
                        from[p] = MergeStep(u, v, share, from, p[1], p[2], p[3])
                  /\ \A st : Merge(u, v, st, share) = from[<<st.u, st.v, st.sum>>]
  BY <1>0, MergeFixed
<1>2. PICK i, j : i = s.u /\ j = s.v
  OBVIOUS
<1>3. /\ i \in 0 .. Len(u) - 1 /\ j \in 0 .. Len(v) /\ s.sum = 0
      /\ j = Len(v) \/ u[i + 1] < v[j + 1]
      /\ i + 1 = Len(u) \/ share = 1
  <2>1. Len(u) - 1 + 1 = Len(u)
    BY <1>0
  <2>2. Len(u) - 1 \in 0 .. Len(u) - 1 /\ 0 \in 0 .. Len(u) - 1 /\ 1 \in 0 .. Len(v)
    BY <1>0
  <2>3. CASE s.u = Len(u) - 1 /\ s.sum = 0 /\ s.v \in 0 .. Len(v)
             /\ (s.v = Len(v) \/ u[Len(u)] < v[s.v + 1])
    BY <1>2, <2>1, <2>2, <2>3
  <2>4. CASE share = 1 /\ s.sum = 0 /\ s.u = 0 /\ s.v = 1 /\ u[1] < v[2]
    <3>1. 0 + 1 = 1 /\ 1 + 1 = 2
      OBVIOUS
    <3> QED BY <1>2, <2>2, <2>4, <3>1
  <2> QED BY <2>3, <2>4
<1>4. ASSUME NEW k \in 0 .. Len(u), NEW l \in 0 .. Len(v), NEW w \in 0 .. share + 1
      PROVE  from[<<k, l, w>>] = MergeStep(u, v, share, from, k, l, w)
  <2>1. <<k, l, w>> \in Points(u, v, share)
    BY DEF Points
  <2> QED BY <1>1, <2>1
<1>5. Merge(u, v, s, share) = from[<<i, j, 0>>]
  BY <1>1, <1>2, <1>3
<1>6. CASE MergeStops(u, v, share, i, j, 0)
  <2>1. from[<<i, j, 0>>] = Ended(0)
    <3>1. i \in 0 .. Len(u) /\ 0 \in 0 .. share + 1
      BY <1>0, <1>3
    <3> QED BY <1>3, <1>4, <1>6, <3>1, MergeStepIs
  <2> QED BY <1>5, <2>1 DEF Ended
<1>7. CASE ~MergeStops(u, v, share, i, j, 0)
  <2>0. i \in 0 .. Len(u) /\ 0 \in 0 .. share + 1 /\ 0 + 1 = 1
    BY <1>0, <1>3
  <2>1. u[i + 1] < v[j + 1] /\ u[i + 1] \in Nat /\ v[j + 1] \in Nat
    <3>1. j # Len(v)
      BY <1>7 DEF MergeStops
    <3> QED BY <1>0, <1>3, <1>7, <2>0, <3>1, OnwardIs
  <2>2. Onward(u, v, i, j, 0) = <<i + 1, j, 1>>
    BY <1>0, <1>3, <1>7, <2>0, <2>1, OnwardIs
  <2>3. from[<<i, j, 0>>] = Added(from[<<i + 1, j, 1>>], u[i + 1] = v[j + 1])
    <3>1. MergeStep(u, v, share, from, i, j, 0)
            = Added(from[Onward(u, v, i, j, 0)], u[i + 1] = v[j + 1])
      BY <1>7, MergeStepIs
    <3> QED BY <1>3, <1>4, <2>0, <2>2, <3>1
  <2>4. from[<<i + 1, j, 1>>] = Ended(1)
    <3>1. i + 1 \in 0 .. Len(u) /\ 1 \in 0 .. share + 1
      BY <1>0, <1>3
    <3>2. MergeStops(u, v, share, i + 1, j, 1)
      BY <1>3 DEF MergeStops
    <3> QED BY <1>3, <1>4, <3>1, <3>2, MergeStepIs
  <2>5. ~(u[i + 1] = v[j + 1])
    BY <2>1
  <2> QED BY <1>5, <2>3, <2>4, <2>5 DEF Ended, Added, Bit
<1> QED BY <1>6, <1>7

\* The matches that a thread has to count.
Owned(u, v, d, e)   == {m \in Matches(u, v) : d <= Diagonal(m) /\ Diagonal(m) < e}
Passed(u, v, d, e)  == {m \in Matches(u, v) : d < Diagonal(m) /\ Diagonal(m) <= e}
OnDiagonal(u, v, d) == {m \in Matches(u, v) : Diagonal(m) = d}

\* A diagonal has at most one match.
LEMMA OnDiagonalIs ==
    ASSUME NEW u, NEW v, Rising(u), Rising(v), NEW d
    PROVE  /\ IsFiniteSet(OnDiagonal(u, v, d))
           /\ Cardinality(OnDiagonal(u, v, d)) = Bit(OnDiagonal(u, v, d) # {})
<1>1. IsFiniteSet(OnDiagonal(u, v, d))
  BY MatchesFinite, FS_Subset DEF OnDiagonal
<1>2. CASE OnDiagonal(u, v, d) = {}
  BY <1>1, <1>2, FS_EmptySet DEF Bit
<1>3. CASE OnDiagonal(u, v, d) # {}
  <2>1. PICK m : m \in OnDiagonal(u, v, d)
    BY <1>3
  <2>2. OnDiagonal(u, v, d) = {m}
    BY <2>1, OneMatch DEF OnDiagonal
  <2> QED BY <1>1, <1>3, <2>2, FS_Singleton DEF Bit
<1> QED BY <1>1, <1>2, <1>3

\* A match on the diagonal that ends a share is counted by both of its threads.
LEMMA OwnedIs ==
    ASSUME NEW u, NEW v, Rising(u), Rising(v), NEW d \in Nat, NEW e \in Nat, d < e
    PROVE  /\ IsFiniteSet(Owned(u, v, d, e)) /\ IsFiniteSet(Passed(u, v, d, e))
           /\ Cardinality(Owned(u, v, d, e)) + Bit(OnDiagonal(u, v, e) # {})
                = Cardinality(Passed(u, v, d, e)) + Bit(OnDiagonal(u, v, d) # {})
<1> DEFINE A == Owned(u, v, d, e)
           B == Passed(u, v, d, e)
           C == OnDiagonal(u, v, d)
           D == OnDiagonal(u, v, e)
<1>1. IsFiniteSet(A) /\ IsFiniteSet(B) /\ IsFiniteSet(C) /\ IsFiniteSet(D)
  BY MatchesFinite, FS_Subset DEF Owned, Passed, OnDiagonal
<1>2. \A m \in Matches(u, v) : Diagonal(m) \in Int
  BY MatchIs
<1>3. A \cup D = B \cup C
  <2>1. ASSUME NEW m \in Matches(u, v) PROVE m \in A \/ m \in D <=> m \in B \/ m \in C
    BY <1>2 DEF Owned, Passed, OnDiagonal
  <2>2. \A m : m \in A \cup D \/ m \in B \cup C => m \in Matches(u, v)
    BY DEF Owned, Passed, OnDiagonal
  <2> QED BY <2>1, <2>2
<1>4. A \cap D = {} /\ B \cap C = {}
  BY <1>2 DEF Owned, Passed, OnDiagonal
<1>5. Cardinality(C) = Bit(C # {}) /\ Cardinality(D) = Bit(D # {})
  BY OnDiagonalIs
<1> HIDE DEF A, B, C, D
<1>6. /\ Cardinality(A \cup D) = Cardinality(A) + Cardinality(D) - Cardinality(A \cap D)
      /\ Cardinality(B \cup C) = Cardinality(B) + Cardinality(C) - Cardinality(B \cap C)
  BY <1>1, FS_Union
<1>7. /\ Cardinality(A) \in Nat /\ Cardinality(B) \in Nat
      /\ Cardinality(C) \in Nat /\ Cardinality(D) \in Nat
      /\ Cardinality({}) = 0
  BY <1>1, FS_CardinalityType, FS_EmptySet
<1>8. Cardinality(A) + Bit(D # {}) = Cardinality(B) + Bit(C # {})
  <2>1. Cardinality(A) + Cardinality(D) - 0 = Cardinality(B) + Cardinality(C) - 0
    BY <1>3, <1>4, <1>6, <1>7, Zenon
  <2>2. Cardinality(A) + Cardinality(D) = Cardinality(B) + Cardinality(C)
    BY <1>7, <2>1
  <2> QED BY <1>5, <2>2, Zenon
<1> QED BY <1>1, <1>8 DEF A, B, C, D

-----------------------------------------------------------------------------
(* The threads of an intersection.                                         *)

\* A thread whose share goes from diagonal d up to e finds its matches, and the one
\* that its share cuts if it goes beyond it.
ShareCounted(u, v, d, e, r) ==
    /\ r.beyond \in BOOLEAN /\ r.unset = FALSE
    /\ r.beyond => OnDiagonal(u, v, e) # {}
    /\ d < Len(u) + Len(v) => r.sum = Bit(OnDiagonal(u, v, d) # {})
    /\ r.found = Cardinality(Owned(u, v, d, e)) + Bit(r.beyond)

\* A good start is all that a thread needs to find its matches.
LEMMA ThreadIs ==
    ASSUME NEW u, NEW v, Pair(u, v), NEW d \in Nat, NEW share \in Nat \ {0},
           d = 1 => share = 1, NEW s, GoodStart(u, v, d, s)
    PROVE  ShareCounted(u, v, d, d + share, Intersect(u, v, s, share))
<1>0. /\ Len(u) \in Nat /\ Len(v) \in Nat /\ Rising(u) /\ Rising(v)
  BY ListIs DEF Pair
<1>1. PICK ended : ended = Merge(u, v, s, share)
  OBVIOUS
<1>2. PICK r : r = Intersect(u, v, s, share)
  OBVIOUS
<1>3. /\ r.found = s.sum + ended.found
      /\ r.beyond = (s.u < Len(u) /\ s.v < Len(v) /\ ended.work > share)
      /\ r.unset = (s.sum > share)
      /\ r.sum = s.sum
  <2>1. share # 0
    OBVIOUS
  <2> QED BY <1>1, <1>2, <2>1 DEF Intersect, Found
<1>4. /\ s.u \in 0 .. Len(u) /\ s.v \in 0 .. Len(v)
      /\ s.sum \in 0 .. 1 /\ s.u + s.v = d + s.sum
      /\ s.sum = 1 <=> \E m \in Matches(u, v) : Diagonal(m) = d
  BY DEF GoodStart
<1>5. s.sum = Bit(OnDiagonal(u, v, d) # {})
  <2>1. OnDiagonal(u, v, d) # {} <=> \E m \in Matches(u, v) : Diagonal(m) = d
    BY DEF OnDiagonal
  <2>2. s.sum = 0 \/ s.sum = 1
    BY <1>4
  <2> QED BY <1>4, <2>1, <2>2 DEF Bit
<1>6. r.unset = FALSE
  <2>1. ~(s.sum > share)
    <3>1. PICK x \in 0 .. 1 : x = s.sum
      BY <1>4
    <3>2. ~(x > share)
      OBVIOUS
    <3> QED BY <3>1, <3>2
  <2>2. (s.sum > share) = FALSE
    BY <2>1
  <2> QED BY <1>3, <2>2, Zenon
<1>7. CASE OnPath(u, v, s.u, s.v)
  <2>1. s.sum \in 0 .. share
    BY <1>4
  <2>2. /\ ended.found = Cardinality(Ahead(u, v, s.u, d + share))
        /\ ended.work > share <=> \E m \in Ahead(u, v, s.u, d + share) : Diagonal(m) = d + share
    BY <1>0, <1>1, <1>4, <1>7, <2>1, MergeIs
  <2>3. ASSUME NEW m \in Matches(u, v)
        PROVE  /\ Diagonal(m) \in Int
               /\ m[1] > s.u <=> Diagonal(m) > d
               /\ m[1] > s.u => s.u < Len(u) /\ s.v < Len(v)
    <3>1. /\ m[1] \in 1 .. Len(u) /\ m[2] \in 1 .. Len(v) /\ (m[1] <= s.u <=> m[2] <= s.v)
      BY <1>0, <1>7, MatchIs DEF OnPath
    <3>2. PICK p \in Int, q \in Int, x \in Int, y \in Int, z \in Int :
             p = m[1] /\ q = m[2] /\ x = s.u /\ y = s.v /\ z = s.sum
      BY <1>4, <3>1
    <3>3. (p <= x <=> q <= y) /\ x + y = d + z /\ (z = 0 \/ z = 1) /\ p <= Len(u) /\ q <= Len(v)
      BY <1>0, <1>4, <3>1, <3>2
    <3>4. (p > x <=> p + q - 1 > d) /\ (p > x => x < Len(u) /\ y < Len(v))
      BY <1>0, <3>3
    <3> QED BY <3>2, <3>4 DEF Diagonal
  <2>4. Ahead(u, v, s.u, d + share) = Passed(u, v, d, d + share)
    BY <2>3 DEF Ahead, Passed
  <2>5. r.beyond = (OnDiagonal(u, v, d + share) # {})
    <3>1. (\E m \in Ahead(u, v, s.u, d + share) : Diagonal(m) = d + share)
             <=> OnDiagonal(u, v, d + share) # {}
      <4>1. ASSUME NEW m \in Matches(u, v), Diagonal(m) = d + share
            PROVE  m \in Ahead(u, v, s.u, d + share)
        BY <2>3, <4>1 DEF Ahead
      <4> QED BY <4>1 DEF Ahead, OnDiagonal
    <3>2. OnDiagonal(u, v, d + share) # {} => s.u < Len(u) /\ s.v < Len(v)
      BY <2>3 DEF OnDiagonal
    <3> QED BY <1>3, <2>2, <3>1, <3>2
  <2>6. /\ Cardinality(Owned(u, v, d, d + share)) + Bit(OnDiagonal(u, v, d + share) # {})
             = Cardinality(Passed(u, v, d, d + share)) + Bit(OnDiagonal(u, v, d) # {})
        /\ Cardinality(Passed(u, v, d, d + share)) \in Nat
    <3>1. PICK e \in Nat : e = d + share /\ d < e
      OBVIOUS
    <3>2. /\ IsFiniteSet(Passed(u, v, d, e))
          /\ Cardinality(Owned(u, v, d, e)) + Bit(OnDiagonal(u, v, e) # {})
               = Cardinality(Passed(u, v, d, e)) + Bit(OnDiagonal(u, v, d) # {})
      BY <1>0, <3>1, OwnedIs
    <3> QED BY <3>1, <3>2, FS_CardinalityType
  <2>7. r.found = Cardinality(Passed(u, v, d, d + share)) + Bit(OnDiagonal(u, v, d) # {})
    <3>1. r.found = Bit(OnDiagonal(u, v, d) # {}) + Cardinality(Passed(u, v, d, d + share))
      BY <1>3, <1>5, <2>2, <2>4
    <3>2. Bit(OnDiagonal(u, v, d) # {}) \in Int
      BY DEF Bit
    <3> QED BY <2>6, <3>1, <3>2
  <2>8. r.found = Cardinality(Owned(u, v, d, d + share)) + Bit(r.beyond)
    BY <2>5, <2>6, <2>7, Zenon
  <2> QED BY <1>2, <1>3, <1>5, <1>6, <2>5, <2>8 DEF ShareCounted
<1>8. CASE /\ s.sum = 0
           /\ ended.found = 0 /\ ended.work \in 0 .. 1
           /\ Owned(u, v, d, d + share) = {}
  <2>1. r.beyond = FALSE
    <3>1. PICK x \in 0 .. 1 : x = ended.work
      BY <1>8
    <3>2. ~(x > share)
      OBVIOUS
    <3> QED BY <1>3, <3>1, <3>2
  <2>2. r.found = 0
    BY <1>3, <1>8
  <2>3. r.found = Cardinality(Owned(u, v, d, d + share)) + Bit(r.beyond)
    BY <1>8, <2>1, <2>2, FS_EmptySet DEF Bit
  <2> QED BY <1>2, <1>3, <1>5, <1>6, <2>1, <2>3 DEF ShareCounted
<1>9. CASE /\ s.sum = 0 /\ s.u = Len(u) - 1
           /\ s.v = Len(v) \/ u[Len(u)] < v[s.v + 1]
           /\ \A m \in Matches(u, v) : Diagonal(m) < d
  <2>1. ended.found = 0 /\ ended.work \in 0 .. 1
    BY <1>1, <1>4, <1>9, MergeFindsNone
  <2>2. Owned(u, v, d, d + share) = {}
    <3>1. \A m \in Matches(u, v) : Diagonal(m) \in Int
      BY <1>0, MatchIs
    <3> QED BY <1>9, <3>1 DEF Owned
  <2> QED BY <1>8, <1>9, <2>1, <2>2
<1>10. CASE d = 1 /\ s.sum = 0 /\ s.u = 0 /\ s.v = 1 /\ u[1] < v[2]
  <2>1. ended.found = 0 /\ ended.work \in 0 .. 1
    BY <1>1, <1>10, MergeFindsNone
  <2>2. Owned(u, v, d, d + share) = {}
    <3>1. \A m \in Matches(u, v) : Diagonal(m) \in Int /\ Diagonal(m) # d
      BY <1>0, <1>4, <1>10, MatchIs
    <3> QED BY <1>10, <3>1 DEF Owned
  <2> QED BY <1>8, <1>10, <2>1, <2>2
<1> QED BY <1>7, <1>9, <1>10 DEF GoodStart

\* The shares follow each other from the first diagonal to the last one; that on
\* diagonal 1 is not longer than one.
LEMMA SharesAre ==
    ASSUME NEW u, NEW v, Len(u) \in Nat, Len(v) \in Nat, NEW T \in Nat \ {0}
    PROVE  /\ DiagonalId(u, v, T, 0) = 0 /\ DiagonalId(u, v, T, T) = Len(u) + Len(v)
           /\ \A t \in Nat :
                 /\ DiagonalId(u, v, T, t) \in Nat /\ Work(u, v, T, t) \in Nat
                 /\ DiagonalId(u, v, T, t + 1) = DiagonalId(u, v, T, t) + Work(u, v, T, t)
                 /\ DiagonalId(u, v, T, t) = 1 => Work(u, v, T, t) <= 1
                 /\ DiagonalId(u, v, T, t) < Len(u) + Len(v) => Work(u, v, T, t) > 0
                 /\ t <= T => DiagonalId(u, v, T, t) <= Len(u) + Len(v)
<1>1. PICK n \in Nat : n = Len(u) + Len(v)
  OBVIOUS
<1>2. PICK q \in Nat, r \in 0 .. T - 1 : q = n \div T /\ r = n % T /\ n = T * q + r
  BY QuotientOf
<1>21. q \in Nat /\ r \in Nat /\ r < T
  BY <1>2
<1>3. ASSUME NEW t \in Nat
      PROVE  /\ DiagonalId(u, v, T, t) = t * q + (IF t <= r THEN t ELSE r)
             /\ Work(u, v, T, t) = q + (IF t < r THEN 1 ELSE 0)
  <2>1. q * t = t * q
    BY <1>2
  <2> QED BY <1>1, <1>2, <2>1 DEF DiagonalId, Work, Lesser, Bit
<1>4. ASSUME NEW t \in Nat PROVE t * q \in Nat /\ (t + 1) * q = t * q + q
  BY <1>2
<1>5. 0 * q = 0
  BY <1>2
<1>6. DiagonalId(u, v, T, 0) = 0 /\ DiagonalId(u, v, T, T) = n
  BY <1>2, <1>3, <1>5
<1>7. ASSUME NEW t \in Nat
      PROVE  /\ DiagonalId(u, v, T, t) \in Nat /\ Work(u, v, T, t) \in Nat
             /\ DiagonalId(u, v, T, t + 1) = DiagonalId(u, v, T, t) + Work(u, v, T, t)
             /\ DiagonalId(u, v, T, t) = 1 => Work(u, v, T, t) <= 1
             /\ DiagonalId(u, v, T, t) < n => Work(u, v, T, t) > 0
             /\ t <= T => DiagonalId(u, v, T, t) <= n
  <2>1. PICK a \in Nat : a = t * q /\ (t + 1) * q = a + q
    BY <1>4
  <2>2. PICK l \in Nat, k \in Nat, o \in Nat :
           /\ l = IF t <= r THEN t ELSE r
           /\ k = IF t + 1 <= r THEN t + 1 ELSE r
           /\ o = IF t < r THEN 1 ELSE 0
           /\ DiagonalId(u, v, T, t) = a + l
           /\ DiagonalId(u, v, T, t + 1) = a + q + k
           /\ Work(u, v, T, t) = q + o
    <3>1. /\ (IF t <= r THEN t ELSE r) \in Nat
          /\ (IF t + 1 <= r THEN t + 1 ELSE r) \in Nat
          /\ (IF t < r THEN 1 ELSE 0) \in Nat
      BY <1>21
    <3>2. /\ DiagonalId(u, v, T, t) = a + (IF t <= r THEN t ELSE r)
          /\ Work(u, v, T, t) = q + (IF t < r THEN 1 ELSE 0)
      BY <1>3, <2>1
    <3>3. DiagonalId(u, v, T, t + 1) = a + q + (IF t + 1 <= r THEN t + 1 ELSE r)
      <4>1. t + 1 \in Nat
        OBVIOUS
      <4> QED BY <1>3, <2>1, <4>1
    <3> QED BY <3>1, <3>2, <3>3
  <2>3. t = 0 => a = 0
    BY <1>5, <2>1
  <2>4. t # 0 => a >= q
    <3> SUFFICES ASSUME t # 0 PROVE a >= q
      OBVIOUS
    <3>1. PICK s \in Nat : t = s + 1
      <4>1. t - 1 \in Nat /\ t = (t - 1) + 1
        OBVIOUS
      <4> QED BY <4>1
    <3>2. s * q \in Nat /\ (s + 1) * q = s * q + q
      BY <1>4
    <3>3. PICK b \in Nat : b = s * q
      BY <3>2
    <3>4. a = b + q
      BY <2>1, <3>1, <3>2, <3>3
    <3> QED BY <1>2, <3>4
  <2>5. q = 0 => a = 0 /\ n = r
    <3> SUFFICES ASSUME q = 0 PROVE a = 0 /\ n = r
      OBVIOUS
    <3>1. t * 0 = 0 /\ T * 0 = 0
      OBVIOUS
    <3>2. a = t * 0 /\ n = T * 0 + r
      BY <1>2, <2>1
    <3> QED BY <1>2, <3>1, <3>2
  <2>6. a + l = 1 => q + o <= 1
    <3>1. CASE q = 0
      BY <2>2, <3>1
    <3>2. CASE q # 0
      BY <1>2, <2>1, <2>2, <2>3, <2>4, <3>2
    <3> QED BY <3>1, <3>2
  <2>7. a + l < n => q + o > 0
    <3>1. CASE q = 0
      <4>1. a = 0 /\ n = r
        BY <2>5, <3>1
      <4> QED BY <1>2, <2>2, <3>1, <4>1
    <3>2. CASE q # 0
      BY <1>2, <2>2, <3>2
    <3> QED BY <3>1, <3>2
  <2>8. t <= T => a + l <= n
    <3> SUFFICES ASSUME t <= T PROVE a + l <= n
      OBVIOUS
    <3>1. PICK m \in Nat : T = t + m
      <4>0. t \in Nat /\ T \in Nat
        OBVIOUS
      <4>1. T - t \in Nat /\ T = t + (T - t)
        OBVIOUS
      <4> QED BY <4>1
    <3>2. PICK b \in Nat : b = m * q
      <4>1. m * q \in Nat
        BY <1>21
      <4> QED BY <4>1
    <3>3. T * q = a + b
      <4>1. (t + m) * q = t * q + m * q
        BY <1>21
      <4> QED BY <2>1, <3>1, <3>2, <4>1
    <3>4. n = a + b + r
      BY <1>2, <3>3
    <3>5. l <= r
      BY <1>21, <2>2
    <3> QED BY <1>21, <3>4, <3>5
  <2>9. k = l + o
    <3>1. CASE t < r
      BY <1>21, <2>2, <3>1
    <3>2. CASE t >= r
      BY <1>21, <2>2, <3>2
    <3> QED BY <1>21, <3>1, <3>2
  <2>10. a + q + k = (a + l) + (q + o)
    BY <1>21, <2>9
  <2>11. a + l \in Nat /\ q + o \in Nat
    BY <1>21
  <2> QED BY <2>2, <2>6, <2>7, <2>8, <2>10, <2>11
<1> QED BY <1>1, <1>6, <1>7

\* What thread t of T finds.
LEMMA ThreadCountIs ==
    ASSUME NEW u, NEW v, Pair(u, v), NEW T \in Nat \ {0}, NEW t \in 0 .. T - 1
    PROVE  ShareCounted(u, v, DiagonalId(u, v, T, t), DiagonalId(u, v, T, t + 1),
                   ThreadCount(u, v, T, t))
<1>0. /\ Len(u) \in Nat /\ Len(v) \in Nat /\ Rising(u) /\ Rising(v)
  BY ListIs DEF Pair
<1>1. PICK d, e, share : /\ d = DiagonalId(u, v, T, t) /\ e = DiagonalId(u, v, T, t + 1)
                         /\ share = Work(u, v, T, t)
  OBVIOUS
<1>2. PICK r : r = ThreadCount(u, v, T, t)
  OBVIOUS
<1>3. /\ d \in Nat /\ share \in Nat /\ e \in Nat /\ e = d + share
      /\ d = 1 => share <= 1
      /\ d < Len(u) + Len(v) => share > 0
  <2>1. t \in Nat /\ t + 1 \in Nat
    OBVIOUS
  <2> QED BY <1>0, <1>1, <2>1, SharesAre
<1>4. PICK c : c = CrossingPoint(u, v, d)
  OBVIOUS
<1>5. PICK s : s = StartPoint(u, v, c[1], c[2])
  OBVIOUS
<1>6. r = Intersect(u, v, s, share)
  BY <1>1, <1>2, <1>4, <1>5 DEF ThreadCount
<1>7. CASE share = 0
  <2>1. r = [found |-> 0, beyond |-> FALSE, unset |-> FALSE, sum |-> 0]
    BY <1>6, <1>7 DEF Intersect, Found
  <2>2. ~(d < Len(u) + Len(v)) /\ e = d
    BY <1>0, <1>3, <1>7
  <2>3. Owned(u, v, d, e) = {}
    <3>1. \A m \in Matches(u, v) : Diagonal(m) \in Int
      BY <1>0, MatchIs
    <3> QED BY <1>3, <2>2, <3>1 DEF Owned
  <2>4. r.beyond = FALSE /\ r.unset = FALSE /\ r.found = 0
    BY <2>1
  <2>5. r.found = Cardinality(Owned(u, v, d, e)) + Bit(r.beyond)
    BY <2>3, <2>4, FS_EmptySet DEF Bit
  <2> QED BY <1>1, <1>2, <2>2, <2>4, <2>5 DEF ShareCounted
<1>8. CASE share > 0
  <2>1. share \in Nat \ {0} /\ (d = 1 => share = 1)
    BY <1>3, <1>8
  <2>2. d < Len(u) + Len(v)
    <3>1. e <= Len(u) + Len(v)
      <4>1. t + 1 \in Nat /\ t + 1 <= T
        OBVIOUS
      <4> QED BY <1>0, <1>1, <4>1, SharesAre
    <3> QED BY <1>0, <1>3, <1>8, <3>1
  <2>3. \E i \in 0 .. Len(u), j \in 0 .. Len(v) :
           i + j = d /\ c = <<i, j>> /\ (d = 0 \/ Crossing(u, v, d, i, j))
    <3>1. CASE d = 0
      <4>1. c = <<0, 0>>
        BY <1>4, <3>1 DEF CrossingPoint
      <4>2. 0 \in 0 .. Len(u) /\ 0 \in 0 .. Len(v) /\ 0 + 0 = d
        BY <1>0, <3>1
      <4> QED BY <3>1, <4>1, <4>2
    <3>2. CASE d # 0
      <4>1. Inner(u, v, d)
        BY <1>0, <1>3, <2>2, <3>2 DEF Inner
      <4> QED BY <1>3, <1>4, <4>1, SearchEnds
    <3> QED BY <3>1, <3>2
  <2>4. PICK i \in 0 .. Len(u), j \in 0 .. Len(v) :
           i + j = d /\ c = <<i, j>> /\ (d = 0 \/ Crossing(u, v, d, i, j))
    BY <2>3
  <2>5. GoodStart(u, v, d, s)
    <3>1. GoodStart(u, v, d, StartPoint(u, v, i, j))
      BY <1>3, <2>4, StartIs
    <3>2. s = StartPoint(u, v, i, j)
      BY <1>5, <2>4
    <3> QED BY <3>1, <3>2
  <2>6. ShareCounted(u, v, d, d + share, r)
    <3>1. d \in Nat
      BY <1>3
    <3> QED BY <1>6, <2>1, <2>5, <3>1, ThreadIs
  <2> QED BY <1>1, <1>2, <1>3, <2>6
<1>9. share = 0 \/ share > 0
  BY <1>3
<1> QED BY <1>7, <1>8, <1>9

\* How many matches the threads take back.
TakenBack(inStep, more) == IF inStep THEN more .. more ELSE 0 .. more

\* What threads that find M matches, and more of them twice, may count.
CountsOf(M, more, inStep) == {M + more - n : n \in TakenBack(inStep, more)}

\* Together the threads count each match once, and once more for each thread that
\* goes beyond its share, which threads in lockstep all take back.
LEMMA CountsAre ==
    ASSUME NEW u, NEW v, Pair(u, v), NEW T \in Nat \ {0}, NEW inStep
    PROVE  \E more \in Nat :
              Counts(u, v, T, inStep) = CountsOf(Cardinality(Matches(u, v)), more, inStep)
<1>0. /\ Len(u) \in Nat /\ Len(v) \in Nat /\ Rising(u) /\ Rising(v)
      /\ Len(u) + Len(v) > 0
  BY ListIs DEF Pair
<1>1. PICK D : D = 0 .. T - 1
  OBVIOUS
<1>2. PICK thread : thread = [t \in D |-> ThreadCount(u, v, T, t)]
  OBVIOUS
<1>3. PICK b : b = [t \in 0 .. T |-> DiagonalId(u, v, T, t)]
  OBVIOUS
<1>4. PICK M : M = Matches(u, v) /\ IsFiniteSet(M)
  BY <1>0, MatchesFinite
<1>5. \A t \in D : t \in 0 .. T /\ t + 1 \in 0 .. T /\ t \in Nat /\ t + 1 \in Nat
  BY <1>1
<1>6. /\ b \in [0 .. T -> Nat] /\ b[0] = 0 /\ b[T] = Len(u) + Len(v)
      /\ \A t \in D : b[t] <= b[t + 1]
  <2>1. \A t \in 0 .. T : t \in Nat
    OBVIOUS
  <2>2. 0 \in 0 .. T /\ T \in 0 .. T
    OBVIOUS
  <2>3. ASSUME NEW t \in D PROVE b[t] <= b[t + 1]
    <3>1. /\ DiagonalId(u, v, T, t) \in Nat /\ Work(u, v, T, t) \in Nat
          /\ DiagonalId(u, v, T, t + 1) = DiagonalId(u, v, T, t) + Work(u, v, T, t)
      BY <1>0, <1>5, SharesAre
    <3>2. b[t] = DiagonalId(u, v, T, t) /\ b[t + 1] = DiagonalId(u, v, T, t + 1)
      BY <1>3, <1>5
    <3> QED BY <3>1, <3>2
  <2>4. \A t \in 0 .. T : DiagonalId(u, v, T, t) \in Nat
    BY <1>0, <2>1, SharesAre
  <2>5. DiagonalId(u, v, T, 0) = 0 /\ DiagonalId(u, v, T, T) = Len(u) + Len(v)
    BY <1>0, SharesAre
  <2> QED BY <1>3, <2>2, <2>3, <2>4, <2>5
<1>7. ASSUME NEW t \in D PROVE ShareCounted(u, v, b[t], b[t + 1], thread[t])
  <2>1. ShareCounted(u, v, DiagonalId(u, v, T, t), DiagonalId(u, v, T, t + 1), ThreadCount(u, v, T, t))
    BY <1>1, ThreadCountIs
  <2>2. b[t] = DiagonalId(u, v, T, t) /\ b[t + 1] = DiagonalId(u, v, T, t + 1)
    BY <1>3, <1>5
  <2>3. thread[t] = ThreadCount(u, v, T, t)
    BY <1>2
  <2> QED BY <2>1, <2>2, <2>3
<1>8. DOMAIN thread = D /\ IsFiniteSet(D)
  <2>1. 0 \in Int /\ T - 1 \in Int
    OBVIOUS
  <2> QED BY <1>1, <1>2, <2>1, FS_Interval
<1>9. PICK beyond : beyond = {t \in D : thread[t].beyond} /\ IsFiniteSet(beyond)
  BY <1>8, FS_Subset
<1>10. PICK more \in Nat : more = Cardinality(beyond)
  BY <1>9, FS_CardinalityType
\* Each match is owned by one thread.
<1>11. ASSUME NEW m \in M
       PROVE  /\ Diagonal(m) \in Nat /\ Diagonal(m) < Len(u) + Len(v)
              /\ \E t \in D : m \in Owned(u, v, b[t], b[t + 1])
              /\ \A s, t \in D : m \in Owned(u, v, b[s], b[s + 1])
                                 /\ m \in Owned(u, v, b[t], b[t + 1]) => s = t
  <2>1. Diagonal(m) \in Nat /\ Diagonal(m) < Len(u) + Len(v) /\ 0 <= Diagonal(m)
    BY <1>0, <1>4, MatchIs
  <2>2. /\ \E t \in D : b[t] <= Diagonal(m) /\ Diagonal(m) < b[t + 1]
        /\ \A s, t \in D : b[s] <= Diagonal(m) /\ Diagonal(m) < b[s + 1]
                           /\ b[t] <= Diagonal(m) /\ Diagonal(m) < b[t + 1] => s = t
    <3>1. PICK k \in Nat : k = Diagonal(m) /\ b[0] <= k /\ k < b[T]
      BY <1>6, <2>1
    <3>2. \A t \in 0 .. T - 1 : b[t] <= b[t + 1]
      BY <1>1, <1>6
    <3>3. b \in [0 .. T -> Nat]
      BY <1>6
    <3>4. /\ \E t \in 0 .. T - 1 : b[t] <= k /\ k < b[t + 1]
          /\ \A s, t \in 0 .. T - 1 :
                b[s] <= k /\ k < b[s + 1] /\ b[t] <= k /\ k < b[t + 1] => s = t
      BY <3>1, <3>2, <3>3, OneInterval
    <3> QED BY <1>1, <3>1, <3>4
  <2> QED BY <1>4, <2>1, <2>2 DEF Owned
<1>12. PICK key : key = [m \in M |-> CHOOSE t \in D : m \in Owned(u, v, b[t], b[t + 1])]
  OBVIOUS
<1>13. ASSUME NEW m \in M PROVE key[m] \in D /\ m \in Owned(u, v, b[key[m]], b[key[m] + 1])
  <2>1. key[m] = CHOOSE t \in D : m \in Owned(u, v, b[t], b[t + 1])
    BY <1>12
  <2> QED BY <1>11, <2>1
<1>14. ASSUME NEW t \in D PROVE {m \in M : key[m] = t} = Owned(u, v, b[t], b[t + 1])
  <2>1. ASSUME NEW m \in M PROVE key[m] = t <=> m \in Owned(u, v, b[t], b[t + 1])
    BY <1>11, <1>13
  <2>2. Owned(u, v, b[t], b[t + 1]) \subseteq M
    BY <1>4 DEF Owned
  <2> QED BY <2>1, <2>2
<1>15. PICK owned : owned = [t \in D |-> Cardinality({m \in M : key[m] = t})]
  OBVIOUS
<1>16. SumFunctionOnSet(owned, D) = Cardinality(M)
  BY <1>4, <1>8, <1>13, <1>15, CountGroups
<1>17. PICK mark : mark = [t \in D |-> IF t \in beyond THEN 1 ELSE 0]
  OBVIOUS
<1>18. SumFunctionOnSet(mark, D) = more
  <2>1. beyond \in SUBSET D /\ \A t \in D : mark[t] = IF t \in beyond THEN 1 ELSE 0
    BY <1>9, <1>17
  <2> QED BY <1>8, <1>10, <2>1, SumOfMarks
<1>19. PICK found : found = [t \in D |-> thread[t].found]
  OBVIOUS
<1>20. ASSUME NEW t \in D PROVE owned[t] \in Int /\ mark[t] \in Int /\ found[t] = owned[t] + mark[t]
  <2>1. owned[t] = Cardinality(Owned(u, v, b[t], b[t + 1]))
    BY <1>14, <1>15
  <2>2. owned[t] \in Nat
    <3>1. IsFiniteSet({m \in M : key[m] = t})
      BY <1>4, FS_Subset
    <3> QED BY <1>15, <3>1, FS_CardinalityType
  <2>3. mark[t] = Bit(thread[t].beyond) /\ mark[t] \in Int
    BY <1>9, <1>17 DEF Bit
  <2>4. found[t] = owned[t] + mark[t]
    BY <1>7, <1>19, <2>1, <2>3 DEF ShareCounted
  <2> QED BY <2>2, <2>3, <2>4
<1>21. SumFunctionOnSet(found, D) = Cardinality(M) + more
  <2>1. SumFunctionOnSet(found, D) = SumFunctionOnSet(owned, D) + SumFunctionOnSet(mark, D)
    BY <1>8, <1>20, SumPlus
  <2> QED BY <1>16, <1>18, <2>1
\* Who is told so that the next thread has the match.
<1>22. ASSUME NEW t \in beyond
       PROVE  t + 1 \in D /\ thread[t + 1].sum > 0 /\ thread[t].unset = FALSE
  <2>1. t \in D /\ thread[t].beyond
    BY <1>9
  <2>2. thread[t].unset = FALSE /\ OnDiagonal(u, v, b[t + 1]) # {}
    BY <1>7, <2>1 DEF ShareCounted
  <2>3. b[t + 1] < Len(u) + Len(v)
    <3>1. PICK m \in M : Diagonal(m) = b[t + 1]
      BY <1>4, <2>2 DEF OnDiagonal
    <3> QED BY <1>11, <3>1
  <2>4. t + 1 \in D
    <3>1. t + 1 # T
      <4> SUFFICES ASSUME t + 1 = T PROVE FALSE
        OBVIOUS
      <4>1. b[t + 1] = Len(u) + Len(v)
        BY <1>6
      <4> QED BY <1>0, <2>3, <4>1
    <3> QED BY <1>1, <2>1, <3>1
  <2>5. thread[t + 1].sum = Bit(OnDiagonal(u, v, b[t + 1]) # {})
    BY <1>7, <2>3, <2>4 DEF ShareCounted
  <2> QED BY <2>2, <2>4, <2>5 DEF Bit
<1>23. PICK told : told = {t \in beyond : t + 1 \in D /\ thread[t + 1].sum > 0}
  OBVIOUS
<1>24. PICK sure : sure = {t \in told : ~thread[t].unset}
  OBVIOUS
<1>25. told = beyond /\ sure = beyond
  <2>1. told = beyond
    BY <1>22, <1>23
  <2>2. sure = beyond
    BY <1>22, <1>24, <2>1
  <2> QED BY <2>1, <2>2
<1>26. Outcomes(thread, inStep)
         = {SumFunctionOnSet(found, D) - n :
              n \in IF inStep THEN Cardinality(sure) .. Cardinality(told)
                                ELSE 0 .. Cardinality(beyond)}
  BY <1>8, <1>9, <1>19, <1>23, <1>24 DEF Outcomes, SumFunction
<1>27. Outcomes(thread, inStep) = CountsOf(Cardinality(M), more, inStep)
  <2>1. (IF inStep THEN Cardinality(sure) .. Cardinality(told) ELSE 0 .. Cardinality(beyond))
          = TakenBack(inStep, more)
    BY <1>10, <1>25 DEF TakenBack
  <2>2. PICK J : J = TakenBack(inStep, more)
    OBVIOUS
  <2>3. PICK total : total = SumFunctionOnSet(found, D)
    OBVIOUS
  <2>4. Outcomes(thread, inStep) = {total - n : n \in J}
    BY <1>26, <2>1, <2>2, <2>3
  <2>5. total = Cardinality(M) + more
    BY <1>21, <2>3
  <2>6. Outcomes(thread, inStep) = {Cardinality(M) + more - n : n \in J}
    <3>0. Cardinality(M) \in Nat /\ \A n \in J : n \in Nat
      BY <1>4, <2>2, FS_CardinalityType DEF TakenBack
    <3>1. \A n \in J : total - n = Cardinality(M) + more - n
      BY <2>5, <3>0
    <3> QED BY <2>4, <3>1
  <2> QED BY <2>2, <2>6, Zenon DEF CountsOf
<1> QED BY <1>1, <1>2, <1>4, <1>27 DEF Counts

\* They never count too few, and exactly in lockstep.
LEMMA CountsBound ==
    ASSUME NEW u, NEW v, Pair(u, v), NEW T \in Nat \ {0}, NEW inStep
    PROVE  LET C == Counts(u, v, T, inStep)
               M == Cardinality(Matches(u, v))
           IN  /\ IsFiniteSet(C) /\ C # {} /\ C \subseteq Nat
               /\ \A c \in C : c >= M
               /\ inStep => C = {M}
<1>1. PICK M \in Nat : M = Cardinality(Matches(u, v))
  BY MatchesFinite, FS_CardinalityType DEF Pair
<1>2. PICK more \in Nat : Counts(u, v, T, inStep) = CountsOf(M, more, inStep)
  BY <1>1, CountsAre
<1>3. PICK I : I = TakenBack(inStep, more)
  OBVIOUS
<1>4. IsFiniteSet(I) /\ more \in I /\ \A n \in I : n \in Nat /\ n <= more
  <2>0. more \in Int /\ 0 \in Int
    OBVIOUS
  <2>1. IsFiniteSet(more .. more) /\ IsFiniteSet(0 .. more)
    BY <2>0, FS_Interval
  <2> QED BY <1>3, <2>1 DEF TakenBack
<1>5. Counts(u, v, T, inStep) = {M + more - n : n \in I}
  BY <1>2, <1>3 DEF CountsOf
<1>6. IsFiniteSet({M + more - n : n \in I})
  <2>1. M \in Int /\ M + more \in Int
    OBVIOUS
  <2>2. IsFiniteSet(M .. M + more)
    BY <2>1, FS_Interval
  <2>3. {M + more - n : n \in I} \subseteq M .. M + more
    BY <1>4
  <2> QED BY <2>2, <2>3, FS_Subset
<1>7. \A n \in I : M + more - n \in Nat /\ M + more - n >= M
  BY <1>4
<1>8. inStep => I = {more}
  BY <1>3 DEF TakenBack
<1>9. inStep => Counts(u, v, T, inStep) = {M}
  <2>1. M + more - more = M
    OBVIOUS
  <2> QED BY <1>5, <1>8, <2>1
<1> QED BY <1>1, <1>4, <1>5, <1>6, <1>7, <1>9

-----------------------------------------------------------------------------
(* K-truss: the lists.                                                     *)

\* The elements of a list, as the proofs cite them.
LEMMA ElementsOf ==
    ASSUME NEW S, NEW l \in Seq(S)
    PROVE  /\ Len(l) \in Nat /\ DOMAIN l = 1 .. Len(l)
           /\ \A i \in 1 .. Len(l) : l[i] \in S /\ l[i] \in ToSet(l)
           /\ \A x \in ToSet(l) : \E i \in 1 .. Len(l) : l[i] = x
           /\ ToSet(l) = {l[i] : i \in 1 .. Len(l)} /\ ToSet(l) \subseteq S
  BY DEF ToSet

\* The matches of two sorted lists are their common elements.
LEMMA MatchesAreShared ==
    ASSUME NEW u, NEW v, Rising(u), Rising(v)
    PROVE  /\ Cardinality(Matches(u, v)) = Cardinality(ToSet(u) \cap ToSet(v))
           /\ Cardinality(Matches(u, v)) = Cardinality(ToSet(v) \cap ToSet(u))
<1>0. u \in Seq(Nat) /\ v \in Seq(Nat)
  BY DEF Rising
<1>1. PICK S, T : S = Matches(u, v) /\ T = ToSet(u) \cap ToSet(v)
  OBVIOUS
<1>2. PICK f : f = [m \in S |-> u[m[1]]]
  OBVIOUS
<1>3. ASSUME NEW m \in S
      PROVE  /\ m[1] \in 1 .. Len(u) /\ m[2] \in 1 .. Len(v) /\ m = <<m[1], m[2]>>
             /\ u[m[1]] = v[m[2]] /\ f[m] = u[m[1]] /\ f[m] \in T
  <2>1. /\ m[1] \in 1 .. Len(u) /\ m[2] \in 1 .. Len(v) /\ m = <<m[1], m[2]>>
        /\ u[m[1]] = v[m[2]]
    BY <1>1, MatchIs
  <2>2. u[m[1]] \in ToSet(u) /\ v[m[2]] \in ToSet(v)
    BY <1>0, <2>1, ElementsOf
  <2> QED BY <1>1, <1>2, <2>1, <2>2
<1>4. ASSUME NEW l, Rising(l), NEW i \in 1 .. Len(l), NEW j \in 1 .. Len(l), l[i] = l[j]
      PROVE  i = j
  <2>1. l[i] \in Nat /\ l[j] \in Nat /\ Len(l) \in Nat
        /\ (i < j => l[i] < l[j]) /\ (j < i => l[j] < l[i])
    BY <1>4, ListIs
  <2>2. i \in Nat /\ j \in Nat
    BY <2>1
  <2> QED BY <1>4, <2>1, <2>2
<1>5. ASSUME NEW m \in S, NEW n \in S, f[m] = f[n] PROVE m = n
  <2>1. u[m[1]] = u[n[1]] /\ v[m[2]] = v[n[2]]
    BY <1>3, <1>5
  <2>2. m[1] = n[1] /\ m[2] = n[2]
    BY <1>3, <1>4, <2>1
  <2> QED BY <1>3, <2>2
<1>6. ASSUME NEW x \in T PROVE \E m \in S : f[m] = x
  <2>1. PICK i \in 1 .. Len(u), j \in 1 .. Len(v) : u[i] = x /\ v[j] = x
    BY <1>0, <1>1, ElementsOf
  <2>2. <<i, j>> \in S
    BY <1>1, <2>1 DEF Matches
  <2>3. f[<<i, j>>] = x
    BY <1>2, <2>1, <2>2
  <2> QED BY <2>2, <2>3
<1>7. f \in Bijection(S, T)
  <2>1. f \in [S -> T]
    BY <1>2, <1>3
  <2> QED BY <1>5, <1>6, <2>1 DEF Bijection, Injection, Surjection, IsInjective
<1>8. IsFiniteSet(T)
  <2>1. IsFiniteSet(1 .. Len(u))
    <3>1. 1 \in Int /\ Len(u) \in Int
      BY <1>0
    <3> QED BY <3>1, FS_Interval
  <2>2. PICK g : g = [i \in 1 .. Len(u) |-> u[i]]
    OBVIOUS
  <2>3. g \in Surjection(1 .. Len(u), ToSet(u))
    BY <1>0, <2>2, ElementsOf DEF Surjection
  <2>4. IsFiniteSet(ToSet(u))
    BY <2>1, <2>3, FS_Surjection
  <2> QED BY <1>1, <2>4, FS_Intersection
<1>9. Cardinality(S) = Cardinality(T)
  BY <1>7, <1>8, SameCount
<1>10. ToSet(v) \cap ToSet(u) = T
  BY <1>1
<1> QED BY <1>1, <1>9, <1>10

\* The elements of a finite set of numbers, in order.
LEMMA InOrderIs ==
    ASSUME NEW S \in SUBSET Nat, IsFiniteSet(S), NEW n \in Nat, n = Cardinality(S)
    PROVE  /\ InOrder(S) \in [1 .. n -> S]
           /\ \A i, j \in 1 .. n : i < j => InOrder(S)[i] < InOrder(S)[j]
           /\ \A x \in S : \E i \in 1 .. n : InOrder(S)[i] = x
<1>1. PICK r : r = [x \in S |-> Cardinality({y \in S : y < x}) + 1]
  OBVIOUS
<1>2. ASSUME NEW x \in S
      PROVE  /\ IsFiniteSet({y \in S : y < x}) /\ Cardinality({y \in S : y < x}) \in Nat
             /\ r[x] = Cardinality({y \in S : y < x}) + 1
  BY <1>1, FS_Subset, FS_CardinalityType
<1>3. ASSUME NEW x \in S PROVE r[x] \in 1 .. n
  <2>1. {y \in S : y < x} \in SUBSET (S \ {x})
    OBVIOUS
  <2>2. /\ IsFiniteSet(S \ {x}) /\ Cardinality(S \ {x}) \in Nat
        /\ Cardinality(S) = Cardinality(S \ {x}) + 1
    BY OneLess
  <2>3. Cardinality({y \in S : y < x}) <= Cardinality(S \ {x})
    BY <2>1, <2>2, FS_Subset
  <2> QED BY <1>2, <2>2, <2>3
<1>4. ASSUME NEW x \in S, NEW y \in S, x < y PROVE r[x] < r[y]
  <2>1. PICK A, B : A = {z \in S : z < x} /\ B = {z \in S : z < y}
    OBVIOUS
  <2>2. IsFiniteSet(B) /\ x \in B /\ A \in SUBSET (B \ {x})
    <3>1. x \in Nat /\ y \in Nat /\ \A z \in S : z \in Nat
      OBVIOUS
    <3>2. IsFiniteSet(B)
      BY <1>2, <2>1
    <3>3. x \in B
      BY <1>4, <2>1
    <3>4. \A z \in S : z < x => z < y /\ z # x
      BY <1>4, <3>1
    <3> QED BY <2>1, <3>2, <3>3, <3>4
  <2>3. /\ IsFiniteSet(B \ {x}) /\ Cardinality(B \ {x}) \in Nat
        /\ Cardinality(B) = Cardinality(B \ {x}) + 1
    BY <2>2, OneLess
  <2>4. Cardinality(A) <= Cardinality(B \ {x})
    BY <2>2, <2>3, FS_Subset
  <2>5. r[x] = Cardinality(A) + 1 /\ r[y] = Cardinality(B) + 1 /\ Cardinality(A) \in Nat
    BY <1>2, <2>1
  <2> QED BY <2>3, <2>4, <2>5
<1>5. r \in [S -> 1 .. Cardinality(S)] /\ \A x, y \in S : r[x] = r[y] => x = y
  <2>1. r \in [S -> 1 .. n]
    BY <1>1, <1>3
  <2>2. ASSUME NEW x \in S, NEW y \in S, r[x] = r[y] PROVE x = y
    <3>1. x \in Nat /\ y \in Nat /\ r[x] \in Nat /\ r[y] \in Nat
      BY <1>3
    <3>2. ~(x < y) /\ ~(y < x)
      BY <1>4, <2>2, <3>1
    <3> QED BY <3>1, <3>2
  <2> QED BY <2>1, <2>2
<1>6. ASSUME NEW i \in 1 .. n PROVE InOrder(S)[i] \in S /\ r[InOrder(S)[i]] = i
  <2>1. \E x \in S : r[x] = i
    BY <1>5, RanksReachAll
  <2>2. \A x \in S : r[x] = i <=> Cardinality({y \in S : y < x}) = i - 1
    BY <1>2
  <2>3. InOrder(S)[i] = CHOOSE x \in S : Cardinality({y \in S : y < x}) = i - 1
    BY DEF InOrder
  <2> QED BY <2>1, <2>2, <2>3
<1>7. InOrder(S) \in [1 .. n -> S]
  <2>1. DOMAIN InOrder(S) = 1 .. n /\ InOrder(S) = [i \in 1 .. n |-> InOrder(S)[i]]
    BY DEF InOrder
  <2> QED BY <1>6, <2>1
<1>8. ASSUME NEW i \in 1 .. n, NEW j \in 1 .. n, i < j PROVE InOrder(S)[i] < InOrder(S)[j]
  <2>1. PICK x \in S, y \in S : /\ x = InOrder(S)[i] /\ y = InOrder(S)[j]
                                /\ r[x] = i /\ r[y] = j
    BY <1>6
  <2>2. x \in Nat /\ y \in Nat /\ ~(y < x) /\ x # y
    <3>1. i \in Nat /\ j \in Nat
      OBVIOUS
    <3> QED BY <1>4, <1>8, <2>1, <3>1
  <2> QED BY <2>1, <2>2
<1>9. ASSUME NEW x \in S PROVE \E i \in 1 .. n : InOrder(S)[i] = x
  <2>1. r[x] \in 1 .. n
    BY <1>3
  <2>2. r[InOrder(S)[r[x]]] = r[x] /\ InOrder(S)[r[x]] \in S
    BY <1>6, <2>1
  <2> QED BY <1>5, <2>1, <2>2
<1> QED BY <1>7, <1>8, <1>9

\* A list without duplicates: its length is the number of its elements.
OnceEach(l) == \A i, j \in 1 .. Len(l) : l[i] = l[j] => i = j

\* A list that has no vertex twice is as long as it has vertices.
LEMMA LengthIs ==
    ASSUME NEW S, NEW l \in Seq(S), OnceEach(l)
    PROVE  IsFiniteSet(ToSet(l)) /\ Cardinality(ToSet(l)) = Len(l)
<1>1. PICK n \in Nat : n = Len(l)
  BY ElementsOf
<1>2. l \in Bijection(1 .. n, ToSet(l))
  <2>1. DOMAIN l = 1 .. n /\ l = [i \in 1 .. n |-> l[i]]
    BY <1>1
  <2>2. l \in [1 .. n -> ToSet(l)]
    BY <1>1, <2>1, ElementsOf
  <2>3. \A x \in ToSet(l) : \E i \in 1 .. n : l[i] = x
    BY <1>1, ElementsOf
  <2> QED BY <1>1, <2>1, <2>2, <2>3
          DEF OnceEach, Bijection, Injection, Surjection, IsInjective
<1>3. IsFiniteSet(1 .. n) /\ Cardinality(1 .. n) = n
  <2>1. 1 \in Int /\ n \in Int
    OBVIOUS
  <2> QED BY <2>1, FS_Interval
<1>4. ExistsBijection(1 .. n, ToSet(l))
  BY <1>2 DEF ExistsBijection
<1> QED BY <1>1, <1>3, <1>4, FS_Bijection

\* A function on 1 .. n is a list.
LEMMA FunctionIsList ==
    ASSUME NEW S, NEW n \in Nat, NEW f \in [1 .. n -> S]
    PROVE  f \in Seq(S) /\ Len(f) = n
<1>1. f \in Seq(S)
  OBVIOUS
<1>2. DOMAIN f = 1 .. n /\ Len(f) \in Nat /\ DOMAIN f = 1 .. Len(f)
  BY <1>1
<1> QED BY <1>1, <1>2

\* Elements `gone` of a list of n: H in front of the cut, and R, the positions
\* behind it of those that stay.
Gap(l, n, gone, cut, H, R) ==
    /\ n \in Nat /\ cut \in Nat /\ n = cut + Cardinality(gone)
    /\ IsFiniteSet(gone) /\ \A x \in gone : \E i \in 1 .. n : l[i] = x
    /\ \A i, j \in 1 .. n : l[i] = l[j] => i = j
    /\ H = {l[i] : i \in 1 .. cut} \cap gone
    /\ R = {i \in cut + 1 .. n : l[i] \notin gone}

\* There are as many of both.
LEMMA HolesAreFilled ==
    ASSUME NEW l, NEW n, NEW gone, NEW cut, NEW H, NEW R, Gap(l, n, gone, cut, H, R)
    PROVE  /\ IsFiniteSet(H) /\ IsFiniteSet(R)
           /\ Cardinality(H) \in Nat /\ Cardinality(R) = Cardinality(H)
<1> /\ n \in Nat /\ cut \in Nat /\ n = cut + Cardinality(gone)
    /\ IsFiniteSet(gone) /\ \A x \in gone : \E i \in 1 .. n : l[i] = x
    /\ \A i, j \in 1 .. n : l[i] = l[j] => i = j
    /\ H = {l[i] : i \in 1 .. cut} \cap gone
    /\ R = {i \in cut + 1 .. n : l[i] \notin gone}
  BY DEF Gap
<1>1. PICK I, B, G : /\ I = cut + 1 .. n /\ B = {i \in I : l[i] \in gone}
                     /\ G = gone \ H
  OBVIOUS
<1>2. PICK g \in Nat : g = Cardinality(gone) /\ n = cut + g
  BY FS_CardinalityType
<1>3. IsFiniteSet(I) /\ Cardinality(I) = g
  <2>1. cut + 1 \in Int /\ n \in Int
    OBVIOUS
  <2>2. /\ IsFiniteSet(cut + 1 .. n)
        /\ Cardinality(cut + 1 .. n) = IF cut + 1 > n THEN 0 ELSE n - (cut + 1) + 1
    BY <2>1, FS_Interval
  <2> QED BY <1>1, <1>2, <2>2
<1>4. /\ IsFiniteSet(H) /\ H \subseteq gone /\ IsFiniteSet(B) /\ B \subseteq I
      /\ IsFiniteSet(R) /\ R = I \ B /\ IsFiniteSet(G)
  BY <1>1, <1>3, FS_Subset
<1>5. PICK h \in Nat, b \in Nat : h = Cardinality(H) /\ b = Cardinality(B)
  BY <1>4, FS_CardinalityType
<1>6. Cardinality(R) = g - b
  <2>1. I \cap B = B
    BY <1>4
  <2> QED BY <1>3, <1>4, <1>5, <2>1, FS_Difference
<1>7. Cardinality(G) = g - h
  <2>1. gone \cap H = H
    BY <1>4
  <2>2. Cardinality(gone \ H) = Cardinality(gone) - Cardinality(gone \cap H)
    BY FS_Difference
  <2> QED BY <1>1, <1>2, <1>5, <2>1, <2>2
<1>8. \A i \in I : i \in 1 .. n /\ ~(i \in 1 .. cut)
  BY <1>1
<1>9. PICK f : f = [i \in B |-> l[i]]
  OBVIOUS
<1>10. f \in Bijection(B, G)
  <2>1. ASSUME NEW i \in B PROVE f[i] \in G /\ f[i] = l[i]
    <3>1. i \in I /\ l[i] \in gone /\ f[i] = l[i]
      BY <1>1, <1>9
    <3>2. l[i] \notin H
      <4> SUFFICES ASSUME NEW j \in 1 .. cut, l[j] = l[i] PROVE FALSE
        OBVIOUS
      <4>1. j \in 1 .. n
        BY <1>2
      <4> QED BY <1>8, <3>1, <4>1
    <3> QED BY <1>1, <3>1, <3>2
  <2>2. ASSUME NEW i \in B, NEW j \in B, f[i] = f[j] PROVE i = j
    BY <1>4, <1>8, <2>1, <2>2
  <2>3. ASSUME NEW x \in G PROVE \E i \in B : f[i] = x
    <3>1. x \in gone /\ x \notin H
      BY <1>1
    <3>2. PICK i \in 1 .. n : l[i] = x
      BY <3>1
    <3>3. i \notin 1 .. cut
      BY <3>1, <3>2
    <3>4. i \in I
      BY <1>1, <3>3
    <3>5. i \in B
      BY <1>1, <3>1, <3>2, <3>4
    <3> QED BY <2>1, <3>2, <3>5
  <2>4. f \in [B -> G]
    BY <1>9, <2>1
  <2> QED BY <2>2, <2>3, <2>4 DEF Bijection, Injection, Surjection, IsInjective
<1>11. b = g - h
  BY <1>4, <1>5, <1>7, <1>10, SameCount
<1> QED BY <1>4, <1>5, <1>6, <1>11

\* An erase of elements of a list leaves the others, in some order.
LEMMA ErasedIs ==
    ASSUME NEW S \in SUBSET Nat, NEW l \in Seq(S), OnceEach(l), NEW gone \in SUBSET ToSet(l)
    PROVE  /\ Erased(l, gone) \in Seq(S) /\ OnceEach(Erased(l, gone))
           /\ ToSet(Erased(l, gone)) = ToSet(l) \ gone
           /\ Len(Erased(l, gone)) = Len(l) - Cardinality(gone)
<1>1. PICK n \in Nat : n = Len(l) /\ l \in [1 .. n -> S]
  BY ElementsOf
<1>2. \A i, j \in 1 .. n : l[i] = l[j] => i = j
  BY <1>1 DEF OnceEach
<1>3. \A x : x \in ToSet(l) <=> \E i \in 1 .. n : l[i] = x
  BY <1>1, ElementsOf
<1>4. IsFiniteSet(gone) /\ Cardinality(gone) \in Nat /\ Cardinality(gone) <= n
  BY <1>1, LengthIs, FS_Subset, FS_CardinalityType
<1>5. PICK cut \in Nat : cut = n - Cardinality(gone) /\ n = cut + Cardinality(gone)
  BY <1>4
<1>6. \A i \in 1 .. cut : i \in 1 .. n
  BY <1>4, <1>5
<1>7. PICK H, R : /\ H = {l[i] : i \in 1 .. cut} \cap gone
                  /\ R = {i \in cut + 1 .. n : l[i] \notin gone}
  OBVIOUS
<1>8. PICK h \in Nat : /\ IsFiniteSet(H) /\ h = Cardinality(H)
                       /\ IsFiniteSet(R) /\ h = Cardinality(R)
  <2>1. \A x \in gone : \E i \in 1 .. n : l[i] = x
    BY <1>3
  <2>2. Gap(l, n, gone, cut, H, R)
    BY <1>2, <1>4, <1>5, <1>7, <2>1 DEF Gap
  <2>3. /\ IsFiniteSet(H) /\ IsFiniteSet(R)
        /\ Cardinality(H) \in Nat /\ Cardinality(R) = Cardinality(H)
    BY <2>2, HolesAreFilled
  <2> QED BY <2>3
<1>9. PICK hole, rest : hole = InOrder(H) /\ rest = InOrder(R)
  OBVIOUS
<1>10. /\ hole \in [1 .. h -> H]
       /\ \A i, j \in 1 .. h : i < j => hole[i] < hole[j]
       /\ \A x \in H : \E i \in 1 .. h : hole[i] = x
  <2>1. H \in SUBSET Nat
    BY <1>1, <1>6, <1>7
  <2> QED BY <1>8, <1>9, <2>1, InOrderIs
<1>11. /\ rest \in [1 .. h -> R]
       /\ \A i, j \in 1 .. h : i < j => rest[i] < rest[j]
       /\ \A x \in R : \E i \in 1 .. h : rest[i] = x
  <2>1. R \in SUBSET Nat
    BY <1>7
  <2> QED BY <1>8, <1>9, <2>1, InOrderIs
<1>12. \A x \in H : x \in Nat
  BY <1>1, <1>6, <1>7
<1>13. ASSUME NEW i \in 1 .. h, NEW j \in 1 .. h
       PROVE  /\ hole[i] = hole[j] => i = j
              /\ rest[i] = rest[j] => i = j
  <2>1. hole[i] \in Nat /\ hole[j] \in Nat /\ rest[i] \in Nat /\ rest[j] \in Nat
        /\ i \in Nat /\ j \in Nat
    BY <1>7, <1>10, <1>11, <1>12
  <2>2. (i < j => hole[i] < hole[j] /\ rest[i] < rest[j])
        /\ (j < i => hole[j] < hole[i] /\ rest[j] < rest[i])
    BY <1>10, <1>11
  <2> QED BY <2>1, <2>2
<1>14. PICK pos : pos = [x \in H |-> CHOOSE m \in DOMAIN hole : hole[m] = x]
  OBVIOUS
<1>15. ASSUME NEW x \in H PROVE pos[x] \in 1 .. h /\ hole[pos[x]] = x
  <2>1. DOMAIN hole = 1 .. h
    BY <1>10
  <2>2. \E m \in 1 .. h : hole[m] = x
    BY <1>10
  <2> QED BY <1>14, <2>1, <2>2
<1>16. PICK src : src = [i \in 1 .. cut |-> IF l[i] \in gone THEN rest[pos[l[i]]] ELSE i]
  OBVIOUS
<1>17. ASSUME NEW i \in 1 .. cut, l[i] \in gone
       PROVE  l[i] \in H /\ src[i] = rest[pos[l[i]]] /\ src[i] \in R
  BY <1>7, <1>11, <1>15, <1>16, <1>17
<1>18. ASSUME NEW i \in 1 .. cut
       PROVE  src[i] \in 1 .. n /\ l[src[i]] \notin gone /\ (src[i] \in 1 .. cut => src[i] = i)
  <2>1. CASE l[i] \in gone
    <3>1. src[i] \in R
      BY <1>17, <2>1
    <3> QED BY <1>7, <3>1
  <2>2. CASE l[i] \notin gone
    <3>1. src[i] = i
      BY <1>16, <2>2
    <3> QED BY <1>6, <2>2, <3>1
  <2> QED BY <2>1, <2>2
<1>19. ASSUME NEW i \in 1 .. cut, NEW j \in 1 .. cut, src[i] = src[j] PROVE i = j
  <2>1. CASE l[i] \in gone /\ l[j] \in gone
    <3>1. /\ l[i] \in H /\ l[j] \in H /\ rest[pos[l[i]]] = rest[pos[l[j]]]
      BY <1>17, <1>19, <2>1
    <3>2. l[i] = l[j]
      BY <1>13, <1>15, <3>1
    <3> QED BY <1>2, <1>6, <3>2
  <2>2. CASE l[i] \notin gone /\ l[j] \notin gone
    BY <1>16, <1>19, <2>2
  <2>3. CASE l[i] \in gone /\ l[j] \notin gone
    <3>1. src[i] \in R /\ src[j] = j
      BY <1>16, <1>17, <2>3
    <3> QED BY <1>7, <1>19, <3>1
  <2>4. CASE l[i] \notin gone /\ l[j] \in gone
    <3>1. src[j] \in R /\ src[i] = i
      BY <1>16, <1>17, <2>4
    <3> QED BY <1>7, <1>19, <3>1
  <2> QED BY <2>1, <2>2, <2>3, <2>4
<1>20. ASSUME NEW j \in 1 .. n, l[j] \notin gone PROVE \E i \in 1 .. cut : src[i] = j
  <2>1. CASE j \in 1 .. cut
    <3>1. src[j] = j
      BY <1>16, <1>20, <2>1
    <3> QED BY <2>1, <3>1
  <2>2. CASE j \notin 1 .. cut
    <3>1. j \in cut + 1 .. n
      BY <2>2
    <3>2. j \in R
      BY <1>7, <1>20, <3>1
    <3>3. PICK m \in 1 .. h : rest[m] = j
      BY <1>11, <3>2
    <3>4. hole[m] \in H
      BY <1>10
    <3>5. PICK i \in 1 .. cut : l[i] = hole[m]
      BY <1>7, <3>4
    <3>6. l[i] \in gone /\ pos[l[i]] = m
      <4>1. l[i] \in gone
        BY <1>7, <3>4, <3>5
      <4>2. pos[hole[m]] \in 1 .. h /\ hole[pos[hole[m]]] = hole[m]
        BY <1>15, <3>4
      <4> QED BY <1>13, <3>5, <4>1, <4>2
    <3>7. src[i] = j
      BY <1>17, <3>3, <3>6
    <3> QED BY <3>7
  <2> QED BY <2>1, <2>2
<1>21. PICK e : e = Erased(l, gone)
  OBVIOUS
<1>22. e = [i \in 1 .. cut |-> l[src[i]]]
  <2>1. e = [i \in 1 .. cut |-> IF l[i] \in gone
                                THEN l[rest[CHOOSE m \in DOMAIN hole : hole[m] = l[i]]]
                                ELSE l[i]]
    <3>1. Len(l) = n /\ Len(l) - Cardinality(gone) = cut
      BY <1>1, <1>5
    <3>2. PICK k, top : k = Len(l) - Cardinality(gone) /\ top = Len(l)
      OBVIOUS
    <3>3. e = [i \in 1 .. k |->
                 IF l[i] \in gone
                 THEN l[InOrder({j \in k + 1 .. top : l[j] \notin gone})
                         [CHOOSE m \in DOMAIN InOrder({l[j] : j \in 1 .. k} \cap gone) :
                            InOrder({l[j] : j \in 1 .. k} \cap gone)[m] = l[i]]]
                 ELSE l[i]]
      BY <1>21, <3>2 DEF Erased
    <3>4. k = cut /\ top = n
      BY <3>1, <3>2
    <3> QED BY <1>7, <1>9, <3>3, <3>4
  <2>2. ASSUME NEW i \in 1 .. cut
        PROVE  (IF l[i] \in gone THEN l[rest[CHOOSE m \in DOMAIN hole : hole[m] = l[i]]]
                                 ELSE l[i]) = l[src[i]]
    <3>1. CASE l[i] \in gone
      <4>1. l[i] \in H /\ src[i] = rest[pos[l[i]]]
        BY <1>17, <3>1
      <4>2. pos[l[i]] = CHOOSE m \in DOMAIN hole : hole[m] = l[i]
        BY <1>14, <4>1
      <4> QED BY <3>1, <4>1, <4>2
    <3>2. CASE l[i] \notin gone
      BY <1>16, <3>2
    <3> QED BY <3>1, <3>2
  <2> QED BY <2>1, <2>2
<1>23. \A i \in 1 .. cut : e[i] = l[src[i]]
  BY <1>22
<1>24. e \in [1 .. cut -> S]
  BY <1>1, <1>18, <1>22
<1>25. e \in Seq(S) /\ Len(e) = cut
  BY <1>24, FunctionIsList
<1>26. OnceEach(e)
  <2>1. ASSUME NEW i \in 1 .. cut, NEW j \in 1 .. cut, e[i] = e[j] PROVE i = j
    <3>1. src[i] \in 1 .. n /\ src[j] \in 1 .. n /\ l[src[i]] = l[src[j]]
      BY <1>18, <1>23, <2>1
    <3> QED BY <1>2, <1>19, <3>1
  <2> QED BY <1>25, <2>1 DEF OnceEach
<1>27. ToSet(e) = ToSet(l) \ gone
  <2>1. \A x : x \in ToSet(e) <=> \E i \in 1 .. cut : e[i] = x
    BY <1>25, ElementsOf
  <2>2. ASSUME NEW i \in 1 .. cut PROVE e[i] \in ToSet(l) \ gone
    BY <1>3, <1>18, <1>23
  <2>3. ASSUME NEW x \in ToSet(l) \ gone PROVE \E i \in 1 .. cut : e[i] = x
    <3>1. PICK j \in 1 .. n : l[j] = x
      BY <1>3
    <3>2. PICK i \in 1 .. cut : src[i] = j
      BY <1>20, <3>1
    <3> QED BY <1>23, <3>1, <3>2
  <2> QED BY <2>1, <2>2, <2>3
<1> QED BY <1>1, <1>5, <1>21, <1>25, <1>26, <1>27

\* The sort of a list leaves it with what it has.
LEMMA InOrderList ==
    ASSUME NEW N \in SUBSET Nat, NEW l \in Seq(N), OnceEach(l), NEW o, o = InOrder(ToSet(l))
    PROVE  o \in Seq(N) /\ OnceEach(o) /\ ToSet(o) = ToSet(l) /\ Len(o) = Len(l)
<1>1. PICK n \in Nat : n = Len(l)
  BY ElementsOf
<1>2. PICK S : S = ToSet(l)
  OBVIOUS
<1>3. IsFiniteSet(S) /\ n = Cardinality(S) /\ S \in SUBSET N
  BY <1>1, <1>2, LengthIs, ElementsOf
<1>4. S \in SUBSET Nat /\ \A x \in S : x \in Nat
  BY <1>3
<1>5. /\ InOrder(S) \in [1 .. n -> S]
      /\ \A i, j \in 1 .. n : i < j => InOrder(S)[i] < InOrder(S)[j]
      /\ \A x \in S : \E i \in 1 .. n : InOrder(S)[i] = x
  BY <1>3, <1>4, InOrderIs
<1>6. o = InOrder(S)
  BY <1>2
<1>7. /\ o \in [1 .. n -> S] /\ \A x \in S : \E i \in 1 .. n : o[i] = x
      /\ \A i, j \in 1 .. n : i < j => o[i] < o[j]
  BY <1>5, <1>6
<1>8. o \in Seq(S) /\ Len(o) = n
  BY <1>7, FunctionIsList
<1>9. ASSUME NEW i \in 1 .. n, NEW j \in 1 .. n, o[i] = o[j] PROVE i = j
  <2>1. o[i] \in S /\ o[j] \in S /\ i \in Nat /\ j \in Nat
    BY <1>7
  <2>2. o[i] \in Nat /\ o[j] \in Nat
    BY <1>4, <2>1
  <2>3. (i < j => o[i] < o[j]) /\ (j < i => o[j] < o[i])
    BY <1>7
  <2> QED BY <1>9, <2>1, <2>2, <2>3
<1>10. ToSet(o) = S
  <2>1. ToSet(o) \subseteq S
    BY <1>8, ElementsOf
  <2>2. \A i \in 1 .. n : o[i] \in ToSet(o)
    BY <1>8, ElementsOf
  <2> QED BY <1>7, <2>1, <2>2
<1>11. o \in Seq(N)
  <2>1. o \in [1 .. n -> N]
    BY <1>3, <1>7
  <2> QED BY <2>1, FunctionIsList
<1> QED BY <1>1, <1>2, <1>8, <1>9, <1>10, <1>11 DEF OnceEach

\* So does the sort of a graph.
LEMMA SortKeeps ==
    ASSUME NEW N \in SUBSET Nat, NEW g \in [N -> Seq(N)], \A v \in N : OnceEach(g[v]),
           NEW h, h = SortHornet(g)
    PROVE  /\ h \in [N -> Seq(N)]
           /\ \A v \in N : /\ OnceEach(h[v]) /\ ToSet(h[v]) = ToSet(g[v])
                           /\ Len(h[v]) = Len(g[v])
<1>1. CASE h = g
  BY <1>1
<1>2. CASE h # g
  <2>1. DOMAIN g = N
    OBVIOUS
  <2>2. h = [v \in N |-> InOrder(ToSet(g[v]))]
    BY <1>2, <2>1 DEF SortHornet
  <2>3. ASSUME NEW v \in N
        PROVE  /\ h[v] \in Seq(N) /\ OnceEach(h[v]) /\ ToSet(h[v]) = ToSet(g[v])
               /\ Len(h[v]) = Len(g[v])
    <3>1. g[v] \in Seq(N) /\ h[v] = InOrder(ToSet(g[v]))
      BY <2>2
    <3> QED BY <3>1, InOrderList
  <2> QED BY <2>2, <2>3
<1> QED BY <1>1, <1>2

-----------------------------------------------------------------------------
(* K-truss: the graph.                                                     *)

\* Places, Dest and Arcs, of any adjacency lists.
PlacesOf(g)  == UNION {{v} \X (0 .. Len(g[v]) - 1) : v \in DOMAIN g}
DestOf(g, p) == g[p[1]][p[2] + 1]
ArcsOf(g)    == {<<p[1], DestOf(g, p)>> : p \in PlacesOf(g)}

\* A place is a vertex and a position of its list.
LEMMA PlacesAre ==
    ASSUME NEW N, NEW g \in [N -> Seq(N)]
    PROVE  /\ \A p \in PlacesOf(g) : /\ p[1] \in N /\ p[2] \in 0 .. Len(g[p[1]]) - 1
                                     /\ p = <<p[1], p[2]>>
                                     /\ p[2] + 1 \in 1 .. Len(g[p[1]])
                                     /\ DestOf(g, p) \in N
                                     /\ DestOf(g, p) \in ToSet(g[p[1]])
                                     /\ Len(g[p[1]]) > 0
           /\ \A v \in N : \A j \in 0 .. Len(g[v]) - 1 : <<v, j>> \in PlacesOf(g)
<1>1. DOMAIN g = N /\ \A v \in N : g[v] \in Seq(N) /\ Len(g[v]) \in Nat
  OBVIOUS
<1>2. ASSUME NEW p \in PlacesOf(g)
      PROVE  /\ p[1] \in N /\ p[2] \in 0 .. Len(g[p[1]]) - 1
             /\ p = <<p[1], p[2]>>
  BY <1>1 DEF PlacesOf
<1>3. ASSUME NEW p \in PlacesOf(g)
      PROVE  /\ p[2] + 1 \in 1 .. Len(g[p[1]]) /\ DestOf(g, p) \in N
             /\ DestOf(g, p) \in ToSet(g[p[1]]) /\ Len(g[p[1]]) > 0
  <2>1. p[1] \in N /\ p[2] \in 0 .. Len(g[p[1]]) - 1 /\ g[p[1]] \in Seq(N)
        /\ Len(g[p[1]]) \in Nat
    BY <1>1, <1>2
  <2>2. PICK i : i = p[2] + 1 /\ i \in 1 .. Len(g[p[1]])
    BY <2>1
  <2>3. g[p[1]][i] \in N /\ g[p[1]][i] \in ToSet(g[p[1]])
    BY <2>1, <2>2, ElementsOf
  <2> QED BY <2>1, <2>2, <2>3 DEF DestOf
<1>4. \A v \in N : \A j \in 0 .. Len(g[v]) - 1 : <<v, j>> \in PlacesOf(g)
  BY <1>1 DEF PlacesOf
<1> QED BY <1>2, <1>3, <1>4

\* The edges are what the lists hold.
LEMMA ArcsAre ==
    ASSUME NEW N, NEW g \in [N -> Seq(N)]
    PROVE  /\ ArcsOf(g) \subseteq N \X N
           /\ \A a, b : <<a, b>> \in ArcsOf(g) <=> a \in N /\ b \in ToSet(g[a])
           /\ \A a, b : <<a, b>> \in ArcsOf(g)
                          <=> \E p \in PlacesOf(g) : p[1] = a /\ DestOf(g, p) = b
<1>1. ASSUME NEW a, NEW b
      PROVE  <<a, b>> \in ArcsOf(g) <=> \E p \in PlacesOf(g) : p[1] = a /\ DestOf(g, p) = b
  BY DEF ArcsOf
<1>2. ASSUME NEW a \in N, NEW b \in ToSet(g[a])
      PROVE  \E p \in PlacesOf(g) : p[1] = a /\ DestOf(g, p) = b
  <2>1. g[a] \in Seq(N) /\ Len(g[a]) \in Nat
    OBVIOUS
  <2>2. PICK i \in 1 .. Len(g[a]) : g[a][i] = b
    BY <2>1, ElementsOf
  <2>3. PICK j \in 0 .. Len(g[a]) - 1 : j + 1 = i
    <3>1. i - 1 \in 0 .. Len(g[a]) - 1 /\ (i - 1) + 1 = i
      BY <2>1
    <3> QED BY <3>1
  <2>4. <<a, j>> \in PlacesOf(g) /\ DestOf(g, <<a, j>>) = b
    BY <2>2, <2>3, PlacesAre DEF DestOf
  <2> QED BY <2>4
<1>3. ASSUME NEW p \in PlacesOf(g) PROVE p[1] \in N /\ DestOf(g, p) \in ToSet(g[p[1]])
  BY PlacesAre
<1>4. ArcsOf(g) \subseteq N \X N
  <2>1. \A p \in PlacesOf(g) : p[1] \in N /\ DestOf(g, p) \in N
    BY PlacesAre
  <2> SUFFICES ASSUME NEW e \in ArcsOf(g) PROVE e \in N \X N
    OBVIOUS
  <2>2. PICK p \in PlacesOf(g) : e = <<p[1], DestOf(g, p)>>
    BY DEF ArcsOf
  <2> QED BY <2>1, <2>2
<1>5. ASSUME NEW a, NEW b
      PROVE  <<a, b>> \in ArcsOf(g) <=> a \in N /\ b \in ToSet(g[a])
  <2>1. ASSUME <<a, b>> \in ArcsOf(g) PROVE a \in N /\ b \in ToSet(g[a])
    <3>1. PICK p \in PlacesOf(g) : p[1] = a /\ DestOf(g, p) = b
      BY <1>1, <2>1
    <3> QED BY <1>3, <3>1
  <2>2. ASSUME a \in N, b \in ToSet(g[a]) PROVE <<a, b>> \in ArcsOf(g)
    BY <1>1, <1>2, <2>2
  <2> QED BY <2>1, <2>2
<1> QED BY <1>1, <1>4, <1>5

\* The degrees of lists without duplicates add up to the number of arcs.
LEMMA SizeIs ==
    ASSUME NEW N, IsFiniteSet(N), NEW g \in [N -> Seq(N)], \A v \in N : OnceEach(g[v]),
           NEW d, d = [v \in N |-> Len(g[v])]
    PROVE  /\ IsFiniteSet(ArcsOf(g)) /\ Cardinality(ArcsOf(g)) \in Nat
           /\ SumFunctionOnSet(d, N) = Cardinality(ArcsOf(g))
<1>1. IsFiniteSet(ArcsOf(g)) /\ Cardinality(ArcsOf(g)) \in Nat
  <2>1. IsFiniteSet(N \X N)
    BY FS_Product
  <2>2. ArcsOf(g) \in SUBSET (N \X N)
    BY ArcsAre
  <2>3. IsFiniteSet(ArcsOf(g))
    BY <2>1, <2>2, FS_Subset
  <2> QED BY <2>3, FS_CardinalityType
<1>2. PICK key : key = [e \in ArcsOf(g) |-> e[1]]
  OBVIOUS
<1>3. ASSUME NEW e \in ArcsOf(g) PROVE key[e] \in N /\ key[e] = e[1] /\ e = <<e[1], e[2]>>
  BY <1>2, ArcsAre
<1>4. ASSUME NEW v \in N PROVE Cardinality({e \in ArcsOf(g) : key[e] = v}) = Len(g[v])
  <2>1. PICK A, T : A = {e \in ArcsOf(g) : key[e] = v} /\ T = ToSet(g[v])
    OBVIOUS
  <2>2. PICK f : f = [e \in A |-> e[2]]
    OBVIOUS
  <2>3. ASSUME NEW e \in A PROVE e = <<v, e[2]>> /\ e[2] \in T /\ f[e] = e[2]
    <3>1. e \in ArcsOf(g) /\ e = <<v, e[2]>>
      BY <1>3, <2>1
    <3>2. <<v, e[2]>> \in ArcsOf(g)
      BY <3>1
    <3>3. e[2] \in ToSet(g[v])
      BY <3>2, ArcsAre
    <3> QED BY <2>1, <2>2, <3>1, <3>3
  <2>4. ASSUME NEW x \in T PROVE <<v, x>> \in A /\ f[<<v, x>>] = x
    <3>1. <<v, x>> \in ArcsOf(g)
      BY <2>1, ArcsAre
    <3> QED BY <1>3, <2>1, <2>2, <3>1
  <2>5. f \in Bijection(A, T)
    <3>1. f \in [A -> T]
      BY <2>2, <2>3
    <3>2. \A e, h \in A : f[e] = f[h] => e = h
      BY <2>3
    <3> QED BY <2>4, <3>1, <3>2 DEF Bijection, Injection, Surjection, IsInjective
  <2>6. IsFiniteSet(T) /\ Cardinality(T) = Len(g[v])
    <3>1. g[v] \in Seq(N)
      OBVIOUS
    <3> QED BY <2>1, <3>1, LengthIs
  <2> QED BY <2>1, <2>5, <2>6, SameCount
<1>5. [v \in N |-> Cardinality({e \in ArcsOf(g) : key[e] = v})] = d
  BY <1>4
<1>6. SumFunctionOnSet([v \in N |-> Cardinality({e \in ArcsOf(g) : key[e] = v})], N)
        = Cardinality(ArcsOf(g))
  <2>1. \A e \in ArcsOf(g) : key[e] \in N
    BY <1>3
  <2> QED BY <1>1, <2>1, CountGroups
<1> QED BY <1>1, <1>5, <1>6

\* Blocks of lengths d at offsets o: they lie apart and within the total.
Blocks(N, d, o, total) ==
    /\ o \in [N -> Nat]
    /\ \A v \in N : o[v] + d[v] <= total
    /\ \A v, w \in N : v < w => o[v] + d[v] <= o[w]

\* The prefix sums of the degrees are such offsets.
LEMMA OffsetsApart ==
    ASSUME NEW n \in Nat, NEW N, N = 0 .. n - 1, NEW d \in [N -> Nat],
           NEW o, o = [v \in N |-> SumFunctionOnSet(d, 0 .. v - 1)]
    PROVE  Blocks(N, d, o, SumFunctionOnSet(d, N))
<1>1. IsFiniteSet(N) /\ \A v \in N : v \in Nat /\ d[v] \in Nat
  <2>1. 0 \in Int /\ n - 1 \in Int
    OBVIOUS
  <2>2. IsFiniteSet(0 .. n - 1)
    BY <2>1, FS_Interval
  <2>3. \A v \in N : v \in Nat /\ d[v] \in Nat
    OBVIOUS
  <2> QED BY <2>2, <2>3
<1>2. ASSUME NEW v \in N
      PROVE  /\ IsFiniteSet(0 .. v - 1) /\ 0 .. v - 1 \subseteq N /\ v \notin 0 .. v - 1
             /\ o[v] \in Nat /\ o[v] = SumFunctionOnSet(d, 0 .. v - 1)
             /\ SumFunctionOnSet(d, 0 .. v) = o[v] + d[v]
             /\ 0 .. v \subseteq N
  <2>1. 0 .. v - 1 \subseteq N /\ v \notin 0 .. v - 1 /\ 0 .. v \subseteq N
        /\ (0 .. v - 1) \cup {v} = 0 .. v
    BY <1>1
  <2>2. IsFiniteSet(0 .. v - 1)
    BY <1>1, <2>1, FS_Subset
  <2>3. o[v] = SumFunctionOnSet(d, 0 .. v - 1)
    OBVIOUS
  <2>4. \A x \in 0 .. v - 1 : d[x] \in Nat /\ d[x] \in Int
    BY <1>1, <2>1
  <2>5. SumFunctionOnSet(d, 0 .. v - 1) \in Nat
    BY <2>2, <2>4, SumOfNats
  <2>6. SumFunctionOnSet(d, (0 .. v - 1) \cup {v}) = SumFunctionOnSet(d, 0 .. v - 1) + d[v]
    <3>1. d[v] \in Int
      BY <1>1
    <3> QED BY <2>1, <2>2, <2>4, <3>1, SumAdds
  <2> QED BY <2>1, <2>2, <2>3, <2>5, <2>6
<1>3. ASSUME NEW v \in N PROVE o[v] + d[v] <= SumFunctionOnSet(d, N)
  <2>1. 0 .. v \in SUBSET N
    BY <1>2
  <2>2. SumFunctionOnSet(d, 0 .. v) <= SumFunctionOnSet(d, N)
    BY <1>1, <2>1, SumOfPart
  <2> QED BY <1>2, <2>2
<1>4. ASSUME NEW v \in N, NEW w \in N, v < w PROVE o[v] + d[v] <= o[w]
  <2>1. 0 .. v \in SUBSET (0 .. w - 1)
    BY <1>1, <1>4
  <2>2. IsFiniteSet(0 .. w - 1) /\ \A x \in 0 .. w - 1 : d[x] \in Nat
    BY <1>1, <1>2
  <2>3. SumFunctionOnSet(d, 0 .. v) <= SumFunctionOnSet(d, 0 .. w - 1)
    BY <2>1, <2>2, SumOfPart
  <2> QED BY <1>2, <2>3
<1>5. o \in [N -> Nat]
  BY <1>2
<1> QED BY <1>3, <1>4, <1>5 DEF Blocks

\* Every entry of the lists has a cell of its own.
LEMMA CellsApart ==
    ASSUME NEW N \in SUBSET Nat, NEW g \in [N -> Seq(N)], NEW total \in Nat, NEW o,
           NEW d, d = [v \in N |-> Len(g[v])], Blocks(N, d, o, total)
    PROVE  /\ \A p \in PlacesOf(g) : o[p[1]] + p[2] \in 0 .. total - 1
           /\ \A p, q \in PlacesOf(g) : o[p[1]] + p[2] = o[q[1]] + q[2] => p = q
<1>1. ASSUME NEW v \in N
      PROVE  /\ o[v] \in Nat /\ v \in Nat /\ d[v] \in Nat /\ o[v] + d[v] <= total
             /\ \A w \in N : v < w => o[v] + d[v] <= o[w]
  <2>1. g[v] \in Seq(N) /\ d[v] = Len(g[v])
    OBVIOUS
  <2> QED BY <2>1 DEF Blocks
<1>2. ASSUME NEW p \in PlacesOf(g)
      PROVE  \E v \in N, j \in Nat : p = <<v, j>> /\ p[1] = v /\ p[2] = j /\ j < d[v]
  <2>1. p[1] \in N /\ p[2] \in 0 .. Len(g[p[1]]) - 1 /\ p = <<p[1], p[2]>>
    BY PlacesAre
  <2>2. PICK v \in N : v = p[1] /\ d[v] = Len(g[p[1]])
    BY <2>1
  <2>3. d[v] \in Nat
    BY <1>1
  <2> QED BY <2>1, <2>2, <2>3
<1>3. ASSUME NEW p \in PlacesOf(g) PROVE o[p[1]] + p[2] \in 0 .. total - 1
  <2>1. PICK v \in N, j \in Nat : p[1] = v /\ p[2] = j /\ j < d[v]
    BY <1>2
  <2>2. o[v] + j \in 0 .. total - 1
    BY <1>1, <2>1
  <2> QED BY <2>1, <2>2
<1>4. ASSUME NEW v \in N, NEW w \in N, NEW j \in Nat, NEW k \in Nat, j < d[v], v < w
      PROVE  o[v] + j < o[w] + k
  <2>1. o[v] + d[v] <= o[w] /\ o[v] \in Nat /\ o[w] \in Nat /\ d[v] \in Nat
    BY <1>1, <1>4
  <2> QED BY <1>4, <2>1
<1>5. ASSUME NEW p \in PlacesOf(g), NEW q \in PlacesOf(g), o[p[1]] + p[2] = o[q[1]] + q[2]
      PROVE  p = q
  <2>1. PICK v \in N, j \in Nat : p = <<v, j>> /\ p[1] = v /\ p[2] = j /\ j < d[v]
    BY <1>2
  <2>2. PICK w \in N, k \in Nat : q = <<w, k>> /\ q[1] = w /\ q[2] = k /\ k < d[w]
    BY <1>2
  <2>3. o[v] + j = o[w] + k /\ o[v] \in Nat /\ o[w] \in Nat /\ v \in Nat /\ w \in Nat
    BY <1>1, <1>5, <2>1, <2>2
  <2>4. ~(v < w) /\ ~(w < v)
    BY <1>4, <2>1, <2>2, <2>3
  <2>5. v = w
    BY <2>3, <2>4
  <2>6. j = k
    BY <2>3, <2>5
  <2> QED BY <2>1, <2>2, <2>5, <2>6
<1> QED BY <1>3, <1>5

-----------------------------------------------------------------------------
(* K-truss: the invariant.                                                 *)

\* The common neighbours of the ends of an edge, and of those the ones that a
\* triangle needs.
Shared(p) == {w \in Nodes : <<p[1], w>> \in Arcs /\ <<Dest(p), w>> \in Arcs}
Corners(a, b) == {w \in Nodes \ {a, b} : <<a, w>> \in Arcs /\ <<b, w>> \in Arcs}

\* What threads in lockstep count for an edge.
Exact(p) == IF Avoid(p) THEN 0 ELSE Cardinality(Shared(p))

\* Edges are only taken away while a call runs.
Shrinking == phase # "ready" => Arcs \subseteq given

\* The trusses of a graph with vertices N and edges E.
TrussIn(N, S, k) ==
    \A e \in S : /\ Cardinality(e) = 2
                 /\ Cardinality({w \in N \ e : \A v \in e : {v, w} \in S}) >= k - 2

Trusses(N, E, k) == {S \in SUBSET Undirected(E) : TrussIn(N, S, k)}

TrussTyped ==
    /\ \E in \in Inputs : /\ Nodes = DOMAIN in.graph
                          /\ tsp = in.tsp
                          /\ lockstep = in.lockstep
    /\ lists \in [Nodes -> Seq(Nodes)]
    /\ originalNE \in Nat /\ (Nodes = {} => originalNE = 0)
    /\ num_edges_remaining \in Int
    /\ phase \in {"ready", "count", "collect", "decide"}
    /\ toTheEnd \in BOOLEAN
    /\ max_K \in Nat
    /\ offset_array \in [Nodes -> Nat]
    /\ DOMAIN triangles_per_edge = 0 .. originalNE - 1
    /\ is_active \in [Nodes -> BOOLEAN]
    /\ batch \in SUBSET Arcs
    /\ given \in SUBSET (Nodes \X Nodes)
    /\ misread \in BOOLEAN

\* No vertex is twice in a list.
Distinct == \A v \in Nodes : OnceEach(lists[v])

\* The blocks of the offsets do not overlap.
BlocksApart == Blocks(Nodes, Degrees, offset_array, originalNE)

EdgesLeft == nE <= num_edges_remaining /\ num_edges_remaining <= originalNE

ActiveLeft == phase # "ready" => \A v \in Nodes : is_active[v] \/ degree(v) = 0

BatchEmpty == batch # {} => phase = "decide"

KRange == phase # "ready" /\ toTheEnd => 3 <= max_K /\ (max_K = 3 \/ max_K <= MaxK)

Counting ==
    phase = "collect" /\ ~misread =>
      \A p \in Places :
         /\ triangles_per_edge[Place(p)] \in Nat
         /\ p[1] # Dest(p) /\ <<Dest(p), p[1]>> \in Arcs =>
              triangles_per_edge[Place(p)] >= Cardinality(Corners(p[1], Dest(p)))
         /\ lockstep => triangles_per_edge[Place(p)] = Exact(p)

\* No edge of a truss is erased.
Keeping ==
    phase # "ready" /\ ~misread =>
      \A S \in Trusses(Nodes, given, max_K) :
         /\ S \subseteq Undirected(Arcs)
         /\ \A e \in batch : {e[1], e[2]} \notin S

Fair == lockstep /\ ~misread /\ Symmetric(given)

Symmetry ==
    phase # "ready" /\ Fair =>
      /\ Symmetric(Arcs) /\ Symmetric(batch)
      /\ phase = "decide" /\ batch = {} => \A p \in Places : Exact(p) >= max_K - 2

\* The last truss was not empty.
LastTruss ==
    phase # "ready" /\ Fair /\ toTheEnd =>
      \/ num_edges_remaining > nE
      \/ max_K = 3
      \/ \E S \in Trusses(Nodes, given, max_K - 1) : S # {}

KInv == /\ TrussTyped /\ Distinct /\ BlocksApart /\ EdgesLeft /\ ActiveLeft /\ BatchEmpty
        /\ KRange /\ Shrinking /\ Counting /\ Keeping /\ Symmetry /\ LastTruss /\ TrussExact

-----------------------------------------------------------------------------
(* K-truss: what the threads count.                                        *)

\* The lists of vertices that are numbers.
Graph(N, g) == /\ N \in SUBSET Nat /\ IsFiniteSet(N)
               /\ g \in [N -> Seq(N)]

\* The operators of KTruss are those of any adjacency lists.
LEMMA GraphIs ==
    ASSUME NEW N, Graph(N, lists)
    PROVE  /\ Nodes = N /\ Places = PlacesOf(lists) /\ Arcs = ArcsOf(lists)
           /\ \A p : Dest(p) = DestOf(lists, p)
           /\ \A p \in Places : /\ p[1] \in N /\ Dest(p) \in N /\ <<p[1], Dest(p)>> \in Arcs
                                /\ degree(p[1]) > 0
           /\ \A a, b : <<a, b>> \in Arcs <=> a \in N /\ b \in ToSet(lists[a])
           /\ \A a, b : <<a, b>> \in Arcs <=> \E p \in Places : p[1] = a /\ Dest(p) = b
           /\ Arcs \subseteq N \X N
<1>1. lists \in [N -> Seq(N)]
  BY DEF Graph
<1>2. Nodes = N
  BY <1>1 DEF Nodes
<1>3. Places = PlacesOf(lists)
  BY DEF Places, PlacesOf, Nodes, degree
<1>4. \A p : Dest(p) = DestOf(lists, p)
  BY DEF Dest, DestOf
<1>5. Arcs = ArcsOf(lists)
  BY <1>3 DEF Arcs, ArcsOf, Dest, DestOf
<1>6. /\ Arcs \subseteq N \X N
      /\ \A a, b : <<a, b>> \in Arcs <=> a \in N /\ b \in ToSet(lists[a])
      /\ \A a, b : <<a, b>> \in Arcs <=> \E p \in Places : p[1] = a /\ Dest(p) = b
  BY <1>1, <1>3, <1>4, <1>5, ArcsAre
<1>7. ASSUME NEW p \in Places
      PROVE  /\ p[1] \in N /\ Dest(p) \in N /\ <<p[1], Dest(p)>> \in Arcs
             /\ degree(p[1]) > 0
  <2>1. p[1] \in N /\ DestOf(lists, p) \in N /\ Len(lists[p[1]]) > 0
    BY <1>1, <1>3, PlacesAre
  <2> QED BY <1>4, <1>6, <2>1 DEF degree
<1> QED BY <1>2, <1>3, <1>4, <1>5, <1>6, <1>7

\* The common neighbours of an edge are the common elements of two lists, and
\* the corners of its triangles are among them.
LEMMA SharedIs ==
    ASSUME NEW N, Graph(N, lists), NEW p \in Places,
           NEW a, a = p[1], NEW b, b = Dest(p)
    PROVE  /\ Shared(p) = ToSet(lists[a]) \cap ToSet(lists[b])
           /\ IsFiniteSet(Shared(p)) /\ Cardinality(Shared(p)) \in Nat
           /\ Corners(a, b) \subseteq Shared(p)
           /\ IsFiniteSet(Corners(a, b)) /\ Cardinality(Corners(a, b)) \in Nat
           /\ Cardinality(Corners(a, b)) <= Cardinality(Shared(p))
<1>1. a \in N /\ b \in N /\ Nodes = N
  BY GraphIs
<1>2. \A w : (<<a, w>> \in Arcs <=> w \in ToSet(lists[a]))
             /\ (<<b, w>> \in Arcs <=> w \in ToSet(lists[b]))
  BY <1>1, GraphIs
<1>3. ToSet(lists[a]) \subseteq N /\ IsFiniteSet(N)
  <2>1. lists[a] \in Seq(N)
    BY <1>1 DEF Graph
  <2> QED BY <2>1, ElementsOf DEF Graph
<1>4. Shared(p) = ToSet(lists[a]) \cap ToSet(lists[b])
  BY <1>1, <1>2, <1>3 DEF Shared
<1>5. Corners(a, b) \subseteq Shared(p)
  BY <1>1 DEF Corners, Shared
<1>6. IsFiniteSet(Shared(p)) /\ Cardinality(Shared(p)) \in Nat
  <2>1. Shared(p) \in SUBSET N
    BY <1>3, <1>4
  <2>2. IsFiniteSet(Shared(p))
    BY <1>3, <2>1, FS_Subset
  <2> QED BY <2>2, FS_CardinalityType
<1>7. /\ IsFiniteSet(Corners(a, b)) /\ Cardinality(Corners(a, b)) \in Nat
      /\ Cardinality(Corners(a, b)) <= Cardinality(Shared(p))
  BY <1>5, <1>6, FS_Subset, FS_CardinalityType
<1> QED BY <1>4, <1>5, <1>6, <1>7

\* The ends of an edge that is avoided have no common neighbour but themselves.
LEMMA AvoidedHasNone ==
    ASSUME NEW N, Graph(N, lists), NEW p \in Places, Avoid(p),
           NEW a, a = p[1], NEW b, b = Dest(p), a # b, <<b, a>> \in Arcs
    PROVE  Cardinality(Corners(a, b)) = 0
<1>1. /\ a \in N /\ b \in N /\ b \in ToSet(lists[a]) /\ a \in ToSet(lists[b])
  BY GraphIs
<1>2. ASSUME NEW x \in N, Len(lists[x]) < 2, NEW y \in ToSet(lists[x]), NEW z \in ToSet(lists[x])
      PROVE  y = z
  <2>1. lists[x] \in Seq(N)
    BY DEF Graph
  <2>2. Len(lists[x]) \in Nat
    BY <2>1
  <2>3. PICK i \in 1 .. Len(lists[x]), j \in 1 .. Len(lists[x]) : lists[x][i] = y /\ lists[x][j] = z
    BY <2>1, ElementsOf
  <2>4. i = j
    BY <1>2, <2>2
  <2> QED BY <2>3, <2>4
<1>3. Len(lists[a]) < 2 \/ Len(lists[b]) < 2
  BY DEF Avoid, degree
<1>4. Corners(a, b) = {}
  <2> SUFFICES ASSUME NEW w \in Corners(a, b) PROVE FALSE
    OBVIOUS
  <2>1. w # a /\ w # b /\ w \in ToSet(lists[a]) /\ w \in ToSet(lists[b])
    BY <1>1, GraphIs DEF Corners
  <2> QED BY <1>1, <1>2, <1>3, <2>1
<1> QED BY <1>4, FS_EmptySet

\* Sorted lists: the count of an edge is at least that of its triangles, and in
\* lockstep that of the common neighbours.
LEMMA EdgeCountsAre ==
    ASSUME NEW N, Graph(N, lists), \A v \in N : Rising(lists[v]),
           tsp \in Nat \ {0}, NEW p \in Places,
           NEW a, a = p[1], NEW b, b = Dest(p)
    PROVE  /\ EdgeCounts(p) # {} /\ IsFiniteSet(EdgeCounts(p)) /\ EdgeCounts(p) \subseteq Nat
           /\ \A c \in EdgeCounts(p) :
                 /\ a # b /\ <<b, a>> \in Arcs => c >= Cardinality(Corners(a, b))
                 /\ lockstep => c = Exact(p)
<1>1. CASE Avoid(p)
  <2>1. EdgeCounts(p) = {0} /\ Exact(p) = 0
    BY <1>1 DEF EdgeCounts, Exact
  <2>2. IsFiniteSet({0})
    BY FS_Singleton
  <2>3. a # b /\ <<b, a>> \in Arcs => 0 >= Cardinality(Corners(a, b))
    BY <1>1, AvoidedHasNone
  <2> QED BY <2>1, <2>2, <2>3
<1>2. CASE ~Avoid(p)
  <2>1. PICK u, v : u = lists[a] /\ v = lists[b]
    OBVIOUS
  <2>2. a \in N /\ b \in N
    BY GraphIs
  <2>3. Rising(u) /\ Rising(v) /\ Len(u) \in Nat /\ Len(v) \in Nat
    BY <2>1, <2>2, ListIs
  <2>4. Pair(u, v) /\ Pair(v, u)
    BY <1>2, <2>1, <2>3 DEF Avoid, Pair, degree
  <2>5. /\ Cardinality(Shared(p)) \in Nat
        /\ Cardinality(Corners(a, b)) \in Nat
        /\ Cardinality(Corners(a, b)) <= Cardinality(Shared(p))
    BY SharedIs
  <2>6. /\ Cardinality(Matches(u, v)) = Cardinality(Shared(p))
        /\ Cardinality(Matches(v, u)) = Cardinality(Shared(p))
    <3>1. Shared(p) = ToSet(u) \cap ToSet(v)
      BY <2>1, SharedIs
    <3> QED BY <2>3, <3>1, MatchesAreShared
  <2>7. Exact(p) = Cardinality(Shared(p))
    BY <1>2 DEF Exact
  <2>8. EdgeCounts(p) \in {Counts(u, v, tsp, lockstep), Counts(v, u, tsp, lockstep)}
    BY <1>2, <2>1 DEF EdgeCounts
  <2>9. ASSUME NEW C \in {Counts(u, v, tsp, lockstep), Counts(v, u, tsp, lockstep)}
        PROVE  /\ IsFiniteSet(C) /\ C # {} /\ C \subseteq Nat
               /\ \A c \in C : c >= Cardinality(Shared(p))
               /\ lockstep => C = {Cardinality(Shared(p))}
    BY <2>4, <2>6, CountsBound
  <2>10. ASSUME NEW c \in EdgeCounts(p)
         PROVE  c >= Cardinality(Corners(a, b)) /\ (lockstep => c = Exact(p))
    <3>1. c \in Nat /\ c >= Cardinality(Shared(p)) /\ (lockstep => c = Exact(p))
      BY <2>7, <2>8, <2>9
    <3> QED BY <2>5, <3>1
  <2> QED BY <2>8, <2>9, <2>10
<1> QED BY <1>1, <1>2

-----------------------------------------------------------------------------
(* K-truss: what the invariant says, and what a step without erase keeps.  *)

\* What the typing says of the graph and the setting.
LEMMA StateIs ==
    ASSUME TrussTyped
    PROVE  /\ Graph(Nodes, lists)
           /\ \E n \in Nat : Nodes = 0 .. n - 1 /\ MaxK > n + 1
           /\ MaxK \in Nat /\ tsp \in Nat \ {0} /\ lockstep \in BOOLEAN
<1>1. PICK in \in Inputs : Nodes = DOMAIN in.graph /\ tsp = in.tsp /\ lockstep = in.lockstep
  BY DEF TrussTyped
<1>2. PICK g : g = in.graph /\ g \in {x.graph : x \in Inputs}
  BY <1>1
<1>3. /\ IsFiniteSet(DOMAIN g) /\ MaxK > Cardinality(DOMAIN g) + 1
      /\ DOMAIN g = 0 .. Cardinality(DOMAIN g) - 1
      /\ MaxK \in Nat /\ in.tsp \in Nat \ {0} /\ in.lockstep \in BOOLEAN
  BY <1>1, <1>2, KTrussAssumption
<1>4. PICK n \in Nat : n = Cardinality(DOMAIN g)
  BY <1>3, FS_CardinalityType
<1>5. Nodes = 0 .. n - 1 /\ IsFiniteSet(Nodes) /\ MaxK > n + 1
  BY <1>1, <1>2, <1>3, <1>4
<1>6. Nodes \in SUBSET Nat
  BY <1>5
<1>7. Graph(Nodes, lists)
  BY <1>5, <1>6 DEF Graph, TrussTyped
<1> QED BY <1>1, <1>3, <1>5, <1>7

\* The sum of the degrees is the number of edges.
LEMMA NEIs ==
    ASSUME NEW N, Graph(N, lists), Distinct
    PROVE  /\ IsFiniteSet(Arcs) /\ Cardinality(Arcs) \in Nat /\ nE = Cardinality(Arcs)
           /\ Degrees \in [N -> Nat]
<1>1. /\ IsFiniteSet(N) /\ lists \in [N -> Seq(N)] /\ Nodes = N /\ Arcs = ArcsOf(lists)
      /\ \A v \in N : OnceEach(lists[v])
  <2>1. Nodes = N /\ Arcs = ArcsOf(lists)
    BY GraphIs
  <2>2. IsFiniteSet(N) /\ lists \in [N -> Seq(N)]
    BY DEF Graph
  <2> QED BY <2>1, <2>2 DEF Distinct
<1>2. Degrees = [v \in N |-> Len(lists[v])]
  BY <1>1 DEF Degrees, degree
<1>3. Degrees \in [N -> Nat]
  <2>1. \A v \in N : Len(lists[v]) \in Nat
    BY <1>1
  <2> QED BY <1>2, <2>1
<1> QED BY <1>1, <1>2, <1>3, SizeIs DEF nE

\* A step that leaves the lists alone leaves alone what is read off them.
LEMMA ListsStay ==
    ASSUME lists' = lists
    PROVE  /\ Nodes' = Nodes /\ Places' = Places /\ Arcs' = Arcs
           /\ nE' = nE /\ Degrees' = Degrees
           /\ \A v : degree(v)' = degree(v)
           /\ \A p : Dest(p)' = Dest(p) /\ Exact(p)' = Exact(p)
           /\ \A a, b : Corners(a, b)' = Corners(a, b)
<1>1. Nodes' = Nodes /\ \A v : degree(v)' = degree(v)
  BY DEF Nodes, degree
<1>2. Places' = Places /\ \A p : Dest(p)' = Dest(p)
  BY DEF Places, Nodes, degree, Dest
<1>3. Arcs' = Arcs
  BY DEF Arcs, Places, Nodes, degree, Dest
<1>4. Degrees' = Degrees
  BY DEF Degrees, Nodes, degree
<1>5. nE' = nE
  BY <1>1, <1>4 DEF nE
<1>6. \A p : Exact(p)' = Exact(p)
  <2>1. \A p : Shared(p)' = Shared(p)
    BY <1>1, <1>2, <1>3 DEF Shared
  <2>2. \A p : Avoid(p)' <=> Avoid(p)
    BY <1>1, <1>2 DEF Avoid
  <2> QED BY <2>1, <2>2 DEF Exact
<1>7. \A a, b : Corners(a, b)' = Corners(a, b)
  BY <1>1, <1>3 DEF Corners
<1> QED BY <1>1, <1>2, <1>3, <1>4, <1>5, <1>6, <1>7

-----------------------------------------------------------------------------
(* K-truss: the steps.                                                     *)

\* Between calls the invariant asks only that the lists have no vertex twice
\* and that the offsets fit them.
LEMMA InitKInv == ASSUME TrussInit PROVE KInv
<1>1. PICK in \in Inputs : lists = in.graph /\ tsp = in.tsp /\ lockstep = in.lockstep
  BY DEF TrussInit
<1>2. PICK N, g : N = DOMAIN g /\ g = in.graph /\ g \in {x.graph : x \in Inputs}
  BY <1>1
<1>3. /\ IsFiniteSet(N) /\ N = 0 .. Cardinality(N) - 1
      /\ g \in [N -> Seq(N)]
      /\ \A v \in N : \A i \in 1 .. Len(g[v]) - 1 : g[v][i] < g[v][i + 1]
  BY <1>2, KTrussAssumption
<1>4. PICK n \in Nat : n = Cardinality(N) /\ N = 0 .. n - 1
  BY <1>3, FS_CardinalityType
<1>5. Nodes = N /\ lists = g
  BY <1>1, <1>2 DEF Nodes
<1>6. g \in [N -> Seq(N)]
  BY <1>3
<1>7. Graph(N, lists)
  <2>1. N \in SUBSET Nat
    BY <1>4
  <2> QED BY <1>3, <1>5, <1>6, <2>1 DEF Graph
<1>8. Distinct
  <2>1. ASSUME NEW v \in N PROVE OnceEach(lists[v])
    <3>1. PICK l : l = lists[v] /\ l \in Seq(Nat)
      BY <1>4, <1>5, <1>6
    <3>2. Len(l) \in Nat /\ \A i \in 1 .. Len(l) : l[i] \in Nat
      BY <3>1
    <3>3. \A i \in 1 .. Len(l) - 1 : l[i] < l[i + 1]
      BY <1>3, <1>5, <3>1
    <3>4. \A i, j \in 1 .. Len(l) : i < j => l[i] < l[j]
      BY <3>2, <3>3, StepsRise
    <3>5. ASSUME NEW i \in 1 .. Len(l), NEW j \in 1 .. Len(l), l[i] = l[j] PROVE i = j
      <4>1. l[i] \in Nat /\ l[j] \in Nat /\ i \in Nat /\ j \in Nat
        BY <3>2
      <4>2. ~(i < j) /\ ~(j < i)
        BY <3>4, <3>5, <4>1
      <4> QED BY <4>1, <4>2
    <3> QED BY <3>1, <3>5 DEF OnceEach
  <2> QED BY <1>5, <2>1 DEF Distinct
<1>9. nE \in Nat /\ originalNE = nE /\ Degrees \in [N -> Nat]
  BY <1>7, <1>8, NEIs DEF TrussInit
<1>10. Blocks(N, Degrees, offset_array, originalNE)
  <2>1. offset_array = [v \in N |-> SumFunctionOnSet(Degrees, 0 .. v - 1)]
    BY <1>5 DEF TrussInit, Offsets
  <2>2. originalNE = SumFunctionOnSet(Degrees, N)
    BY <1>5, <1>9 DEF nE
  <2> QED BY <1>4, <1>9, <2>1, <2>2, OffsetsApart
<1>11. N = {} => originalNE = 0
  <2>1. ASSUME N = {} PROVE nE = 0
    <3>1. \A x \in {} : Degrees[x] \in Int
      OBVIOUS
    <3>2. IsFiniteSet({})
      BY FS_EmptySet
    <3>3. SumFunctionOnSet(Degrees, {}) = 0
      BY <3>1, <3>2, SumType
    <3> QED BY <1>5, <2>1, <3>3 DEF nE
  <2> QED BY <1>9, <2>1
<1>12. TrussTyped
  <2>1. \E x \in Inputs : Nodes = DOMAIN x.graph /\ tsp = x.tsp /\ lockstep = x.lockstep
    BY <1>1, <1>2, <1>5
  <2>2. lists \in [Nodes -> Seq(Nodes)] /\ originalNE \in Nat /\ (Nodes = {} => originalNE = 0)
    BY <1>5, <1>6, <1>9, <1>11
  <2>3. offset_array \in [Nodes -> Nat] /\ is_active \in [Nodes -> BOOLEAN]
    BY <1>5, <1>10 DEF Blocks, TrussInit
  <2>4. /\ num_edges_remaining \in Int /\ max_K \in Nat /\ toTheEnd \in BOOLEAN
        /\ phase \in {"ready", "count", "collect", "decide"}
        /\ DOMAIN triangles_per_edge = 0 .. originalNE - 1
        /\ batch \in SUBSET Arcs /\ given \in SUBSET (Nodes \X Nodes) /\ misread \in BOOLEAN
    <3>1. /\ num_edges_remaining = nE /\ max_K = 0 /\ toTheEnd = FALSE /\ phase = "ready"
          /\ batch = {} /\ given = {} /\ misread = FALSE /\ triangles_per_edge = NoTriangles
      BY DEF TrussInit
    <3>2. DOMAIN NoTriangles = 0 .. originalNE - 1
      BY DEF NoTriangles
    <3>3. num_edges_remaining \in Int /\ max_K \in Nat
      BY <1>9, <3>1
    <3>4. batch \in SUBSET Arcs /\ given \in SUBSET (Nodes \X Nodes)
      BY <3>1
    <3>5. toTheEnd \in BOOLEAN /\ misread \in BOOLEAN
      BY <3>1
    <3>6. phase \in {"ready", "count", "collect", "decide"}
      BY <3>1
    <3>7. DOMAIN triangles_per_edge = 0 .. originalNE - 1
      BY <3>1, <3>2
    <3> QED BY <3>3, <3>4, <3>5, <3>6, <3>7
  <2> QED BY <2>1, <2>2, <2>3, <2>4 DEF TrussTyped
<1>13. BlocksApart /\ EdgesLeft
  BY <1>5, <1>9, <1>10 DEF BlocksApart, EdgesLeft, TrussInit
<1>14. /\ ActiveLeft /\ BatchEmpty /\ KRange /\ Shrinking /\ Counting /\ Keeping /\ Symmetry
       /\ LastTruss /\ TrussExact
  BY DEF TrussInit, ActiveLeft, BatchEmpty, KRange, Shrinking, Counting, Keeping, Symmetry,
         LastTruss, TrussExact
<1> QED BY <1>8, <1>12, <1>13, <1>14 DEF KInv

\* MaximalTruss, of any graph and call.
Maximal(N, E, A, whole, k) ==
    IF whole
    THEN /\ k = 2 \/ \E S \in Trusses(N, E, k) : S # {}
         /\ \A S \in Trusses(N, E, k + 1) : S = {}
    ELSE k >= 3 => /\ TrussIn(N, Undirected(A), k)
                   /\ \A S \in Trusses(N, E, k) : S \subseteq Undirected(A)

\* TrussExact with the graph and the call as parameters.
LEMMA MaximalIs ==
    /\ MaximalTruss <=> Maximal(Nodes, given, Arcs, toTheEnd, max_K)
    /\ MaximalTruss' <=> Maximal(Nodes', given', Arcs', toTheEnd', max_K')
<1>1. \A S, k : IsTruss(S, k) <=> TrussIn(Nodes, S, k)
  BY DEF IsTruss, TrussIn
<1>2. MaximalTruss <=> Maximal(Nodes, given, Arcs, toTheEnd, max_K)
  BY <1>1 DEF MaximalTruss, Maximal, Trusses
<1>3. MaximalTruss' <=> Maximal(Nodes', given', Arcs', toTheEnd', max_K')
  BY DEF MaximalTruss, Maximal, Trusses, IsTruss, TrussIn
<1> QED BY <1>2, <1>3

\* A step that leaves the lists: what there is to show of its types.
LEMMA TypedStays ==
    ASSUME TrussTyped, lists' = lists, UNCHANGED setting,
           num_edges_remaining' \in Int, phase' \in {"ready", "count", "collect", "decide"},
           toTheEnd' \in BOOLEAN, max_K' \in Nat, offset_array' \in [Nodes -> Nat],
           DOMAIN triangles_per_edge' = 0 .. originalNE - 1,
           is_active' \in [Nodes -> BOOLEAN], batch' \in SUBSET Arcs,
           given' \in SUBSET (Nodes \X Nodes), misread' \in BOOLEAN
    PROVE  TrussTyped' /\ (Distinct => Distinct')
<1>1. Nodes' = Nodes /\ Arcs' = Arcs /\ tsp' = tsp /\ lockstep' = lockstep
      /\ originalNE' = originalNE
  BY ListsStay DEF setting
<1>2. \E in \in Inputs : Nodes = DOMAIN in.graph /\ tsp = in.tsp /\ lockstep = in.lockstep
  BY DEF TrussTyped
<1>3. \E in \in Inputs : Nodes' = DOMAIN in.graph /\ tsp' = in.tsp /\ lockstep' = in.lockstep
  BY <1>1, <1>2
<1>4. /\ lists' \in [Nodes' -> Seq(Nodes')]
      /\ originalNE' \in Nat /\ (Nodes' = {} => originalNE' = 0)
  BY <1>1 DEF TrussTyped
<1>5. /\ offset_array' \in [Nodes' -> Nat] /\ is_active' \in [Nodes' -> BOOLEAN]
      /\ DOMAIN triangles_per_edge' = 0 .. originalNE' - 1
      /\ batch' \in SUBSET Arcs' /\ given' \in SUBSET (Nodes' \X Nodes')
  BY <1>1
<1>6. TrussTyped'
  BY <1>3, <1>4, <1>5 DEF TrussTyped
<1>7. Distinct => Distinct'
  BY <1>1 DEF Distinct
<1> QED BY <1>6, <1>7

\* What the calls have made of the offsets is right for the lists as they are.
LEMMA OffsetsAre ==
    ASSUME TrussTyped, Distinct, EdgesLeft
    PROVE  Blocks(Nodes, Degrees, Offsets, originalNE)
<1>1. PICK n \in Nat : Nodes = 0 .. n - 1
  BY StateIs
<1>2. Graph(Nodes, lists)
  BY StateIs
<1>3. Degrees \in [Nodes -> Nat] /\ nE \in Nat
  BY <1>2, NEIs
<1>4. Blocks(Nodes, Degrees, Offsets, nE)
  <2>1. Offsets = [v \in Nodes |-> SumFunctionOnSet(Degrees, 0 .. v - 1)]
    BY DEF Offsets
  <2>2. nE = SumFunctionOnSet(Degrees, Nodes)
    BY DEF nE
  <2> QED BY <1>1, <1>3, <2>1, <2>2, OffsetsApart
<1>5. nE <= originalNE /\ originalNE \in Nat
  BY <1>3 DEF EdgesLeft, TrussTyped
<1>6. ASSUME NEW v \in Nodes PROVE Offsets[v] + Degrees[v] <= originalNE
  <2>1. Offsets[v] + Degrees[v] <= nE /\ Offsets[v] \in Nat /\ Degrees[v] \in Nat
    BY <1>3, <1>4 DEF Blocks
  <2> QED BY <1>3, <1>5, <2>1
<1> QED BY <1>4, <1>6 DEF Blocks

\* reset() brings back the number of edges the graph was read with, which is
\* no smaller than what is left; new offsets fit the lists.
LEMMA ResetKInv ==
    ASSUME KInv, TrussReset \/ CreateOffSetArray
    PROVE  KInv'
<1>1. /\ TrussTyped /\ Distinct /\ BlocksApart /\ EdgesLeft /\ BatchEmpty /\ TrussExact
  BY DEF KInv
<1>2. /\ lists' = lists /\ UNCHANGED setting /\ phase = "ready" /\ phase' = "ready"
      /\ UNCHANGED <<toTheEnd, max_K, is_active, batch, history>>
  BY DEF TrussReset, CreateOffSetArray
<1>3. /\ Nodes' = Nodes /\ Arcs' = Arcs /\ nE' = nE /\ Degrees' = Degrees
      /\ originalNE' = originalNE /\ lockstep' = lockstep
      /\ given' = given /\ misread' = misread
  BY <1>2, ListsStay DEF setting, history
<1>4. nE \in Nat /\ nE <= originalNE /\ originalNE \in Nat
  <2>1. nE \in Nat
    BY <1>1, StateIs, NEIs
  <2> QED BY <1>1, <2>1 DEF EdgesLeft, TrussTyped
<1>5. Blocks(Nodes, Degrees, offset_array', originalNE)
  <2>1. CASE TrussReset
    BY <1>1, <2>1 DEF BlocksApart, TrussReset
  <2>2. CASE CreateOffSetArray
    BY <1>1, <2>2, OffsetsAre DEF CreateOffSetArray
  <2> QED BY <2>1, <2>2
<1>6. /\ num_edges_remaining' \in Int /\ nE <= num_edges_remaining'
      /\ num_edges_remaining' <= originalNE
  <2>1. CASE TrussReset
    BY <1>4, <2>1 DEF TrussReset
  <2>2. CASE CreateOffSetArray
    BY <1>1, <2>2 DEF CreateOffSetArray, EdgesLeft, TrussTyped
  <2> QED BY <2>1, <2>2
<1>7. DOMAIN triangles_per_edge' = 0 .. originalNE - 1
  <2>1. CASE TrussReset
    BY <2>1 DEF TrussReset, NoTriangles
  <2>2. CASE CreateOffSetArray
    BY <1>1, <2>2 DEF CreateOffSetArray, TrussTyped
  <2> QED BY <2>1, <2>2
<1>8. TrussTyped' /\ Distinct'
  <2>1. offset_array' \in [Nodes -> Nat]
    BY <1>5 DEF Blocks
  <2>2. /\ toTheEnd' \in BOOLEAN /\ max_K' \in Nat /\ is_active' \in [Nodes -> BOOLEAN]
        /\ batch' \in SUBSET Arcs /\ given' \in SUBSET (Nodes \X Nodes) /\ misread' \in BOOLEAN
    BY <1>1, <1>2, <1>3 DEF TrussTyped
  <2> QED BY <1>1, <1>2, <1>6, <1>7, <2>1, <2>2, TypedStays
<1>9. BlocksApart' /\ EdgesLeft'
  BY <1>3, <1>5, <1>6 DEF BlocksApart, EdgesLeft
<1>10. /\ ActiveLeft' /\ BatchEmpty' /\ KRange' /\ Shrinking' /\ Counting' /\ Keeping'
       /\ Symmetry' /\ LastTruss'
  BY <1>1, <1>2 DEF ActiveLeft, BatchEmpty, KRange, Shrinking, Counting, Keeping, Symmetry,
         LastTruss
<1>11. TrussExact'
  BY <1>1, <1>2, <1>3, MaximalIs DEF TrussExact
<1> QED BY <1>8, <1>9, <1>10, <1>11 DEF KInv

\* A stuttering step.
LEMMA StutterKInv == ASSUME KInv, UNCHANGED trussVars PROVE KInv'
<1>1. /\ lists' = lists /\ UNCHANGED setting /\ UNCHANGED history
      /\ UNCHANGED <<num_edges_remaining, phase, toTheEnd, max_K, offset_array,
                     triangles_per_edge, is_active, batch>>
  BY DEF trussVars
<1>2. /\ Nodes' = Nodes /\ Arcs' = Arcs /\ nE' = nE /\ Degrees' = Degrees /\ Places' = Places
      /\ originalNE' = originalNE /\ lockstep' = lockstep /\ tsp' = tsp
      /\ given' = given /\ misread' = misread
      /\ \A v : degree(v)' = degree(v)
      /\ \A p : Dest(p)' = Dest(p) /\ Exact(p)' = Exact(p)
      /\ \A a, b : Corners(a, b)' = Corners(a, b)
  BY <1>1, ListsStay DEF setting, history
<1>3. \A p : Place(p)' = Place(p)
  BY <1>1 DEF Place
<1>4. TrussTyped'
  BY <1>1, <1>2 DEF KInv, TrussTyped
<1>5. Distinct' /\ BlocksApart' /\ EdgesLeft' /\ ActiveLeft' /\ BatchEmpty'
  BY <1>1, <1>2 DEF KInv, Distinct, BlocksApart, EdgesLeft, ActiveLeft, BatchEmpty
<1>6. KRange' /\ Shrinking' /\ Keeping' /\ LastTruss'
  BY <1>1, <1>2 DEF KInv, KRange, Shrinking, Keeping, LastTruss, Fair
<1>7. Counting'
  BY <1>1, <1>2, <1>3 DEF KInv, Counting
<1>8. Symmetry'
  BY <1>1, <1>2 DEF KInv, Symmetry, Fair
<1>9. TrussExact'
  BY <1>1, <1>2, MaximalIs DEF KInv, TrussExact
<1> QED BY <1>4, <1>5, <1>6, <1>7, <1>8, <1>9 DEF KInv

\* A call begins with the graph as it is: every truss is still in it.
LEMMA CallKInv ==
    ASSUME KInv, TrussRun \/ RunForK
    PROVE  KInv'
<1>1. /\ TrussTyped /\ Distinct /\ BlocksApart /\ EdgesLeft
  BY DEF KInv
<1>2. PICK k \in Nat, whole \in BOOLEAN : Call(k, whole) /\ (whole => k = 3)
  <2>1. CASE TrussRun
    BY <2>1 DEF TrussRun
  <2>2. CASE RunForK
    BY <2>2, KTrussAssumption DEF RunForK
  <2> QED BY <2>1, <2>2
<1>3. /\ lists' = lists /\ UNCHANGED setting /\ phase' = "count" /\ toTheEnd' = whole
      /\ max_K' = k /\ given' = Arcs /\ misread' = FALSE /\ batch' = {}
      /\ is_active' = [v \in Nodes |-> TRUE] /\ triangles_per_edge' = NoTriangles
      /\ UNCHANGED <<num_edges_remaining, offset_array>>
  BY <1>2 DEF Call, FindTrussOfK
<1>4. /\ Nodes' = Nodes /\ Arcs' = Arcs /\ nE' = nE /\ Degrees' = Degrees
      /\ originalNE' = originalNE
  BY <1>3, ListsStay DEF setting
<1>5. Arcs \in SUBSET (Nodes \X Nodes)
  BY <1>1, StateIs, GraphIs
<1>6. TrussTyped' /\ Distinct'
  <2>1. /\ num_edges_remaining' \in Int /\ offset_array' \in [Nodes -> Nat]
        /\ max_K' \in Nat
    BY <1>1, <1>3 DEF TrussTyped
  <2>2. DOMAIN triangles_per_edge' = 0 .. originalNE - 1
    BY <1>3 DEF NoTriangles
  <2>3. /\ toTheEnd' \in BOOLEAN /\ is_active' \in [Nodes -> BOOLEAN]
        /\ batch' \in SUBSET Arcs /\ given' \in SUBSET (Nodes \X Nodes) /\ misread' \in BOOLEAN
        /\ phase' \in {"ready", "count", "collect", "decide"}
    BY <1>3, <1>5
  <2> QED BY <1>1, <1>3, <2>1, <2>2, <2>3, TypedStays
<1>7. BlocksApart' /\ EdgesLeft'
  BY <1>1, <1>3, <1>4 DEF BlocksApart, EdgesLeft
<1>8. ActiveLeft' /\ BatchEmpty' /\ KRange' /\ Shrinking' /\ Counting' /\ LastTruss' /\ TrussExact'
  BY <1>2, <1>3, <1>4 DEF ActiveLeft, BatchEmpty, KRange, Shrinking, Counting, LastTruss, TrussExact
<1>9. Keeping'
  BY <1>3, <1>4 DEF Keeping, Trusses
<1>10. Symmetry'
  <2>1. Symmetric({})
    BY DEF Symmetric
  <2> QED BY <1>3, <1>4, <2>1 DEF Symmetry, Fair
<1> QED BY <1>6, <1>7, <1>8, <1>9, <1>10 DEF KInv

\* Each edge counts in its own cell, as the blocks are apart: a count is never
\* below the triangles of an edge, and in lockstep exact.
LEMMA CountKInv ==
    ASSUME KInv, CountTriangles
    PROVE  KInv'
<1>1. /\ TrussTyped /\ Distinct /\ BlocksApart /\ EdgesLeft /\ ActiveLeft /\ BatchEmpty
      /\ KRange /\ Shrinking /\ Keeping /\ Symmetry /\ LastTruss
  BY DEF KInv
<1>2. /\ lists' = lists /\ UNCHANGED setting /\ phase = "count" /\ phase' = "collect"
      /\ UNCHANGED <<num_edges_remaining, toTheEnd, max_K, offset_array, is_active, batch, given>>
      /\ misread' = (misread \/ Unsorted)
  BY DEF CountTriangles
<1>3. /\ Nodes' = Nodes /\ Places' = Places /\ Arcs' = Arcs /\ nE' = nE /\ Degrees' = Degrees
      /\ originalNE' = originalNE /\ lockstep' = lockstep
      /\ \A v : degree(v)' = degree(v)
      /\ \A p : Dest(p)' = Dest(p) /\ Exact(p)' = Exact(p) /\ Place(p)' = Place(p)
      /\ \A a, b : Corners(a, b)' = Corners(a, b)
  BY <1>2, ListsStay DEF setting, Place
<1>4. Graph(Nodes, lists) /\ tsp \in Nat \ {0} /\ misread \in BOOLEAN
  BY <1>1, StateIs DEF TrussTyped
<1>5. ~misread' => ~misread /\ \A v \in Nodes : Rising(lists[v])
  <2> SUFFICES ASSUME ~misread', NEW v \in Nodes PROVE ~misread /\ Rising(lists[v])
    BY <1>2
  <2>1. IsSorted(lists[v], <)
    BY <1>2 DEF Unsorted
  <2>2. lists[v] \in Seq(Nat)
    BY <1>4 DEF Graph
  <2> QED BY <1>2, <2>1, <2>2 DEF IsSorted, Rising
<1> DEFINE counts == [p \in Places |-> EdgeCounts(p)]
           open == {p \in Places : Cardinality(counts[p]) > 1}
<1>6. PICK more \in [open -> 0 .. tsp - 1] :
        LET count == [p \in Places |-> IF p \in open THEN Min(counts[p]) + more[p]
                                                     ELSE Max(counts[p])]
        IN  /\ \A p \in open : count[p] \in counts[p]
            /\ triangles_per_edge' = [i \in DOMAIN triangles_per_edge |->
                                        SumFunctionOnSet(count, {p \in Places : Place(p) = i})]
  BY DEF CountTriangles
<1> DEFINE count == [p \in Places |-> IF p \in open THEN Min(counts[p]) + more[p]
                                                    ELSE Max(counts[p])]
<1>7. \A p \in Places : counts[p] = EdgeCounts(p)
  OBVIOUS
<1>8. /\ \A p \in Places \ open : count[p] = Max(counts[p])
      /\ \A p \in Places : p \notin open => ~(Cardinality(counts[p]) > 1)
      /\ \A p \in open : count[p] \in counts[p]
      /\ triangles_per_edge' = [i \in DOMAIN triangles_per_edge |->
                                  SumFunctionOnSet(count, {p \in Places : Place(p) = i})]
  BY <1>6
<1> HIDE DEF counts, open, count
<1>9. ASSUME ~misread', NEW p \in Places
      PROVE  count[p] \in EdgeCounts(p) /\ count[p] \in Nat
  <2>1. /\ EdgeCounts(p) # {} /\ IsFiniteSet(EdgeCounts(p)) /\ EdgeCounts(p) \subseteq Nat
    BY <1>4, <1>5, <1>9, EdgeCountsAre
  <2>2. counts[p] = EdgeCounts(p)
    BY <1>7
  <2>3. CASE p \in open
    BY <1>8, <2>1, <2>2, <2>3
  <2>4. CASE p \notin open
    <3>1. ~(Cardinality(EdgeCounts(p)) > 1)
      BY <1>8, <2>2, <2>4
    <3>2. Cardinality(EdgeCounts(p)) \in Nat /\ Cardinality(EdgeCounts(p)) # 0
      BY <2>1, FS_CardinalityType, FS_EmptySet
    <3>3. PICK c : EdgeCounts(p) = {c}
      <4>1. Cardinality(EdgeCounts(p)) = 1
        BY <3>1, <3>2
      <4> QED BY <2>1, <4>1, FS_Singleton
    <3>4. c \in Nat
      BY <2>1, <3>3
    <3>5. Max({c}) = c
      BY <3>4 DEF Max
    <3>6. count[p] = Max({c})
      BY <1>8, <2>2, <2>4, <3>3
    <3> QED BY <3>3, <3>4, <3>5, <3>6
  <2> QED BY <2>3, <2>4
<1>10. /\ \A p \in Places : Place(p) \in 0 .. originalNE - 1
       /\ \A p, q \in Places : Place(p) = Place(q) => p = q
  <2>1. Nodes \in SUBSET Nat /\ lists \in [Nodes -> Seq(Nodes)]
    BY <1>4 DEF Graph
  <2>2. Degrees = [v \in Nodes |-> Len(lists[v])]
    BY DEF Degrees, degree
  <2>3. Blocks(Nodes, Degrees, offset_array, originalNE) /\ originalNE \in Nat
    BY <1>1 DEF BlocksApart, TrussTyped
  <2>4. Places = PlacesOf(lists)
    BY <1>4, GraphIs
  <2>5. /\ \A p \in PlacesOf(lists) : offset_array[p[1]] + p[2] \in 0 .. originalNE - 1
        /\ \A p, q \in PlacesOf(lists) :
              offset_array[p[1]] + p[2] = offset_array[q[1]] + q[2] => p = q
    BY <2>1, <2>2, <2>3, CellsApart
  <2> QED BY <2>4, <2>5 DEF Place
<1>11. DOMAIN triangles_per_edge' = 0 .. originalNE - 1
  <2>1. DOMAIN triangles_per_edge = 0 .. originalNE - 1
    BY <1>1 DEF TrussTyped
  <2> QED BY <1>8, <2>1
<1>12. ASSUME ~misread', NEW p \in Places PROVE triangles_per_edge'[Place(p)] = count[p]
  <2>1. Place(p) \in DOMAIN triangles_per_edge
    BY <1>1, <1>10 DEF TrussTyped
  <2>2. {q \in Places : Place(q) = Place(p)} = {p}
    BY <1>10
  <2>3. triangles_per_edge'[Place(p)] = SumFunctionOnSet(count, {q \in Places : Place(q) = Place(p)})
    BY <1>8, <2>1
  <2>4. SumFunctionOnSet(count, {p}) = count[p]
    <3>1. count[p] \in Int
      BY <1>9, <1>12
    <3>2. IsFiniteSet({}) /\ p \notin {} /\ \A y \in {} : count[y] \in Int
      BY FS_EmptySet
    <3>3. SumFunctionOnSet(count, {} \cup {p}) = SumFunctionOnSet(count, {}) + count[p]
      BY <3>1, <3>2, SumAdds
    <3>4. SumFunctionOnSet(count, {}) = 0
      BY <3>2, SumType
    <3>5. {} \cup {p} = {p}
      OBVIOUS
    <3> QED BY <3>1, <3>3, <3>4, <3>5
  <2> QED BY <2>2, <2>3, <2>4
<1>13. Counting'
  <2> SUFFICES ASSUME ~misread', NEW p \in Places
               PROVE  /\ triangles_per_edge'[Place(p)] \in Nat
                      /\ p[1] # Dest(p) /\ <<Dest(p), p[1]>> \in Arcs =>
                           triangles_per_edge'[Place(p)] >= Cardinality(Corners(p[1], Dest(p)))
                      /\ lockstep => triangles_per_edge'[Place(p)] = Exact(p)
    BY <1>2, <1>3 DEF Counting
  <2>1. PICK c \in EdgeCounts(p) : c = triangles_per_edge'[Place(p)] /\ c \in Nat
    BY <1>9, <1>12
  <2>2. /\ p[1] # Dest(p) /\ <<Dest(p), p[1]>> \in Arcs => c >= Cardinality(Corners(p[1], Dest(p)))
        /\ lockstep => c = Exact(p)
    BY <1>4, <1>5, EdgeCountsAre
  <2> QED BY <2>1, <2>2
<1>14. TrussTyped' /\ Distinct'
  <2>1. /\ num_edges_remaining' \in Int /\ offset_array' \in [Nodes -> Nat]
        /\ max_K' \in Nat /\ toTheEnd' \in BOOLEAN /\ is_active' \in [Nodes -> BOOLEAN]
        /\ batch' \in SUBSET Arcs /\ given' \in SUBSET (Nodes \X Nodes)
    BY <1>1, <1>2 DEF TrussTyped
  <2>2. misread' \in BOOLEAN /\ phase' \in {"ready", "count", "collect", "decide"}
    BY <1>2, <1>4
  <2> QED BY <1>1, <1>2, <1>11, <2>1, <2>2, TypedStays
<1>15. BlocksApart' /\ EdgesLeft' /\ ActiveLeft'
  BY <1>1, <1>2, <1>3 DEF BlocksApart, EdgesLeft, ActiveLeft
<1>16. batch = {} /\ BatchEmpty'
  BY <1>1, <1>2 DEF BatchEmpty
<1>17. KRange' /\ Shrinking' /\ TrussExact'
  BY <1>1, <1>2, <1>3 DEF KRange, Shrinking, TrussExact
<1>18. ~misread' => ~misread
  BY <1>5
<1>19. Keeping'
  BY <1>1, <1>2, <1>3, <1>18 DEF Keeping
<1>20. Symmetry' /\ LastTruss'
  BY <1>1, <1>2, <1>3, <1>18 DEF Symmetry, LastTruss, Fair
<1> QED BY <1>13, <1>14, <1>15, <1>16, <1>17, <1>19, <1>20 DEF KInv

\* An undirected edge is an arc both ways.
LEMMA UndirectedIs ==
    ASSUME NEW N, NEW E \in SUBSET (N \X N)
    PROVE  /\ \A a, b : {a, b} \in Undirected(E) <=> <<a, b>> \in E /\ <<b, a>> \in E
           /\ \A x \in Undirected(E) : \E a, b : x = {a, b} /\ <<a, b>> \in E
<1>1. ASSUME NEW e \in E PROVE e = <<e[1], e[2]>> /\ e[1] \in N /\ e[2] \in N
  OBVIOUS
<1>2. ASSUME NEW x
      PROVE  x \in Undirected(E)
               <=> \E e \in E : <<e[2], e[1]>> \in E /\ x = {e[1], e[2]}
  BY DEF Undirected
<1>3. ASSUME NEW a, NEW b, {a, b} \in Undirected(E) PROVE <<a, b>> \in E /\ <<b, a>> \in E
  <2>1. PICK e \in E : <<e[2], e[1]>> \in E /\ {a, b} = {e[1], e[2]}
    BY <1>2, <1>3
  <2>2. PICK c, d : c = e[1] /\ d = e[2] /\ <<c, d>> \in E /\ <<d, c>> \in E /\ {a, b} = {c, d}
    BY <1>1, <2>1
  <2>3. (a = c /\ b = d) \/ (a = d /\ b = c)
    BY <2>2
  <2> QED BY <2>2, <2>3
<1>4. ASSUME NEW a, NEW b, <<a, b>> \in E, <<b, a>> \in E PROVE {a, b} \in Undirected(E)
  <2>1. PICK e \in E : e = <<a, b>>
    BY <1>4
  <2>2. e[1] = a /\ e[2] = b
    BY <2>1
  <2> QED BY <1>2, <1>4, <2>1, <2>2
<1>5. ASSUME NEW x \in Undirected(E) PROVE \E a, b : x = {a, b} /\ <<a, b>> \in E
  <2>1. PICK e \in E : x = {e[1], e[2]}
    BY <1>2
  <2> QED BY <1>1, <2>1
<1> QED BY <1>3, <1>4, <1>5

\* Fewer edges, fewer of both.
LEMMA UndirectedShrinks ==
    ASSUME NEW E, NEW F \in SUBSET E
    PROVE  Undirected(F) \subseteq Undirected(E)
  BY DEF Undirected

\* The corners of an edge of a truss.
LEMMA TrussHasCorners ==
    ASSUME NEW N, Graph(N, lists), NEW k \in Int,
           NEW S, S \subseteq Undirected(Arcs), TrussIn(N, S, k),
           NEW a, NEW b, {a, b} \in S
    PROVE  /\ a # b /\ <<a, b>> \in Arcs /\ <<b, a>> \in Arcs
           /\ Cardinality(Corners(a, b)) >= k - 2
<1>1. /\ Nodes = N /\ Arcs \in SUBSET (N \X N) /\ IsFiniteSet(N)
  BY GraphIs DEF Graph
<1>2. <<a, b>> \in Arcs /\ <<b, a>> \in Arcs
  BY <1>1, UndirectedIs
<1>3. PICK W : W = {w \in N \ {a, b} : \A v \in {a, b} : {v, w} \in S}
  OBVIOUS
<1>4. Cardinality({a, b}) = 2 /\ Cardinality(W) >= k - 2
  BY <1>3 DEF TrussIn
<1>5. a # b
  <2> SUFFICES ASSUME a = b PROVE FALSE
    OBVIOUS
  <2>1. {a, b} = {a}
    OBVIOUS
  <2>2. Cardinality({a}) = 1
    BY FS_Singleton
  <2> QED BY <1>4, <2>1, <2>2
<1>6. W \subseteq Corners(a, b)
  <2> SUFFICES ASSUME NEW w \in W PROVE w \in Corners(a, b)
    OBVIOUS
  <2>1. w \in N \ {a, b} /\ {a, w} \in Undirected(Arcs) /\ {b, w} \in Undirected(Arcs)
    BY <1>3
  <2>2. <<a, w>> \in Arcs /\ <<b, w>> \in Arcs
    BY <1>1, <2>1, UndirectedIs
  <2> QED BY <1>1, <2>1, <2>2 DEF Corners
<1>7. IsFiniteSet(Corners(a, b))
  <2>1. Corners(a, b) \in SUBSET N
    BY <1>1 DEF Corners
  <2> QED BY <1>1, <2>1, FS_Subset
<1>8. Cardinality(W) \in Nat /\ Cardinality(Corners(a, b)) \in Nat
      /\ Cardinality(W) <= Cardinality(Corners(a, b))
  BY <1>6, <1>7, FS_Subset, FS_CardinalityType
<1> QED BY <1>2, <1>4, <1>5, <1>8

\* The counts of an edge and of its other direction are the same.
LEMMA ExactIsSymmetric ==
    ASSUME NEW p, NEW q, p[1] = Dest(q), q[1] = Dest(p)
    PROVE  Exact(p) = Exact(q)
<1>1. Shared(p) = Shared(q)
  BY DEF Shared
<1>2. Avoid(p) <=> Avoid(q)
  BY DEF Avoid
<1> QED BY <1>1, <1>2 DEF Exact

\* The edges collected have fewer than k - 2 triangles, hence are in no truss;
\* in lockstep both directions of an edge are collected.
LEMMA FindKInv ==
    ASSUME KInv, FindUnderK
    PROVE  KInv'
<1>1. /\ TrussTyped /\ Distinct /\ BlocksApart /\ EdgesLeft /\ ActiveLeft
      /\ KRange /\ Shrinking /\ Counting /\ Keeping /\ Symmetry /\ LastTruss
  BY DEF KInv
<1>2. /\ lists' = lists /\ UNCHANGED setting /\ phase = "collect" /\ phase' = "decide"
      /\ UNCHANGED <<num_edges_remaining, toTheEnd, max_K, offset_array, triangles_per_edge>>
      /\ UNCHANGED history
  BY DEF FindUnderK
<1>3. /\ Nodes' = Nodes /\ Places' = Places /\ Arcs' = Arcs /\ nE' = nE /\ Degrees' = Degrees
      /\ originalNE' = originalNE /\ lockstep' = lockstep
      /\ given' = given /\ misread' = misread
      /\ \A v : degree(v)' = degree(v)
      /\ \A p : Dest(p)' = Dest(p) /\ Exact(p)' = Exact(p)
  BY <1>2, ListsStay DEF setting, history
<1>4. Graph(Nodes, lists) /\ max_K \in Nat
  BY <1>1, StateIs DEF TrussTyped
<1>5. Arcs \in SUBSET (Nodes \X Nodes)
  BY <1>4, GraphIs
\* Every edge is looked at, and is in the batch if it has too few.
<1>6. ASSUME NEW p \in Places
      PROVE  is_active[p[1]] /\ <<p[1], Dest(p)>> \in Arcs
  <2>1. p[1] \in Nodes /\ degree(p[1]) > 0 /\ <<p[1], Dest(p)>> \in Arcs
    BY <1>4, GraphIs
  <2> QED BY <1>1, <1>2, <2>1 DEF ActiveLeft
<1>7. batch' = {<<p[1], Dest(p)>> : p \in {q \in Places : TooFew(q)}}
  <2>1. batch' = {<<p[1], Dest(p)>> : p \in {q \in Places : is_active[q[1]] /\ TooFew(q)}}
    BY DEF FindUnderK
  <2>2. {q \in Places : is_active[q[1]] /\ TooFew(q)} = {q \in Places : TooFew(q)}
    BY <1>6
  <2> QED BY <2>1, <2>2
<1>8. ASSUME NEW e \in batch'
      PROVE  \E p \in Places : /\ TooFew(p) /\ e = <<p[1], Dest(p)>>
                               /\ e[1] = p[1] /\ e[2] = Dest(p)
  BY <1>7
<1>9. ASSUME NEW p \in Places, TooFew(p) PROVE <<p[1], Dest(p)>> \in batch'
  BY <1>7, <1>9
<1>10. batch' \in SUBSET Arcs
  BY <1>6, <1>8
<1>11. ASSUME ~misread, NEW p \in Places
       PROVE  /\ triangles_per_edge[Place(p)] \in Nat
              /\ TooFew(p) <=> triangles_per_edge[Place(p)] < max_K - 2
              /\ p[1] # Dest(p) /\ <<Dest(p), p[1]>> \in Arcs =>
                   triangles_per_edge[Place(p)] >= Cardinality(Corners(p[1], Dest(p)))
              /\ lockstep => triangles_per_edge[Place(p)] = Exact(p)
  BY <1>1, <1>2, <1>11 DEF Counting, TooFew
<1>12. Keeping'
  <2> SUFFICES ASSUME ~misread, NEW S \in Trusses(Nodes, given, max_K)
               PROVE  /\ S \subseteq Undirected(Arcs)
                      /\ \A e \in batch' : {e[1], e[2]} \notin S
    BY <1>2, <1>3 DEF Keeping
  <2>1. S \subseteq Undirected(Arcs) /\ TrussIn(Nodes, S, max_K)
    BY <1>1, <1>2 DEF Keeping, Trusses
  <2>2. ASSUME NEW e \in batch', {e[1], e[2]} \in S PROVE FALSE
    <3>1. PICK p \in Places : TooFew(p) /\ e[1] = p[1] /\ e[2] = Dest(p)
      BY <1>8
    <3>2. PICK a, b : a = p[1] /\ b = Dest(p) /\ {a, b} \in S
      BY <2>2, <3>1
    <3>3. /\ a # b /\ <<b, a>> \in Arcs /\ Cardinality(Corners(a, b)) >= max_K - 2
      <4>1. max_K \in Int
        BY <1>4
      <4> QED BY <1>4, <2>1, <3>2, <4>1, TrussHasCorners
    <3>4. Cardinality(Corners(a, b)) \in Nat
      BY <1>4, <3>2, SharedIs
    <3>5. /\ triangles_per_edge[Place(p)] \in Nat
          /\ triangles_per_edge[Place(p)] < max_K - 2
          /\ triangles_per_edge[Place(p)] >= Cardinality(Corners(a, b))
      BY <1>11, <3>1, <3>2, <3>3
    <3> QED BY <1>4, <3>3, <3>4, <3>5
  <2> QED BY <2>1, <2>2
<1>13. Symmetry'
  <2> SUFFICES ASSUME Fair
               PROVE  /\ Symmetric(Arcs) /\ Symmetric(batch')
                      /\ batch' = {} => \A p \in Places : Exact(p) >= max_K - 2
    BY <1>2, <1>3 DEF Symmetry, Fair
  <2>1. Symmetric(Arcs) /\ ~misread /\ lockstep
    BY <1>1, <1>2 DEF Symmetry, Fair
  <2>2. ASSUME NEW p \in Places PROVE TooFew(p) <=> Exact(p) < max_K - 2
    BY <1>11, <2>1
  <2>3. ASSUME NEW e \in batch' PROVE <<e[2], e[1]>> \in batch'
    <3>1. PICK p \in Places : /\ TooFew(p) /\ e = <<p[1], Dest(p)>>
                              /\ e[1] = p[1] /\ e[2] = Dest(p)
      BY <1>8
    <3>2. <<Dest(p), p[1]>> \in Arcs
      BY <1>6, <2>1, <3>1 DEF Symmetric
    <3>3. PICK q \in Places : q[1] = Dest(p) /\ Dest(q) = p[1]
      BY <1>4, <3>2, GraphIs
    <3>4. Exact(p) = Exact(q)
      BY <3>3, ExactIsSymmetric
    <3>5. TooFew(q)
      BY <2>2, <3>1, <3>4
    <3> QED BY <1>9, <3>1, <3>3, <3>5
  <2>4. ASSUME batch' = {}, NEW p \in Places PROVE Exact(p) >= max_K - 2
    <3>1. ~TooFew(p)
      BY <1>9, <2>4
    <3>2. Exact(p) \in Nat
      BY <1>11, <2>1
    <3> QED BY <1>4, <2>2, <3>1, <3>2
  <2> QED BY <2>1, <2>3, <2>4 DEF Symmetric
<1>14. ActiveLeft' /\ is_active' \in [Nodes -> BOOLEAN]
  <2>1. is_active' = [v \in Nodes |-> is_active[v] /\ degree(v) > 0]
    BY DEF FindUnderK
  <2>2. ASSUME NEW v \in Nodes PROVE is_active'[v] \/ degree(v) = 0
    <3>1. degree(v) = 0 \/ degree(v) > 0
      BY <1>4 DEF Graph, degree
    <3>2. is_active[v] \/ degree(v) = 0
      BY <1>1, <1>2 DEF ActiveLeft
    <3>3. is_active'[v] <=> is_active[v] /\ degree(v) > 0
      BY <2>1
    <3> QED BY <3>1, <3>2, <3>3
  <2>3. is_active' \in [Nodes -> BOOLEAN]
    BY <2>1
  <2> QED BY <1>3, <2>2, <2>3 DEF ActiveLeft
<1>15. TrussTyped' /\ Distinct'
  <2>1. /\ num_edges_remaining' \in Int /\ offset_array' \in [Nodes -> Nat]
        /\ max_K' \in Nat /\ toTheEnd' \in BOOLEAN
        /\ given' \in SUBSET (Nodes \X Nodes) /\ misread' \in BOOLEAN
        /\ DOMAIN triangles_per_edge' = 0 .. originalNE - 1
    BY <1>1, <1>2, <1>3 DEF TrussTyped
  <2>2. phase' \in {"ready", "count", "collect", "decide"}
    BY <1>2
  <2> QED BY <1>1, <1>2, <1>10, <1>14, <2>1, <2>2, TypedStays
<1>16. BlocksApart' /\ EdgesLeft' /\ BatchEmpty'
  BY <1>1, <1>2, <1>3 DEF BlocksApart, EdgesLeft, BatchEmpty
<1>17. KRange' /\ Shrinking' /\ Counting' /\ TrussExact'
  BY <1>1, <1>2, <1>3 DEF KRange, Shrinking, Counting, TrussExact
<1>18. LastTruss'
  BY <1>1, <1>2, <1>3 DEF LastTruss, Fair
<1> QED BY <1>12, <1>13, <1>14, <1>15, <1>16, <1>17, <1>18 DEF KInv

\* A truss for k is one for less.
LEMMA TrussForLess ==
    ASSUME NEW N, IsFiniteSet(N), NEW S, NEW j \in Int, NEW k \in Int, j <= k, TrussIn(N, S, k)
    PROVE  TrussIn(N, S, j)
<1> SUFFICES ASSUME NEW e \in S
             PROVE  /\ Cardinality(e) = 2
                    /\ Cardinality({w \in N \ e : \A v \in e : {v, w} \in S}) >= j - 2
  BY DEF TrussIn
<1>1. PICK W : W = {w \in N \ e : \A v \in e : {v, w} \in S}
  OBVIOUS
<1>2. Cardinality(e) = 2 /\ Cardinality(W) >= k - 2
  BY <1>1 DEF TrussIn
<1>3. W \in SUBSET N
  BY <1>1
<1>4. Cardinality(W) \in Nat
  BY <1>3, FS_Subset, FS_CardinalityType
<1> QED BY <1>1, <1>2, <1>4

\* Arcs both ways, each with enough common neighbours, are a truss.
LEMMA EnoughIsTruss ==
    ASSUME NEW N, Graph(N, lists), Symmetric(Arcs), NEW k \in Nat, k >= 3,
           \A p \in Places : Exact(p) >= k - 2
    PROVE  TrussIn(N, Undirected(Arcs), k)
<1>1. /\ Nodes = N /\ Arcs \in SUBSET (N \X N) /\ IsFiniteSet(N)
  BY GraphIs DEF Graph
<1>2. ASSUME NEW p \in Places
      PROVE  ~Avoid(p) /\ Exact(p) = Cardinality(Shared(p)) /\ p[1] # Dest(p)
  <2>1. ~Avoid(p)
    BY DEF Exact
  <2> QED BY <2>1 DEF Avoid, Exact
<1>3. ASSUME NEW a, NEW b, <<a, b>> \in Arcs
      PROVE  \E p \in Places : p[1] = a /\ Dest(p) = b /\ a # b
  BY <1>2, <1>3, GraphIs
<1>4. ASSUME NEW a, NEW b, <<a, b>> \in Arcs PROVE <<b, a>> \in Arcs
  <2>1. PICK e : e = <<a, b>> /\ e \in Arcs
    BY <1>4
  <2> QED BY <2>1 DEF Symmetric
<1> SUFFICES ASSUME NEW e \in Undirected(Arcs)
             PROVE  /\ Cardinality(e) = 2
                    /\ Cardinality({w \in N \ e : \A v \in e : {v, w} \in Undirected(Arcs)}) >= k - 2
  BY DEF TrussIn
<1>5. PICK a, b : e = {a, b} /\ <<a, b>> \in Arcs
  BY <1>1, UndirectedIs
<1>6. a \in N /\ b \in N
  BY <1>1, <1>5
<1>7. PICK p \in Places : p[1] = a /\ Dest(p) = b /\ a # b
  BY <1>3, <1>5
<1>8. Cardinality(e) = 2
  <2>1. IsFiniteSet({a}) /\ Cardinality({a}) = 1
    BY FS_Singleton
  <2>2. Cardinality({a} \cup {b}) = 1 + 1
    BY <1>7, <2>1, FS_AddElement
  <2>3. {a} \cup {b} = e
    BY <1>5
  <2> QED BY <2>2, <2>3
<1>9. PICK W : W = {w \in N \ e : \A v \in e : {v, w} \in Undirected(Arcs)}
  OBVIOUS
<1>10. Shared(p) \subseteq W
  <2> SUFFICES ASSUME NEW w \in Shared(p) PROVE w \in W
    OBVIOUS
  <2>1. w \in N /\ <<a, w>> \in Arcs /\ <<b, w>> \in Arcs
    BY <1>1, <1>7 DEF Shared
  <2>2. w # a /\ w # b
    BY <1>3, <2>1
  <2>3. <<w, a>> \in Arcs /\ <<w, b>> \in Arcs
    BY <1>4, <2>1
  <2>4. {a, w} \in Undirected(Arcs) /\ {b, w} \in Undirected(Arcs)
    BY <1>1, <2>1, <2>3, UndirectedIs
  <2> QED BY <1>5, <1>9, <2>1, <2>2, <2>4
<1>11. Cardinality(W) \in Nat /\ Cardinality(Shared(p)) \in Nat
       /\ Cardinality(Shared(p)) <= Cardinality(W)
  <2>1. W \in SUBSET N
    BY <1>9
  <2>2. IsFiniteSet(W)
    BY <1>1, <2>1, FS_Subset
  <2> QED BY <1>10, <2>2, FS_Subset, FS_CardinalityType
<1>12. Cardinality(Shared(p)) >= k - 2
  BY <1>2
<1> QED BY <1>8, <1>9, <1>11, <1>12

\* No more edges is no more edges.
LEMMA NoneLeft ==
    ASSUME NEW N, Graph(N, lists), Distinct
    PROVE  nE \in Nat /\ (nE = 0 <=> Arcs = {})
<1>1. IsFiniteSet(Arcs) /\ Cardinality(Arcs) \in Nat /\ nE = Cardinality(Arcs)
  BY NEIs
<1> QED BY <1>1, FS_EmptySet

\* The step to the next k and the return of a call come when no edge has too few.
LEMMA LeftIsTruss ==
    ASSUME KInv, phase = "decide", batch = {}, Fair, max_K >= 3
    PROVE  /\ TrussIn(Nodes, Undirected(Arcs), max_K)
           /\ Undirected(Arcs) \in Trusses(Nodes, given, max_K)
<1>1. Graph(Nodes, lists) /\ max_K \in Nat
  BY StateIs DEF KInv, TrussTyped
<1>2. Symmetric(Arcs) /\ \A p \in Places : Exact(p) >= max_K - 2
  BY DEF KInv, Symmetry
<1>3. TrussIn(Nodes, Undirected(Arcs), max_K)
  BY <1>1, <1>2, EnoughIsTruss
<1>4. Undirected(Arcs) \subseteq Undirected(given)
  <2>1. Arcs \in SUBSET given
    BY DEF KInv, Shrinking
  <2> QED BY <2>1, UndirectedShrinks
<1> QED BY <1>3, <1>4 DEF Trusses

\* k rises when nothing was collected: then every edge left has its k - 2
\* triangles, so they are a truss, and k has not passed the bound.
LEMMA NextKInv ==
    ASSUME KInv, NextK
    PROVE  KInv'
<1>1. /\ TrussTyped /\ Distinct /\ BlocksApart /\ EdgesLeft /\ ActiveLeft
      /\ KRange /\ Shrinking /\ Keeping /\ Symmetry /\ LastTruss
  BY DEF KInv
<1>2. /\ lists' = lists /\ UNCHANGED setting /\ phase = "decide" /\ phase' = "count"
      /\ batch = {} /\ batch' = {} /\ toTheEnd /\ num_edges_remaining > 0
      /\ max_K' = Lesser(max_K + 1, MaxK) /\ is_active' = [v \in Nodes |-> TRUE]
      /\ triangles_per_edge' = NoTriangles
      /\ UNCHANGED <<num_edges_remaining, toTheEnd, offset_array>> /\ UNCHANGED history
  BY DEF NextK, FindTrussOfK
<1>3. /\ Nodes' = Nodes /\ Arcs' = Arcs /\ nE' = nE /\ Degrees' = Degrees
      /\ originalNE' = originalNE /\ lockstep' = lockstep
      /\ given' = given /\ misread' = misread
  BY <1>2, ListsStay DEF setting, history
<1>4. /\ Graph(Nodes, lists) /\ max_K \in Nat /\ MaxK \in Nat /\ originalNE \in Nat
      /\ num_edges_remaining \in Int
  BY <1>1, StateIs DEF TrussTyped
<1>5. IsFiniteSet(Nodes) /\ nE \in Nat
  BY <1>1, <1>4, NoneLeft DEF Graph
<1>6. MaxK >= 3
  <2>1. PICK n \in Nat : Nodes = 0 .. n - 1 /\ MaxK > n + 1
    BY <1>1, StateIs
  <2>2. originalNE # 0
    BY <1>1, <1>2, <1>4 DEF EdgesLeft
  <2>3. Nodes # {}
    BY <1>1, <2>2 DEF TrussTyped
  <2>4. n # 0
    BY <2>1, <2>3
  <2> QED BY <1>4, <2>1, <2>4
<1>7. 3 <= max_K /\ max_K <= MaxK
  BY <1>1, <1>2, <1>4, <1>6 DEF KRange
<1>8. /\ max_K' \in Nat /\ max_K <= max_K' /\ max_K' - 1 <= max_K
      /\ 3 <= max_K' /\ max_K' <= MaxK
  BY <1>2, <1>4, <1>7 DEF Lesser
<1>9. Keeping'
  <2> SUFFICES ASSUME ~misread, NEW S \in Trusses(Nodes, given, max_K')
               PROVE  S \subseteq Undirected(Arcs)
    BY <1>2, <1>3 DEF Keeping
  <2>1. PICK k \in Int, j \in Int : k = max_K' /\ j = max_K /\ j <= k
    BY <1>4, <1>8
  <2>2. S \in SUBSET Undirected(given) /\ TrussIn(Nodes, S, k)
    BY <2>1 DEF Trusses
  <2>3. TrussIn(Nodes, S, j)
    BY <1>5, <2>1, <2>2, TrussForLess
  <2>4. S \in Trusses(Nodes, given, max_K)
    BY <2>1, <2>2, <2>3 DEF Trusses
  <2> QED BY <1>1, <1>2, <2>4 DEF Keeping
<1>10. Symmetry'
  <2>1. Symmetric({})
    BY DEF Symmetric
  <2> QED BY <1>1, <1>2, <1>3, <2>1 DEF Symmetry, Fair
<1>11. LastTruss'
  <2> SUFFICES ASSUME Fair, ~(num_edges_remaining > nE)
               PROVE  \E S \in Trusses(Nodes, given, max_K' - 1) : S # {}
    BY <1>2, <1>3 DEF LastTruss, Fair
  <2>1. nE > 0
    BY <1>2, <1>4, <1>5
  <2>2. Arcs # {}
    BY <1>1, <1>4, <2>1, NoneLeft
  <2>3. Symmetric(Arcs)
    BY <1>1, <1>2 DEF Symmetry
  <2>4. Undirected(Arcs) # {}
    BY <2>2, <2>3 DEF Undirected, Symmetric
  <2>5. /\ TrussIn(Nodes, Undirected(Arcs), max_K)
        /\ Undirected(Arcs) \in Trusses(Nodes, given, max_K)
    BY <1>2, <1>7, LeftIsTruss
  <2>6. PICK k \in Int, j \in Int : k = max_K /\ j = max_K' - 1 /\ j <= k
    <3>1. max_K \in Int /\ max_K' - 1 \in Int
      BY <1>4, <1>8
    <3> QED BY <1>8, <3>1
  <2>7. TrussIn(Nodes, Undirected(Arcs), j)
    BY <1>5, <2>5, <2>6, TrussForLess
  <2>8. Undirected(Arcs) \in Trusses(Nodes, given, max_K' - 1)
    BY <2>5, <2>6, <2>7 DEF Trusses
  <2> QED BY <2>4, <2>8
<1>12. TrussTyped' /\ Distinct'
  <2>1. /\ offset_array' \in [Nodes -> Nat] /\ toTheEnd' \in BOOLEAN
        /\ given' \in SUBSET (Nodes \X Nodes) /\ misread' \in BOOLEAN
        /\ num_edges_remaining' \in Int
    BY <1>1, <1>2, <1>3 DEF TrussTyped
  <2>2. DOMAIN triangles_per_edge' = 0 .. originalNE - 1
    BY <1>2 DEF NoTriangles
  <2>3. /\ phase' \in {"ready", "count", "collect", "decide"}
        /\ is_active' \in [Nodes -> BOOLEAN] /\ batch' \in SUBSET Arcs
    BY <1>2
  <2> QED BY <1>1, <1>2, <1>8, <2>1, <2>2, <2>3, TypedStays
<1>13. BlocksApart' /\ EdgesLeft' /\ BatchEmpty' /\ ActiveLeft'
  BY <1>1, <1>2, <1>3 DEF BlocksApart, EdgesLeft, BatchEmpty, ActiveLeft
<1>14. KRange' /\ Shrinking' /\ Counting' /\ TrussExact'
  BY <1>1, <1>2, <1>3, <1>8 DEF KRange, Shrinking, Counting, TrussExact
<1> QED BY <1>9, <1>10, <1>11, <1>12, <1>13, <1>14 DEF KInv

\* When the call returns, the edges left are the largest truss.
LEMMA ReturnKInv ==
    ASSUME KInv, Return
    PROVE  KInv'
<1>1. /\ TrussTyped /\ Distinct /\ BlocksApart /\ EdgesLeft
      /\ KRange /\ Shrinking /\ Keeping /\ Symmetry /\ LastTruss
  BY DEF KInv
<1>2. /\ lists' = lists /\ UNCHANGED setting /\ phase = "decide" /\ phase' = "ready"
      /\ batch = {} /\ (~toTheEnd \/ num_edges_remaining <= 0)
      /\ max_K' = (IF toTheEnd THEN max_K - 1 ELSE max_K)
      /\ UNCHANGED <<num_edges_remaining, toTheEnd, offset_array, triangles_per_edge,
                     is_active, batch>>
      /\ UNCHANGED history
  BY DEF Return
<1>3. /\ Nodes' = Nodes /\ Arcs' = Arcs /\ nE' = nE /\ Degrees' = Degrees
      /\ originalNE' = originalNE /\ lockstep' = lockstep
      /\ given' = given /\ misread' = misread
  BY <1>2, ListsStay DEF setting, history
<1>4. /\ Graph(Nodes, lists) /\ max_K \in Nat /\ num_edges_remaining \in Int
      /\ toTheEnd \in BOOLEAN /\ (toTheEnd => 3 <= max_K)
  BY <1>1, <1>2, StateIs DEF TrussTyped, KRange
<1>5. TrussExact'
  <2> SUFFICES ASSUME Fair, max_K' > 0
               PROVE  Maximal(Nodes, given, Arcs, toTheEnd, max_K')
    BY <1>2, <1>3, MaximalIs DEF TrussExact, Fair
  <2>1. CASE toTheEnd
    <3>1. max_K' = max_K - 1 /\ max_K' + 1 = max_K
      BY <1>2, <1>4, <2>1
    <3>2. nE = 0 /\ num_edges_remaining = 0
      <4>1. nE \in Nat
        BY <1>1, <1>4, NoneLeft
      <4> QED BY <1>1, <1>2, <1>4, <2>1, <4>1 DEF EdgesLeft
    <3>3. Arcs = {}
      BY <1>1, <1>4, <3>2, NoneLeft
    <3>4. max_K' = 2 \/ \E S \in Trusses(Nodes, given, max_K') : S # {}
      <4>1. max_K = 3 \/ \E S \in Trusses(Nodes, given, max_K - 1) : S # {}
        BY <1>1, <1>2, <2>1, <3>2 DEF LastTruss
      <4> QED BY <3>1, <4>1
    <3>5. ASSUME NEW S \in Trusses(Nodes, given, max_K' + 1) PROVE S = {}
      <4>1. S \in Trusses(Nodes, given, max_K)
        BY <3>1
      <4>2. S \subseteq Undirected(Arcs)
        BY <1>1, <1>2, <4>1 DEF Keeping, Fair
      <4>3. Undirected(Arcs) = {}
        BY <3>3 DEF Undirected
      <4> QED BY <4>2, <4>3
    <3> QED BY <2>1, <3>4, <3>5 DEF Maximal
  <2>2. CASE ~toTheEnd
    <3>1. max_K' = max_K
      BY <1>2, <2>2
    <3>2. \A S \in Trusses(Nodes, given, max_K) : S \subseteq Undirected(Arcs)
      BY <1>1, <1>2 DEF Keeping, Fair
    <3>3. max_K >= 3 => TrussIn(Nodes, Undirected(Arcs), max_K)
      BY <1>2, LeftIsTruss
    <3> QED BY <2>2, <3>1, <3>2, <3>3 DEF Maximal
  <2> QED BY <2>1, <2>2
<1>6. TrussTyped' /\ Distinct'
  <2>1. /\ offset_array' \in [Nodes -> Nat] /\ toTheEnd' \in BOOLEAN
        /\ given' \in SUBSET (Nodes \X Nodes) /\ misread' \in BOOLEAN
        /\ num_edges_remaining' \in Int /\ DOMAIN triangles_per_edge' = 0 .. originalNE - 1
        /\ is_active' \in [Nodes -> BOOLEAN] /\ batch' \in SUBSET Arcs
    BY <1>1, <1>2, <1>3 DEF TrussTyped
  <2>2. max_K' \in Nat
    BY <1>2, <1>4
  <2>3. phase' \in {"ready", "count", "collect", "decide"}
    BY <1>2
  <2> QED BY <1>1, <1>2, <2>1, <2>2, <2>3, TypedStays
<1>7. BlocksApart' /\ EdgesLeft' /\ BatchEmpty' /\ ActiveLeft'
  BY <1>1, <1>2, <1>3 DEF BlocksApart, EdgesLeft, BatchEmpty, ActiveLeft
<1>8. KRange' /\ Shrinking' /\ Counting' /\ Keeping' /\ Symmetry' /\ LastTruss'
  BY <1>2 DEF KRange, Shrinking, Counting, Keeping, Symmetry, LastTruss
<1> QED BY <1>5, <1>6, <1>7, <1>8 DEF KInv

\* The lists after an erase of arcs B.
ErasedFrom(N, g, B) ==
    SortHornet([v \in N |-> Erased(g[v], {e[2] : e \in {d \in B : d[1] = v}})])

\* Erasing a batch takes its edges from the lists and nothing else.
LEMMA ErasedGraph ==
    ASSUME NEW N, NEW g, Graph(N, g), \A v \in N : OnceEach(g[v]),
           NEW B \in SUBSET ArcsOf(g),
           NEW h, h = ErasedFrom(N, g, B)
    PROVE  /\ Graph(N, h)
           /\ \A v \in N : OnceEach(h[v]) /\ Len(h[v]) <= Len(g[v])
           /\ ArcsOf(h) = ArcsOf(g) \ B
<1>1. N \in SUBSET Nat /\ g \in [N -> Seq(N)] /\ IsFiniteSet(N)
  BY DEF Graph
<1>2. PICK gone : gone = [v \in N |-> {e[2] : e \in {d \in B : d[1] = v}}]
  OBVIOUS
<1>3. ASSUME NEW e \in B PROVE e = <<e[1], e[2]>> /\ e \in ArcsOf(g)
  <2>1. ArcsOf(g) \subseteq N \X N
    BY <1>1, ArcsAre
  <2> QED BY <2>1
<1>4. ASSUME NEW v \in N, NEW x PROVE x \in gone[v] <=> <<v, x>> \in B
  <2>1. x \in gone[v] <=> \E e \in B : e[1] = v /\ x = e[2]
    BY <1>2
  <2>2. ASSUME <<v, x>> \in B PROVE x \in gone[v]
    <3>1. PICK e \in B : e = <<v, x>>
      BY <2>2
    <3>2. e[1] = v /\ e[2] = x
      BY <3>1
    <3> QED BY <2>1, <3>2
  <2> QED BY <1>3, <2>1, <2>2
<1>5. PICK k : k = [v \in N |-> Erased(g[v], gone[v])]
  OBVIOUS
<1>6. h = SortHornet(k)
  <2>1. [v \in N |-> Erased(g[v], {e[2] : e \in {d \in B : d[1] = v}})] = k
    BY <1>2, <1>5
  <2> QED BY <2>1 DEF ErasedFrom
<1>7. ASSUME NEW v \in N
      PROVE  /\ k[v] \in Seq(N) /\ OnceEach(k[v]) /\ ToSet(k[v]) = ToSet(g[v]) \ gone[v]
             /\ Len(k[v]) <= Len(g[v])
  <2>1. g[v] \in Seq(N) /\ OnceEach(g[v]) /\ k[v] = Erased(g[v], gone[v])
    BY <1>1, <1>5
  <2>2. gone[v] \in SUBSET ToSet(g[v])
    <3> SUFFICES ASSUME NEW x \in gone[v] PROVE x \in ToSet(g[v])
      OBVIOUS
    <3>1. <<v, x>> \in ArcsOf(g)
      BY <1>3, <1>4
    <3> QED BY <1>1, <3>1, ArcsAre
  <2>3. /\ k[v] \in Seq(N) /\ OnceEach(k[v]) /\ ToSet(k[v]) = ToSet(g[v]) \ gone[v]
        /\ Len(k[v]) = Len(g[v]) - Cardinality(gone[v])
    BY <1>1, <2>1, <2>2, ErasedIs
  <2>4. Cardinality(gone[v]) \in Nat
    <3>1. IsFiniteSet(ToSet(g[v]))
      BY <2>1, LengthIs
    <3> QED BY <2>2, <3>1, FS_Subset, FS_CardinalityType
  <2>5. Len(g[v]) \in Nat
    BY <2>1
  <2> QED BY <2>3, <2>4, <2>5
<1>8. k \in [N -> Seq(N)] /\ \A v \in N : OnceEach(k[v])
  BY <1>5, <1>7
<1>9. /\ h \in [N -> Seq(N)]
      /\ \A v \in N : /\ OnceEach(h[v]) /\ ToSet(h[v]) = ToSet(k[v])
                      /\ Len(h[v]) = Len(k[v])
  <2>1. N \in SUBSET Nat /\ k \in [N -> Seq(N)]
    BY <1>1, <1>8
  <2>2. \A v \in N : OnceEach(k[v])
    BY <1>8
  <2> QED BY <1>6, <2>1, <2>2, SortKeeps
<1>10. ArcsOf(h) = ArcsOf(g) \ B
  <2>1. ArcsOf(h) \subseteq N \X N /\ ArcsOf(g) \subseteq N \X N
    BY <1>1, <1>9, ArcsAre
  <2>2. ASSUME NEW a, NEW b
        PROVE  <<a, b>> \in ArcsOf(h) <=> <<a, b>> \in ArcsOf(g) /\ <<a, b>> \notin B
    <3>1. <<a, b>> \in ArcsOf(h) <=> a \in N /\ b \in ToSet(h[a])
      BY <1>9, ArcsAre
    <3>2. <<a, b>> \in ArcsOf(g) <=> a \in N /\ b \in ToSet(g[a])
      BY <1>1, ArcsAre
    <3>3. a \in N => (b \in ToSet(h[a]) <=> b \in ToSet(g[a]) /\ b \notin gone[a])
      BY <1>7, <1>9
    <3> QED BY <1>4, <3>1, <3>2, <3>3
  <2>3. \A e \in N \X N : e \in ArcsOf(h) <=> e \in ArcsOf(g) /\ e \notin B
    <3> SUFFICES ASSUME NEW e \in N \X N
                 PROVE  e \in ArcsOf(h) <=> e \in ArcsOf(g) /\ e \notin B
      OBVIOUS
    <3>1. PICK a, b : e = <<a, b>>
      OBVIOUS
    <3> QED BY <2>2, <3>1
  <2> QED BY <2>1, <2>3
<1> QED BY <1>1, <1>7, <1>9, <1>10 DEF Graph

\* EraseBatch in terms of the edges.
LEMMA EraseStep ==
    ASSUME KInv, EraseBatch
    PROVE  /\ Graph(Nodes, lists) /\ Graph(Nodes, lists') /\ Nodes' = Nodes
           /\ Arcs' = Arcs \ batch /\ Distinct'
           /\ \A v \in Nodes : Degrees'[v] <= Degrees[v]
           /\ nE \in Nat /\ nE' \in Nat /\ nE' = nE - Cardinality(batch)
           /\ Cardinality(batch) \in Nat
           /\ Degrees \in [Nodes -> Nat] /\ Degrees' \in [Nodes -> Nat]
<1>1. TrussTyped /\ Distinct
  BY DEF KInv
<1>2. PICK N : N = Nodes /\ Graph(N, lists)
  BY <1>1, StateIs
<1>3. /\ \A v \in N : OnceEach(lists[v])
      /\ Arcs = ArcsOf(lists) /\ batch \in SUBSET ArcsOf(lists)
  BY <1>1, <1>2, GraphIs DEF Distinct, TrussTyped
<1>4. lists' = ErasedFrom(N, lists, batch)
  BY <1>2 DEF EraseBatch, ErasedFrom
<1>5. /\ Graph(N, lists')
      /\ \A v \in N : OnceEach(lists'[v]) /\ Len(lists'[v]) <= Len(lists[v])
      /\ ArcsOf(lists') = ArcsOf(lists) \ batch
  BY <1>2, <1>3, <1>4, ErasedGraph
<1>6. Nodes' = N
  BY <1>5 DEF Nodes, Graph
<1>7. Arcs' = ArcsOf(lists')
  BY DEF Arcs, ArcsOf, Places, PlacesOf, Dest, DestOf, Nodes, degree
<1>8. Distinct'
  BY <1>5, <1>6 DEF Distinct
<1>9. /\ Degrees = [v \in N |-> Len(lists[v])]
      /\ Degrees' = [v \in N |-> Len(lists'[v])]
  BY <1>2, <1>6 DEF Degrees, degree
<1>10. /\ IsFiniteSet(Arcs) /\ Cardinality(Arcs) \in Nat /\ nE = Cardinality(Arcs)
       /\ Degrees \in [N -> Nat]
  BY <1>1, <1>2, NEIs
<1>11. nE' = Cardinality(Arcs') /\ nE' \in Nat
  <2>1. IsFiniteSet(N) /\ lists' \in [N -> Seq(N)]
    BY <1>5 DEF Graph
  <2>2. nE' = SumFunctionOnSet(Degrees', N)
    BY <1>6 DEF nE
  <2>3. /\ Cardinality(ArcsOf(lists')) \in Nat
        /\ SumFunctionOnSet(Degrees', N) = Cardinality(ArcsOf(lists'))
    BY <1>5, <1>9, <2>1, SizeIs
  <2> QED BY <1>7, <2>2, <2>3
<1>12. IsFiniteSet(batch) /\ Cardinality(batch) \in Nat
  BY <1>3, <1>10, FS_Subset, FS_CardinalityType
<1>13. Cardinality(Arcs') = Cardinality(Arcs) - Cardinality(batch)
  <2>1. Arcs \cap batch = batch
    BY <1>3
  <2>2. Cardinality(Arcs \ batch) = Cardinality(Arcs) - Cardinality(Arcs \cap batch)
    BY <1>10, FS_Difference
  <2>3. Arcs' = Arcs \ batch
    BY <1>3, <1>5, <1>7
  <2> QED BY <2>1, <2>2, <2>3
<1>14. Degrees' \in [N -> Nat]
  <2>1. lists' \in [N -> Seq(N)]
    BY <1>5 DEF Graph
  <2>2. \A v \in N : Len(lists'[v]) \in Nat
    BY <2>1
  <2> QED BY <1>9, <2>2
<1>15. \A v \in N : Degrees'[v] <= Degrees[v]
  BY <1>5, <1>9
<1> QED BY <1>2, <1>3, <1>5, <1>6, <1>7, <1>8, <1>10, <1>11, <1>12, <1>13, <1>14, <1>15

\* The lists become shorter, so the old offsets stay apart.
LEMMA EraseKInv ==
    ASSUME KInv, EraseBatch
    PROVE  KInv'
<1>1. /\ TrussTyped /\ Distinct /\ BlocksApart /\ EdgesLeft /\ ActiveLeft
      /\ KRange /\ Shrinking /\ Keeping /\ Symmetry /\ LastTruss
  BY DEF KInv
<1>2. /\ UNCHANGED setting /\ phase = "decide" /\ phase' \in {"count", "decide"}
      /\ batch # {} /\ batch' = {} /\ triangles_per_edge' = NoTriangles
      /\ num_edges_remaining' = num_edges_remaining - Cardinality(batch)
      /\ UNCHANGED <<toTheEnd, max_K, offset_array, is_active>> /\ UNCHANGED history
  BY DEF EraseBatch, AfterErase
<1>3. /\ Graph(Nodes, lists) /\ Graph(Nodes, lists') /\ Nodes' = Nodes
      /\ Arcs' = Arcs \ batch /\ Distinct'
      /\ \A v \in Nodes : Degrees'[v] <= Degrees[v]
      /\ nE \in Nat /\ nE' \in Nat /\ nE' = nE - Cardinality(batch)
      /\ Cardinality(batch) \in Nat
      /\ Degrees \in [Nodes -> Nat] /\ Degrees' \in [Nodes -> Nat]
  BY EraseStep
<1>4. /\ originalNE' = originalNE /\ lockstep' = lockstep /\ tsp' = tsp
      /\ given' = given /\ misread' = misread
  BY <1>2 DEF setting, history
<1>5. originalNE \in Nat /\ num_edges_remaining \in Int /\ max_K \in Nat
  BY <1>1 DEF TrussTyped
<1>6. Arcs \in SUBSET (Nodes \X Nodes) /\ Arcs' \in SUBSET (Nodes \X Nodes)
  BY <1>3, GraphIs
<1>7. TrussTyped'
  <2>1. \E in \in Inputs : Nodes = DOMAIN in.graph /\ tsp = in.tsp /\ lockstep = in.lockstep
    BY <1>1 DEF TrussTyped
  <2>2. \E in \in Inputs : Nodes' = DOMAIN in.graph /\ tsp' = in.tsp /\ lockstep' = in.lockstep
    BY <1>3, <1>4, <2>1
  <2>3. /\ lists' \in [Nodes' -> Seq(Nodes')]
        /\ originalNE' \in Nat /\ (Nodes' = {} => originalNE' = 0)
    BY <1>1, <1>3, <1>4 DEF Graph, TrussTyped
  <2>4. num_edges_remaining' \in Int /\ max_K' \in Nat
    BY <1>2, <1>3, <1>5
  <2>5. /\ toTheEnd' \in BOOLEAN /\ misread' \in BOOLEAN
        /\ offset_array' \in [Nodes' -> Nat] /\ is_active' \in [Nodes' -> BOOLEAN]
        /\ given' \in SUBSET (Nodes' \X Nodes')
    BY <1>1, <1>2, <1>3, <1>4 DEF TrussTyped
  <2>6. DOMAIN triangles_per_edge' = 0 .. originalNE' - 1
    BY <1>2, <1>4 DEF NoTriangles
  <2>7. phase' \in {"ready", "count", "collect", "decide"} /\ batch' \in SUBSET Arcs'
    BY <1>2
  <2> QED BY <2>2, <2>3, <2>4, <2>5, <2>6, <2>7 DEF TrussTyped
<1>8. BlocksApart'
  <2>1. Blocks(Nodes, Degrees, offset_array, originalNE)
    BY <1>1 DEF BlocksApart
  <2>2. ASSUME NEW v \in Nodes
        PROVE  /\ offset_array[v] + Degrees'[v] <= originalNE
               /\ \A w \in Nodes : v < w => offset_array[v] + Degrees'[v] <= offset_array[w]
    <3>1. PICK o \in Nat, d \in Nat, c \in Nat :
             o = offset_array[v] /\ d = Degrees[v] /\ c = Degrees'[v] /\ c <= d
      BY <1>3, <2>1 DEF Blocks
    <3>2. /\ o + d <= originalNE
          /\ \A w \in Nodes : offset_array[w] \in Nat /\ (v < w => o + d <= offset_array[w])
      BY <2>1, <3>1 DEF Blocks
    <3>3. o + c <= originalNE
      BY <1>5, <3>1, <3>2
    <3>4. ASSUME NEW w \in Nodes, v < w PROVE o + c <= offset_array[w]
      BY <3>1, <3>2, <3>4
    <3> QED BY <3>1, <3>3, <3>4
  <2>3. Blocks(Nodes, Degrees', offset_array, originalNE)
    BY <2>1, <2>2 DEF Blocks
  <2> QED BY <1>2, <1>3, <1>4, <2>3 DEF BlocksApart
<1>9. EdgesLeft'
  <2>1. nE <= num_edges_remaining /\ num_edges_remaining <= originalNE
    BY <1>1 DEF EdgesLeft
  <2> QED BY <1>2, <1>3, <1>4, <1>5, <2>1 DEF EdgesLeft
<1>10. ActiveLeft'
  <2>1. \A v \in Nodes : degree(v) = Degrees[v] /\ degree(v)' = Degrees'[v]
    BY <1>3 DEF Degrees, degree
  <2>2. ASSUME NEW v \in Nodes PROVE is_active[v] \/ degree(v)' = 0
    <3>1. is_active[v] \/ degree(v) = 0
      BY <1>1, <1>2 DEF ActiveLeft
    <3>2. Degrees[v] = 0 => Degrees'[v] = 0
      BY <1>3
    <3> QED BY <2>1, <3>1, <3>2
  <2> QED BY <1>2, <1>3, <2>2 DEF ActiveLeft
<1>11. BatchEmpty' /\ KRange' /\ Shrinking' /\ Counting' /\ TrussExact'
  BY <1>1, <1>2, <1>3, <1>4 DEF BatchEmpty, KRange, Shrinking, Counting, TrussExact
<1>12. Keeping'
  <2> SUFFICES ASSUME ~misread, NEW S \in Trusses(Nodes, given, max_K)
               PROVE  S \subseteq Undirected(Arcs')
    BY <1>2, <1>3, <1>4 DEF Keeping
  <2>1. S \subseteq Undirected(Arcs) /\ \A e \in batch : {e[1], e[2]} \notin S
    BY <1>1, <1>2 DEF Keeping
  <2> SUFFICES ASSUME NEW x \in S PROVE x \in Undirected(Arcs')
    OBVIOUS
  <2>2. PICK a, b : x = {a, b} /\ <<a, b>> \in Arcs
    BY <1>6, <2>1, UndirectedIs
  <2>3. <<b, a>> \in Arcs
    BY <1>6, <2>1, <2>2, UndirectedIs
  <2>4. ASSUME NEW e \in batch, e = <<a, b>> \/ e = <<b, a>> PROVE FALSE
    <3>1. {e[1], e[2]} = x
      BY <2>2, <2>4
    <3> QED BY <2>1, <3>1
  <2>5. <<a, b>> \in Arcs' /\ <<b, a>> \in Arcs'
    BY <1>3, <2>2, <2>3, <2>4
  <2> QED BY <1>6, <2>2, <2>5, UndirectedIs
<1>13. Symmetry'
  <2> SUFFICES ASSUME Fair
               PROVE  /\ Symmetric(Arcs') /\ Symmetric(batch')
                      /\ phase' = "decide" => \A p \in Places' : Exact(p)' >= max_K' - 2
    BY <1>4 DEF Symmetry, Fair
  <2>1. Symmetric(Arcs) /\ Symmetric(batch)
    BY <1>1, <1>2 DEF Symmetry
  <2>2. Symmetric(batch')
    BY <1>2 DEF Symmetric
  <2>3. Symmetric(Arcs')
    <3> SUFFICES ASSUME NEW e \in Arcs' PROVE <<e[2], e[1]>> \in Arcs'
      BY DEF Symmetric
    <3>1. e \in Arcs /\ e \notin batch /\ <<e[2], e[1]>> \in Arcs /\ e = <<e[1], e[2]>>
      BY <1>3, <1>6, <2>1 DEF Symmetric
    <3>2. <<e[2], e[1]>> \notin batch
      <4> SUFFICES ASSUME NEW d \in batch, d = <<e[2], e[1]>> PROVE FALSE
        OBVIOUS
      <4>1. d[1] = e[2] /\ d[2] = e[1] /\ <<d[2], d[1]>> \in batch
        BY <2>1 DEF Symmetric
      <4> QED BY <3>1, <4>1
    <3> QED BY <1>3, <3>1, <3>2
  <2>4. ASSUME phase' = "decide" PROVE Places' = {}
    <3>1. ASSUME NEW v \in Nodes PROVE lists'[v] = <<>>
      BY <1>3, <2>4 DEF EraseBatch, AfterErase
    <3>2. ASSUME NEW p \in PlacesOf(lists') PROVE FALSE
      <4>1. p[1] \in Nodes /\ Len(lists'[p[1]]) > 0
        BY <1>3, PlacesAre DEF Graph
      <4>2. lists'[p[1]] = <<>>
        BY <3>1, <4>1
      <4> QED BY <4>1, <4>2
    <3>3. Places' = PlacesOf(lists')
      BY DEF Places, PlacesOf, Nodes, degree
    <3> QED BY <3>2, <3>3
  <2> QED BY <2>2, <2>3, <2>4
<1>14. LastTruss'
  <2>1. num_edges_remaining > nE => num_edges_remaining' > nE'
    BY <1>2, <1>3, <1>5
  <2> QED BY <1>1, <1>2, <1>3, <1>4, <2>1 DEF LastTruss, Fair
<1> QED BY <1>3, <1>7, <1>8, <1>9, <1>10, <1>11, <1>12, <1>13, <1>14 DEF KInv

-----------------------------------------------------------------------------
(* K-truss: the theorems.                                                  *)

\* The invariant of every call, in any order of calls.
LEMMA TrussInvariance == TrussSpec => []KInv
<1>1. ASSUME KInv, [TrussNext]_trussVars PROVE KInv'
  BY <1>1, ResetKInv, StutterKInv, CallKInv, CountKInv, FindKInv, NextKInv, ReturnKInv, EraseKInv
     DEF TrussNext, Step
<1> QED BY InitKInv, <1>1, PTL DEF TrussSpec

\* TrussKept: as long as no unsorted list was merged, no edge of a k-truss of
\* the graph the call began with is erased, whether or not the threads of a
\* warp run in lockstep (findTrussOfK of KTruss.cu).
THEOREM TrussIsKept == TrussSpec => []TrussKept
<1>1. ASSUME KInv PROVE TrussKept
  <2> SUFFICES ASSUME phase = "count", ~misread, NEW S \in SUBSET Undirected(given),
                      IsTruss(S, max_K)
               PROVE  S \subseteq Undirected(Arcs)
    BY DEF TrussKept
  <2>1. TrussIn(Nodes, S, max_K)
    BY DEF IsTruss, TrussIn
  <2> QED BY <1>1, <2>1 DEF KInv, Keeping, Trusses
<1> QED BY <1>1, TrussInvariance, PTL

\* TrussExact: in lockstep, and with every edge in the lists of both its ends,
\* runForK() leaves the largest k-truss, and run() stops at the first k that
\* has none (KTruss::run, KTruss::runForK).
THEOREM TrussIsExact == TrussSpec => []TrussExact
<1>1. KInv => TrussExact
  BY DEF KInv
<1> QED BY <1>1, TrussInvariance, PTL

\* EdgesCounted: within a call num_edges_remaining falls by as many edges as
\* Hornet loses, whatever was counted and collected.
THEOREM EdgesAreCounted == TrussSpec => EdgesCounted
<1>1. ASSUME KInv, [TrussNext]_trussVars
      PROVE  [\/ phase = "ready"
              \/ num_edges_remaining' - num_edges_remaining = nE' - nE]_trussVars
  <2>1. num_edges_remaining \in Int /\ nE \in Nat
    BY <1>1, StateIs, NoneLeft DEF KInv, TrussTyped
  <2>2. CASE CountTriangles \/ FindUnderK \/ NextK \/ Return
    <3>1. lists' = lists /\ num_edges_remaining' = num_edges_remaining
      BY <2>2 DEF CountTriangles, FindUnderK, NextK, Return
    <3>2. nE' = nE
      BY <3>1, ListsStay
    <3> QED BY <2>1, <3>1, <3>2
  <2>3. CASE EraseBatch
    <3>1. nE' = nE - Cardinality(batch) /\ Cardinality(batch) \in Nat
      BY <1>1, <2>3, EraseStep
    <3>2. num_edges_remaining' = num_edges_remaining - Cardinality(batch)
      BY <2>3 DEF EraseBatch
    <3> QED BY <2>1, <3>1, <3>2
  <2>4. CASE TrussReset \/ CreateOffSetArray \/ TrussRun \/ RunForK
    BY <2>4 DEF TrussReset, CreateOffSetArray, TrussRun, RunForK, Call
  <2>5. CASE UNCHANGED trussVars
    BY <2>5
  <2> QED BY <1>1, <2>2, <2>3, <2>4, <2>5 DEF TrussNext, Step
<1> QED BY <1>1, TrussInvariance, PTL DEF TrussSpec, EdgesCounted
=============================================================================
