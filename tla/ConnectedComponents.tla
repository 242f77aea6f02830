------------------------ MODULE ConnectedComponents ------------------------
(***************************************************************************)
(* Connected components of an undirected graph (CC).  A traversal from a   *)
(* vertex of largest degree gives its component the first colour; every    *)
(* other vertex gets a colour of its own, and a kernel over the pairs of   *)
(* adjacent other vertices is repeated that makes the smaller colour of a  *)
(* pair the larger one, until no thread finds a difference.  No operator   *)
(* uses an atomic: a thread reads colours in one step and writes one in a  *)
(* later step.                                                             *)
(***************************************************************************)
EXTENDS Integers, FiniteSets

CONSTANTS nV,
          Graphs,       \* how many edges u -> v there are, and v -> u
          NO_COLOR

Vertices == 0 .. nV - 1
Edges    == Vertices \X Vertices
Pairs    == {e \in Edges : e[1] > e[2]}

FIRST_COLOR == 0

ASSUME CCAssumption ==
    /\ nV \in Nat \ {0}
    /\ \A g \in Graphs : /\ g \in [Edges -> Nat]
                         /\ \A u, v \in Vertices : g[<<u, v>>] = g[<<v, u>>]
    /\ NO_COLOR \notin Nat

VARIABLES arcs,                     \* the graph, which does not change
          pc,                       \* where run() is
          colors,                   \* d_colors
          input, output, size,      \* queue
          pairIn, pairOut, pairs,   \* queue_pair
          value, device, outdated,  \* hd_continue
          visiting,   \* visiting[u, v]: threads before their test
          marking,    \* marking[v]: threads that found v without a colour
          reading,    \* positions of the pair queue whose threads did not start
          writing     \* threads of the pair queue that have read a difference

graphVars == <<input, output, size>>
pairVars  == <<pairIn, pairOut, pairs>>
flagVars  == <<value, device, outdated>>
vars == <<arcs, pc, colors, graphVars, pairVars, flagVars, visiting, marking,
          reading, writing>>

Queue == INSTANCE TwoLevelQueue WITH Items <- Vertices, MaxItems <- 2 * nV
PairQueue == INSTANCE TwoLevelQueue
               WITH Items <- Pairs, MaxItems <- 2 * nV,
                    input <- pairIn, output <- pairOut, size <- pairs
Continue == INSTANCE HostDeviceVar WITH Values <- BOOLEAN

NoThread == [e \in Edges |-> 0]
Nobody   == [v \in Vertices |-> 0]

\* hornet.max_degree_id(): the first vertex of largest degree.
OutEdges(v) == UNION {{w} \X (1 .. arcs[<<v, w>>]) : w \in Vertices}
Degree(v)   == Cardinality(OutEdges(v))
MaxDegreeId == CHOOSE v \in Vertices :
                 \A w \in Vertices : /\ Degree(w) <= Degree(v)
                                     /\ w < v => Degree(w) < Degree(v)

Init == /\ arcs \in Graphs
        /\ pc = "ready"
        /\ colors = [v \in Vertices |-> NO_COLOR]
        /\ Queue!Init
        /\ PairQueue!Init
        /\ Continue!Init(TRUE)
        /\ visiting = NoThread
        /\ marking = Nobody
        /\ reading = {}
        /\ writing = {}

\* reset(); the pair queue is not cleared.
Reset == /\ pc = "done"
         /\ pc' = "ready"
         /\ Queue!Clear
         /\ colors' = [v \in Vertices |-> NO_COLOR]
         /\ UNCHANGED <<arcs, pairVars, flagVars, visiting, marking, reading, writing>>

-----------------------------------------------------------------------------
(* run(), first part: the component of a vertex of largest degree          *)

Start == /\ pc = "ready"
         /\ pc' = "giant"
         /\ colors' = [colors EXCEPT ![MaxDegreeId] = FIRST_COLOR]
         /\ Queue!HostInsert(MaxDegreeId)
         /\ UNCHANGED <<arcs, pairVars, flagVars, visiting, marking, reading, writing>>

LaunchGiant == /\ pc = "giant"
               /\ size > 0
               /\ pc' = "giantKernel"
               /\ visiting' = [e \in Edges |-> input[e[1]] * arcs[e]]
               /\ UNCHANGED <<arcs, colors, graphVars, pairVars, flagVars,
                              marking, reading, writing>>

\* GiantCCOperator tests the colour of the target ...
TestColor(e) ==
    /\ visiting[e] > 0
    /\ visiting' = [visiting EXCEPT ![e] = @ - 1]
    /\ marking' = IF colors[e[2]] = NO_COLOR
                  THEN [marking EXCEPT ![e[2]] = @ + 1] ELSE marking
    /\ UNCHANGED <<arcs, pc, colors, graphVars, pairVars, flagVars, reading, writing>>

\* ... and sets it later, whatever it is by then.
Mark(v) ==
    /\ marking[v] > 0
    /\ marking' = [marking EXCEPT ![v] = @ - 1]
    /\ colors' = [colors EXCEPT ![v] = FIRST_COLOR]
    /\ Queue!DeviceInsert(v)
    /\ UNCHANGED <<arcs, pc, pairVars, flagVars, visiting, reading, writing>>

NextGiant == /\ pc = "giantKernel"
             /\ visiting = NoThread
             /\ marking = Nobody
             /\ pc' = "giant"
             /\ Queue!Swap
             /\ UNCHANGED <<arcs, colors, pairVars, flagVars, visiting, marking,
                            reading, writing>>

-----------------------------------------------------------------------------
(* Second part: the queue of the other vertices, and of their pairs        *)

\* The identifiers as colours.
CollectVertices_Unshifted ==
    /\ pc = "giant"
    /\ size = 0
    /\ pc' = "pairs"
    /\ Queue!AppendAndSwap([v \in Vertices |-> IF colors[v] = NO_COLOR THEN 1 ELSE 0])
    /\ colors' = [v \in Vertices |-> IF colors[v] = NO_COLOR THEN v ELSE colors[v]]
    /\ UNCHANGED <<arcs, pairVars, flagVars, visiting, marking, reading, writing>>

\* BuildVertexEnqueue: every thread has a vertex of its own.
CollectVertices ==
    /\ pc = "giant"
    /\ size = 0
    /\ pc' = "pairs"
    /\ Queue!AppendAndSwap([v \in Vertices |-> IF colors[v] = NO_COLOR THEN 1 ELSE 0])
    /\ colors' = [v \in Vertices |-> IF colors[v] = NO_COLOR THEN v + 1 ELSE colors[v]]
    /\ UNCHANGED <<arcs, pairVars, flagVars, visiting, marking, reading, writing>>

NoOthers == /\ pc = "pairs"
            /\ size = 0
            /\ pc' = "done"
            /\ UNCHANGED <<arcs, colors, graphVars, pairVars, flagVars, visiting,
                           marking, reading, writing>>

\* BuildPairQueue: the threads only append.
CollectPairs ==
    /\ pc = "pairs"
    /\ size > 0
    /\ pc' = "color"
    /\ PairQueue!AppendAndSwap([p \in Pairs |-> input[p[1]] * arcs[p]])
    /\ UNCHANGED <<arcs, colors, graphVars, flagVars, visiting, marking, reading,
                   writing>>

-----------------------------------------------------------------------------
(* Third part: the colouring loop                                          *)

\* A loop that does not clear its flag.
LaunchColoring_Unreset == /\ pc = "color"
                          /\ pairs > 0
                          /\ pc' = "colorKernel"
                          /\ Continue!AssignAndLaunch(value)
                          /\ reading' = PairQueue!Slots(pairIn)
                          /\ UNCHANGED <<arcs, colors, graphVars, pairVars, visiting,
                                         marking, writing>>

LaunchColoring == /\ pc = "color"
                  /\ pairs > 0
                  /\ pc' = "colorKernel"
                  /\ Continue!AssignAndLaunch(FALSE)
                  /\ reading' = PairQueue!Slots(pairIn)
                  /\ UNCHANGED <<arcs, colors, graphVars, pairVars, visiting,
                                 marking, writing>>

\* forAll returns at once when the queue is empty.
SkipColoring == /\ pc = "color"
                /\ pairs = 0
                /\ pc' = "continue"
                /\ Continue!AssignAndSkip(FALSE)
                /\ UNCHANGED <<arcs, colors, graphVars, pairVars, visiting,
                               marking, reading, writing>>

\* The two assignments a thread of a position may come to.
Choices(slot) == {[slot |-> slot, from |-> slot[1][1], to |-> slot[1][2],
                   color |-> colors[slot[1][1]]],
                  [slot |-> slot, from |-> slot[1][2], to |-> slot[1][1],
                   color |-> colors[slot[1][2]]]}

Differing_Reversed(slot) == {w \in Choices(slot) : w.color < colors[w.to]}

\* ColoringOperator: the thread reads both colours ...
Differing(slot) == {w \in Choices(slot) : w.color > colors[w.to]}

ReadColors(slot) ==
    /\ slot \in reading
    /\ reading' = reading \ {slot}
    /\ writing' = writing \cup Differing(slot)
    /\ UNCHANGED <<arcs, pc, colors, graphVars, pairVars, flagVars, visiting, marking>>

\* A thread that does not tell the host.
WriteColor_Silent(w) ==
    /\ w \in writing
    /\ writing' = writing \ {w}
    /\ colors' = [colors EXCEPT ![w.to] = w.color]
    /\ UNCHANGED <<arcs, pc, graphVars, pairVars, flagVars, visiting, marking, reading>>

\* ... and writes the larger one: the value it has read or, if the compiler
\* loads it once more, the colour that vertex has by now.
WriteColor(w) ==
    /\ w \in writing
    /\ writing' = writing \ {w}
    /\ \E c \in {w.color, colors[w.from]} : colors' = [colors EXCEPT ![w.to] = c]
    /\ Continue!DeviceAssign(TRUE)
    /\ UNCHANGED <<arcs, pc, graphVars, pairVars, visiting, marking, reading>>

EndColoring == /\ pc = "colorKernel"
               /\ reading = {}
               /\ writing = {}
               /\ pc' = "continue"
               /\ UNCHANGED <<arcs, colors, graphVars, pairVars, flagVars, visiting,
                              marking, reading, writing>>

\* while (hd_continue)
TestContinue == /\ pc = "continue"
                /\ pc' = IF Continue!Current THEN "color" ELSE "done"
                /\ Continue!HostRead
                /\ UNCHANGED <<arcs, colors, graphVars, pairVars, visiting, marking,
                               reading, writing>>

-----------------------------------------------------------------------------

Run == \/ LaunchGiant
       \/ \E e \in Edges : TestColor(e)
       \/ \E v \in Vertices : Mark(v)
       \/ NextGiant
       \/ CollectVertices \/ NoOthers \/ CollectPairs
       \/ LaunchColoring \/ SkipColoring
       \/ \E slot \in reading : ReadColors(slot)
       \/ \E w \in writing : WriteColor(w)
       \/ EndColoring
       \/ TestContinue

Next == Reset \/ Start \/ Run

\* A launched kernel runs to its end and the host thread goes on after it.
Spec == Init /\ [][Next]_vars /\ WF_vars(Run)

-----------------------------------------------------------------------------
(* Properties                                                              *)

Color == 0 .. nV

\* Colours, queue buffers, flag and threads keep their types.
TypeOK ==
    /\ arcs \in [Edges -> Nat]
    /\ pc \in {"ready", "giant", "giantKernel", "pairs", "color", "colorKernel",
               "continue", "done"}
    /\ colors \in [Vertices -> Color \cup {NO_COLOR}]
    /\ input \in [Vertices -> Nat] /\ output \in [Vertices -> Nat] /\ size \in Nat
    /\ pairIn \in [Pairs -> Nat] /\ pairOut \in [Pairs -> Nat] /\ pairs \in Nat
    /\ value \in BOOLEAN /\ device \in BOOLEAN /\ outdated \in BOOLEAN
    /\ visiting \in [Edges -> Nat]
    /\ marking \in [Vertices -> Nat]
    /\ reading \subseteq Pairs \X (Nat \ {0})
    /\ writing \subseteq [slot : Pairs \X (Nat \ {0}), from : Vertices,
                          to : Vertices, color : Color]

\* Two vertices are connected if no set that edges do not leave separates them.
Closed(S) == \A u \in S, v \in Vertices : arcs[<<u, v>>] > 0 => v \in S
Connected(u, v) == \A S \in SUBSET Vertices : u \in S /\ Closed(S) => v \in S

Origin(color) == IF color = FIRST_COLOR THEN MaxDegreeId ELSE color - 1

\* A colour never leaves its component, neither in a vertex nor in a thread that
\* is about to write it: it is the colour of a vertex connected to this one.
ColorsFromComponent ==
    /\ \A v \in Vertices : colors[v] # NO_COLOR => Connected(Origin(colors[v]), v)
    /\ \A w \in writing : Connected(Origin(w.color), w.to)

\* While colours overwrite each other, the largest of a component is not lost:
\* the vertex it comes from keeps it.
LargestKept ==
    pc \in {"color", "colorKernel", "continue", "done"} =>
      \A v \in Vertices :
        (\A u \in Vertices : Connected(v, u) => colors[u] # FIRST_COLOR /\ u <= v)
          => colors[v] = v + 1

\* A finished run has given two vertices the same colour exactly if they are
\* connected.
ComponentsExact ==
    pc = "done" => \A u, v \in Vertices : (colors[u] = colors[v]) = Connected(u, v)

\* Other vertices, but no two of them adjacent: nothing to launch.
Others == {v \in Vertices : ~Connected(MaxDegreeId, v)}
OthersIsolated == /\ Others # {}
                  /\ \A u, v \in Others : u # v => arcs[<<u, v>>] = 0

\* run() returns: the vertices of the first component are enqueued only finitely
\* often, and the colouring loop, if it launches a kernel at all, stops although
\* updates overwrite each other.
RunReturns == pc = "giant" /\ ~OthersIsolated ~> pc = "done"

\* What the test of CC expects: run() returns for every undirected graph.
RunAlwaysReturns == pc = "giant" ~> pc = "done"
=============================================================================
