------------------------ MODULE ShortestPaths_proofs ------------------------
(***************************************************************************)
(* Theorems about ShortestPaths, for every finite set of vertices and every *)
(* set of graphs: types, that no edge is forgotten although threads use    *)
(* distances that are lowered behind their back, and that when a run has   *)
(* ended no edge can lower a distance any more.                            *)
(***************************************************************************)
EXTENDS ShortestPaths, Enumeration

Edge == Vertices \X Vertices \X Nat

Nobody == [v \in Vertices |-> 0]

\* A device counter is zero exactly if nothing is in its buffer.
LEMMA CountIsZero == ASSUME NEW b \in [Vertices -> Nat]
                     PROVE  /\ Queue!Count(b) \in Nat
                            /\ Queue!Count(b) = 0 <=> b = Nobody
<1>1. Queue!Count(b) = Cardinality(Filled(Vertices, b))
  BY DEF Queue!Count, Queue!Slots, Queue!Cardinality, Cardinality, Filled
<1> QED BY <1>1, FilledIsZero, SSSPAssumption DEF Nobody

-----------------------------------------------------------------------------
(* The inductive invariant                                                 *)

\* Between kernels no thread is left and nothing waits in the output buffer; a
\* search that has not begun has reached nothing.
Quiet == /\ pc # "kernel" => starting = {} /\ relaxing = {} /\ output = Nobody
         /\ pc = "loop" => size = Queue!Count(input)
         /\ pc = "ready" => input = Nobody /\ \A v \in Vertices : distances[v] = INF

\* A run ends with the distance zero of its source, and with no edge that could
\* lower the distance of its target.
Settled == /\ pc # "ready" => distances[sssp_source] = 0
           /\ pc = "done" => \A e \in arcs : ~Unrelaxed(e)

IInv == TypeOK /\ Quiet /\ NothingForgotten /\ Settled

LEMMA InitIInv == Init => IInv
<1> SUFFICES ASSUME Init PROVE IInv
  OBVIOUS
<1> USE SSSPAssumption DEF Init, Queue!Init, Queue!Empty, Unreached
<1>1. TypeOK
  <2>1. sssp_source \in Vertices
    OBVIOUS
  <2> QED BY <2>1 DEF TypeOK
<1>2. Quiet
  BY DEF Quiet, Nobody
<1>3. \A e \in arcs : ~Unrelaxed(e)
  BY DEF Unrelaxed
<1> QED BY <1>1, <1>2, <1>3 DEF IInv, NothingForgotten, Settled

-----------------------------------------------------------------------------
(* Types                                                                   *)

\* A thread has an edge; what it computes from a distance is a number.
LEMMA ThreadTypes ==
    ASSUME TypeOK
    PROVE  /\ \A t \in starting : /\ t[1] \in Edge /\ t[1][1] \in Vertices
                                  /\ t[1][2] \in Vertices /\ t[1][3] \in Nat
                                  /\ distances[t[1][1]] + t[1][3] \in Nat
           /\ \A r \in relaxing : /\ r.thread[1] \in Edge /\ Target(r) \in Vertices
                                  /\ r.tentative \in Nat
<1>1. ASSUME NEW t \in starting
      PROVE  /\ t[1] \in Edge /\ t[1][1] \in Vertices
             /\ t[1][2] \in Vertices /\ t[1][3] \in Nat
             /\ distances[t[1][1]] + t[1][3] \in Nat
  <2>1. t \in (Vertices \X Vertices \X Nat) \X (Nat \ {0})
    BY DEF TypeOK, Threads
  <2>2. t[1] \in Edge
    BY <2>1 DEF Edge
  <2>3. t[1][1] \in Vertices /\ t[1][2] \in Vertices /\ t[1][3] \in Nat
    BY <2>2 DEF Edge
  <2>4. distances[t[1][1]] \in Nat
    BY <2>3 DEF TypeOK
  <2> QED BY <2>2, <2>3, <2>4
<1>2. ASSUME NEW r \in relaxing
      PROVE  r.thread[1] \in Edge /\ Target(r) \in Vertices /\ r.tentative \in Nat
  <2>1. r \in [thread : Threads, tentative : Nat]
    BY DEF TypeOK
  <2>2. r.thread \in Threads /\ r.tentative \in Nat
    BY <2>1
  <2>3. r.thread[1] \in Edge
    BY <2>2 DEF Threads, Edge
  <2>4. r.thread[1][2] \in Vertices
    BY <2>3 DEF Edge
  <2> QED BY <2>2, <2>3, <2>4 DEF Target
<1> QED BY <1>1, <1>2

LEMMA TypeStep == TypeOK /\ [Next]_vars => TypeOK'
<1> SUFFICES ASSUME TypeOK, [Next]_vars PROVE TypeOK'
  OBVIOUS
<1> USE SSSPAssumption DEF TypeOK, queue
<1>0. \A b \in [Vertices -> Nat] : Queue!Count(b) \in Nat
  BY CountIsZero
<1>1. CASE Reset
  BY <1>1 DEF Reset, Queue!Clear, Queue!Empty, Unreached
<1>2. CASE \E s \in Vertices : SetParameters(s)
  BY <1>2, <1>0 DEF SetParameters, Queue!HostInsert, Queue!With
<1>3. CASE Launch
  <2>1. starting' \subseteq Threads
    <3>1. ASSUME NEW t \in starting' PROVE t \in Threads
      <4>1. PICK e \in arcs : t \in {e} \X (1 .. input[e[1]])
        BY <1>3 DEF Launch
      <4>2. e \in Vertices \X Vertices \X Nat
        OBVIOUS
      <4>3. input[e[1]] \in Nat
        BY <4>2
      <4>4. 1 .. input[e[1]] \subseteq Nat \ {0}
        BY <4>3
      <4> QED BY <4>1, <4>2, <4>4 DEF Threads
    <3> QED BY <3>1
  <2> QED BY <1>3, <2>1 DEF Launch
<1>4. CASE \E t \in starting : Load(t)
  <2>1. PICK t \in starting : Load(t)
    BY <1>4
  <2>2. [thread |-> t, tentative |-> distances[t[1][1]] + t[1][3]]
          \in [thread : Threads, tentative : Nat]
    BY ThreadTypes
  <2> QED BY <2>1, <2>2 DEF Load
<1>5. CASE \E r \in relaxing : Relax(r)
  <2>1. PICK r \in relaxing : Relax(r)
    BY <1>5
  <2>2. Target(r) \in Vertices /\ r.tentative \in Nat
    BY ThreadTypes
  <2>3. CASE Lower(r)
    BY <2>1, <2>2, <2>3 DEF Relax, Lower, Queue!DeviceInsert, Queue!With
  <2>4. CASE Keep(r)
    BY <2>1, <2>4 DEF Relax, Keep
  <2> QED BY <2>1, <2>3, <2>4 DEF Relax
<1>6. CASE NextRound
  BY <1>6, <1>0 DEF NextRound, Queue!Swap, Queue!Empty
<1>7. CASE Finish
  BY <1>7 DEF Finish
<1>8. CASE UNCHANGED vars
  BY <1>8 DEF vars
<1> QED BY <1>1, <1>2, <1>3, <1>4, <1>5, <1>6, <1>7, <1>8 DEF Next, Run

-----------------------------------------------------------------------------
(* The other parts, action by action                                       *)

Rest == Quiet /\ NothingForgotten /\ Settled

\* An edge is covered when a later step is bound to relax it.
Covered(e) == \/ output[e[1]] > 0
              \/ pc = "loop" /\ input[e[1]] > 0
              \/ \E t \in starting : t[1] = e
              \/ \E r \in relaxing : /\ r.thread[1] = e
                                     /\ r.tentative <= distances[e[1]] + e[3]

LEMMA ForgottenDef == NothingForgotten <=>
                         (pc # "done" => \A e \in arcs : Unrelaxed(e) => Covered(e))
BY DEF NothingForgotten, Covered

LEMMA EdgeTypes == ASSUME TypeOK, NEW e \in arcs
                   PROVE  /\ e[1] \in Vertices /\ e[2] \in Vertices /\ e[3] \in Nat
                          /\ distances[e[1]] \in Nat /\ distances[e[2]] \in Nat
<1>1. e \in Vertices \X Vertices \X Nat
  BY DEF TypeOK
<1>2. e[1] \in Vertices /\ e[2] \in Vertices /\ e[3] \in Nat
  BY <1>1
<1> QED BY <1>2 DEF TypeOK

LEMMA ResetStep == IInv /\ Reset => Rest'
<1> SUFFICES ASSUME IInv, Reset PROVE Rest'
  OBVIOUS
<1> USE SSSPAssumption DEF IInv, Reset, Queue!Clear, Queue!Empty, Unreached
<1>1. \A v \in Vertices : distances'[v] = INF
  OBVIOUS
<1>2. Quiet'
  BY <1>1 DEF Quiet, Nobody
<1>3. \A e \in arcs' : ~Unrelaxed(e)'
  BY <1>1, EdgeTypes DEF Unrelaxed
<1> QED BY <1>2, <1>3 DEF Rest, NothingForgotten, Settled

LEMMA SetStep == ASSUME IInv, NEW s \in Vertices, SetParameters(s) PROVE Rest'
<1> USE SSSPAssumption DEF IInv, SetParameters, Queue!HostInsert, Queue!With
<1>1. \A v \in Vertices : distances'[v] = IF v = s THEN 0 ELSE INF
  BY DEF TypeOK, Quiet
<1>2. \A v \in Vertices : input'[v] = IF v = s THEN 1 ELSE 0
  BY DEF TypeOK, Quiet, Nobody
<1>3. Quiet'
  <2>1. Queue!Count(input') = Queue!Count(input) + 1
    <3>1. input \in [Vertices -> Nat]
      BY DEF TypeOK
    <3>2. \A c : Queue!Count(c) = Cardinality(Filled(Vertices, c))
      BY DEF Queue!Count, Queue!Slots, Queue!Cardinality, Cardinality, Filled
    <3> QED BY <3>1, <3>2, FilledByOne
  <2> QED BY <2>1 DEF Quiet
<1>4. \A e \in arcs' : Unrelaxed(e)' => Covered(e)'
  <2> SUFFICES ASSUME NEW e \in arcs, Unrelaxed(e)' PROVE Covered(e)'
    OBVIOUS
  <2>1. e[1] = s
    BY <1>1, EdgeTypes DEF Unrelaxed
  <2> QED BY <2>1, <1>2 DEF Covered
<1>5. sssp_source' = s /\ distances'[s] = 0 /\ pc' = "loop"
  BY <1>1
<1> QED BY <1>3, <1>4, <1>5 DEF Rest, NothingForgotten, Covered, Settled

LEMMA LaunchStep == IInv /\ Launch => Rest'
<1> SUFFICES ASSUME IInv, Launch PROVE Rest'
  OBVIOUS
<1> USE DEF IInv, Launch, queue
<1>1. Quiet'
  BY DEF Quiet
<1>2. \A e \in arcs' : Unrelaxed(e)' => Covered(e)'
  <2> SUFFICES ASSUME NEW e \in arcs, Unrelaxed(e) PROVE Covered(e)'
    BY DEF Unrelaxed
  <2>1. Covered(e) /\ pc = "loop" /\ starting = {} /\ relaxing = {} /\ output = Nobody
    BY ForgottenDef DEF Quiet
  <2>2. input[e[1]] > 0
    BY <2>1, EdgeTypes DEF Covered, Nobody
  <2>3. 1 \in 1 .. input[e[1]]
    BY <2>2, EdgeTypes DEF TypeOK
  <2>4. <<e, 1>> \in starting'
    <3>1. <<e, 1>> \in {e} \X (1 .. input[e[1]])
      BY <2>3
    <3> QED BY <3>1
  <2>5. <<e, 1>>[1] = e
    OBVIOUS
  <2> QED BY <2>4, <2>5 DEF Covered
<1> QED BY <1>1, <1>2 DEF Rest, NothingForgotten, Covered, Settled

LEMMA LoadStep == ASSUME IInv, NEW t \in starting, Load(t) PROVE Rest'
<1> USE DEF IInv, Load, queue
<1>1. pc = "kernel" /\ pc' = "kernel"
  BY DEF Quiet
<1>2. \A e \in arcs' : Unrelaxed(e)' => Covered(e)'
  <2> SUFFICES ASSUME NEW e \in arcs, Unrelaxed(e) PROVE Covered(e)'
    BY DEF Unrelaxed
  <2>1. Covered(e)
    BY <1>1, ForgottenDef
  <2>2. CASE t[1] = e
    <3> DEFINE r == [thread |-> t, tentative |-> distances[t[1][1]] + t[1][3]]
    <3>1. r \in relaxing' /\ r.thread[1] = e /\ r.tentative = distances'[e[1]] + e[3]
      BY <2>2
    <3>2. distances'[e[1]] + e[3] \in Nat
      BY EdgeTypes
    <3>3. r.tentative <= distances'[e[1]] + e[3]
      BY <3>1, <3>2
    <3> HIDE DEF r
    <3> QED BY <3>1, <3>3 DEF Covered
  <2>3. CASE t[1] # e
    BY <2>1, <2>3 DEF Covered
  <2> QED BY <2>2, <2>3
<1> QED BY <1>1, <1>2 DEF Rest, Quiet, NothingForgotten, Covered, Settled

\* An edge whose last thread keeps the distance as it is needs no cover.
LEMMA KeepStep == ASSUME IInv, NEW r \in relaxing, Relax(r), Keep(r) PROVE Rest'
<1> USE DEF IInv, Relax, Keep, queue
<1>1. pc = "kernel" /\ pc' = "kernel"
  BY DEF Quiet
<1>2. \A e \in arcs' : Unrelaxed(e)' => Covered(e)'
  <2> SUFFICES ASSUME NEW e \in arcs, Unrelaxed(e) PROVE Covered(e)'
    BY DEF Unrelaxed
  <2>1. Covered(e)
    BY <1>1, ForgottenDef
  <2>2. ~(r.thread[1] = e /\ r.tentative <= distances[e[1]] + e[3])
    <3>1. SUFFICES ASSUME r.thread[1] = e, r.tentative <= distances[e[1]] + e[3]
                   PROVE  FALSE
      OBVIOUS
    <3>2. distances[e[2]] <= r.tentative /\ r.tentative \in Nat
      BY <3>1, ThreadTypes DEF Target
    <3>3. distances[e[1]] + e[3] < distances[e[2]]
      BY DEF Unrelaxed
    <3> QED BY <3>1, <3>2, <3>3, EdgeTypes
  <2> QED BY <2>1, <2>2 DEF Covered
<1> QED BY <1>1, <1>2 DEF Rest, Quiet, NothingForgotten, Covered, Settled

\* A thread that lowers a distance covers the edges out of its target, and
\* its own edge is relaxed.
LEMMA LowerStep == ASSUME IInv, NEW r \in relaxing, Relax(r), Lower(r) PROVE Rest'
<1> USE DEF IInv, Relax, Lower, Queue!DeviceInsert, Queue!With, queue
<1>1. pc = "kernel" /\ pc' = "kernel"
  BY DEF Quiet
<1> DEFINE w == Target(r)
<1>2. w \in Vertices /\ r.tentative \in Nat /\ distances[w] > r.tentative
  BY ThreadTypes
<1>3. \A v \in Vertices : distances'[v] = IF v = w THEN r.tentative ELSE distances[v]
  BY DEF TypeOK
<1>4. /\ output'[w] > 0
      /\ \A v \in Vertices : v # w => output'[v] = output[v]
  BY <1>2 DEF TypeOK
<1>5. r.thread[1][2] = w
  BY DEF Target
<1> HIDE DEF w
<1>6. \A e \in arcs' : Unrelaxed(e)' => Covered(e)'
  <2> SUFFICES ASSUME NEW e \in arcs, Unrelaxed(e)' PROVE Covered(e)'
    OBVIOUS
  <2>1. CASE e[1] = w
    BY <2>1, <1>4 DEF Covered
  <2>2. CASE e[1] # w
    <3>1. distances'[e[1]] = distances[e[1]] /\ distances'[e[2]] <= distances[e[2]]
      BY <2>2, <1>2, <1>3, EdgeTypes
    <3>2. Unrelaxed(e)
      <4>1. distances[e[1]] # INF /\ distances[e[1]] + e[3] < distances'[e[2]]
        BY <3>1 DEF Unrelaxed
      <4>2. distances'[e[2]] \in Nat
        BY <1>2, <1>3, EdgeTypes
      <4> QED BY <3>1, <4>1, <4>2, EdgeTypes DEF Unrelaxed
    <3>3. Covered(e)
      BY <1>1, <3>2, ForgottenDef
    <3>4. ~(r.thread[1] = e /\ r.tentative <= distances[e[1]] + e[3])
      <4>1. SUFFICES ASSUME r.thread[1] = e, r.tentative <= distances[e[1]] + e[3]
                     PROVE  FALSE
        OBVIOUS
      <4>2. distances'[e[2]] = r.tentative
        BY <4>1, <1>2, <1>3, <1>5
      <4>3. distances[e[1]] + e[3] < distances'[e[2]]
        BY <3>1 DEF Unrelaxed
      <4> QED BY <4>1, <4>2, <4>3, <1>2, EdgeTypes
    <3>5. CASE output[e[1]] > 0
      BY <3>5, <2>2, <1>4, EdgeTypes DEF Covered
    <3>6. CASE \E t \in starting : t[1] = e
      BY <3>6 DEF Covered
    <3>7. CASE \E q \in relaxing : q.thread[1] = e /\ q.tentative <= distances[e[1]] + e[3]
      <4>1. PICK q \in relaxing : q.thread[1] = e /\ q.tentative <= distances[e[1]] + e[3]
        BY <3>7
      <4>2. q \in relaxing'
        BY <4>1, <3>4
      <4> QED BY <4>1, <4>2, <3>1 DEF Covered
    <3> QED BY <1>1, <3>3, <3>5, <3>6, <3>7 DEF Covered
  <2> QED BY <2>1, <2>2
<1>7. distances'[sssp_source] = 0 /\ sssp_source' = sssp_source
  <2>1. distances[sssp_source] = 0 /\ sssp_source \in Vertices
    BY <1>1 DEF Settled, TypeOK
  <2>2. sssp_source # w
    BY <1>2, <2>1
  <2> QED BY <1>3, <2>1, <2>2
<1>8. Quiet'
  BY <1>1 DEF Quiet
<1> QED BY <1>1, <1>6, <1>7, <1>8 DEF Rest, NothingForgotten, Covered, Settled

LEMMA RoundStep == IInv /\ NextRound => Rest'
<1> SUFFICES ASSUME IInv, NextRound PROVE Rest'
  OBVIOUS
<1> USE DEF IInv, NextRound, Queue!Swap, Queue!Empty
<1>1. Quiet'
  <2>1. Queue!Count(input') = Queue!Count(output)
    OBVIOUS
  <2> QED BY <2>1 DEF Quiet, Nobody
<1>2. \A e \in arcs' : Unrelaxed(e)' => Covered(e)'
  <2> SUFFICES ASSUME NEW e \in arcs, Unrelaxed(e) PROVE Covered(e)'
    BY DEF Unrelaxed
  <2>1. Covered(e)
    BY ForgottenDef
  <2>2. output[e[1]] > 0
    BY <2>1 DEF Covered
  <2> QED BY <2>2 DEF Covered
<1> QED BY <1>1, <1>2 DEF Rest, NothingForgotten, Covered, Settled

\* The host's counter is that of the buffer: the queue is empty at the end.
LEMMA FinishStep == IInv /\ Finish => Rest'
<1> SUFFICES ASSUME IInv, Finish PROVE Rest'
  OBVIOUS
<1> USE DEF IInv, Finish, queue
<1>1. input = Nobody /\ output = Nobody /\ starting = {} /\ relaxing = {}
  <2>1. input \in [Vertices -> Nat] /\ Queue!Count(input) = 0
    BY DEF TypeOK, Quiet
  <2> QED BY <2>1, CountIsZero DEF Quiet
<1>2. ASSUME NEW e \in arcs PROVE ~Unrelaxed(e)
  <2>1. ~Covered(e)
    BY <1>1, EdgeTypes DEF Covered, Nobody
  <2> QED BY <2>1, ForgottenDef
<1>3. \A e \in arcs' : ~Unrelaxed(e)'
  BY <1>2 DEF Unrelaxed
<1> QED BY <1>1, <1>3 DEF Rest, Quiet, NothingForgotten, Settled

LEMMA StutterStep == IInv /\ UNCHANGED vars => Rest'
BY DEF IInv, Rest, vars, queue, Quiet, NothingForgotten, Settled, Unrelaxed

LEMMA NextIInv == IInv /\ [Next]_vars => IInv'
<1> SUFFICES ASSUME IInv, [Next]_vars PROVE IInv'
  OBVIOUS
<1>1. TypeOK'
  BY TypeStep DEF IInv
<1>2. Rest'
  <2>1. ASSUME NEW r \in relaxing, Relax(r) PROVE Rest'
    BY <2>1, LowerStep, KeepStep DEF Relax
  <2> QED BY <2>1, ResetStep, SetStep, LaunchStep, LoadStep, RoundStep, FinishStep,
             StutterStep DEF Next, Run
<1> QED BY <1>1, <1>2 DEF IInv, Rest

-----------------------------------------------------------------------------
(* No distance is too small.  A potential is a bound from below: zero for  *)
(* the source, and it grows along no edge by more than the weight.  The     *)
(* lengths of shortest paths are the greatest one.                         *)

Potentials == {p \in [Vertices -> 0 .. INF] :
                  /\ p[sssp_source] = 0
                  /\ \A e \in arcs : p[e[2]] <= p[e[1]] + e[3]}

\* Threads have edges of the graph, and neither a distance nor what a thread has
\* computed is below a potential.
Above == /\ \A v \in Vertices : distances[v] <= INF
         /\ \A t \in starting : t[1] \in arcs
         /\ pc # "ready" =>
              \A p \in Potentials :
                /\ \A v \in Vertices : distances[v] >= p[v]
                /\ \A r \in relaxing : r.tentative >= p[Target(r)]

LEMMA PotentialTypes == ASSUME NEW p \in Potentials
                        PROVE  /\ p \in [Vertices -> Nat]
                               /\ \A v \in Vertices : p[v] <= INF
<1>1. p \in [Vertices -> 0 .. INF]
  BY DEF Potentials
<1> QED BY <1>1, SSSPAssumption

LEMMA InitAbove == Init => Above
<1> SUFFICES ASSUME Init PROVE Above
  OBVIOUS
<1> QED BY SSSPAssumption DEF Init, Unreached, Above

LEMMA SetAbove == ASSUME IInv, Above, NEW s \in Vertices, SetParameters(s) PROVE Above'
<1> USE SSSPAssumption DEF IInv, SetParameters
<1>1. \A v \in Vertices : distances'[v] = IF v = s THEN 0 ELSE INF
  BY DEF TypeOK, Quiet
<1>2. starting' = {} /\ relaxing' = {} /\ sssp_source' = s
  BY DEF Quiet
<1>3. ASSUME NEW p \in Potentials', NEW v \in Vertices PROVE distances'[v] >= p[v]
  <2>1. p \in [Vertices -> 0 .. INF] /\ p[s] = 0
    BY <1>2, <1>3 DEF Potentials
  <2>2. p[v] \in 0 .. INF
    BY <2>1, <1>3
  <2> QED BY <1>1, <2>1, <2>2
<1>4. \A v \in Vertices : distances'[v] <= INF
  BY <1>1
<1> QED BY <1>2, <1>3, <1>4 DEF Above

LEMMA LaunchAbove == IInv /\ Above /\ Launch => Above'
<1> SUFFICES ASSUME IInv, Above, Launch PROVE Above'
  OBVIOUS
<1> USE DEF Launch, queue
<1>1. \A t \in starting' : t[1] \in arcs
  <2> SUFFICES ASSUME NEW t \in starting' PROVE t[1] \in arcs
    OBVIOUS
  <2>1. PICK e \in arcs : t \in {e} \X (1 .. input[e[1]])
    OBVIOUS
  <2> QED BY <2>1
<1>2. Potentials' = Potentials
  BY DEF Potentials
<1> QED BY <1>1, <1>2 DEF Above, Target

\* A thread adds the weight of its edge to a distance that is not too small.
LEMMA LoadAbove == ASSUME IInv, Above, NEW t \in starting, Load(t) PROVE Above'
<1> USE DEF IInv, Load, queue
<1>1. pc = "kernel"
  BY DEF Quiet
<1>2. Potentials' = Potentials
  BY DEF Potentials
<1> DEFINE new == [thread |-> t, tentative |-> distances[t[1][1]] + t[1][3]]
<1>3. ASSUME NEW p \in Potentials PROVE new.tentative >= p[Target(new)]
  <2>1. t[1] \in arcs
    BY DEF Above
  <2>2. p[t[1][2]] <= p[t[1][1]] + t[1][3]
    BY <2>1, <1>3 DEF Potentials
  <2>3. t[1][1] \in Vertices /\ t[1][2] \in Vertices /\ t[1][3] \in Nat
    BY ThreadTypes
  <2>4. distances[t[1][1]] >= p[t[1][1]]
    BY <1>1, <1>3, <2>3 DEF Above
  <2>5. p[t[1][1]] \in Nat /\ p[t[1][2]] \in Nat /\ distances[t[1][1]] \in Nat
    BY <1>3, <2>3, PotentialTypes DEF TypeOK
  <2>6. Target(new) = t[1][2] /\ new.tentative = distances[t[1][1]] + t[1][3]
    BY DEF Target
  <2> HIDE DEF new
  <2> QED BY <2>2, <2>3, <2>4, <2>5, <2>6
<1>4. relaxing' = relaxing \cup {new}
  OBVIOUS
<1> HIDE DEF new
<1>5. ASSUME NEW p \in Potentials, NEW r \in relaxing' PROVE r.tentative >= p[Target(r)]
  BY <1>1, <1>3, <1>4, <1>5 DEF Above
<1>6. \A u \in starting' : u[1] \in arcs'
  BY DEF Above
<1>7. \A r : Target(r)' = Target(r)
  BY DEF Target
<1> QED BY <1>1, <1>2, <1>5, <1>6, <1>7 DEF Above, Target

LEMMA RelaxAbove == ASSUME IInv, Above, NEW r \in relaxing, Relax(r) PROVE Above'
<1> USE DEF IInv, Relax, queue
<1>1. pc = "kernel" /\ pc' = pc
  BY DEF Quiet
<1>2. Potentials' = Potentials
  BY DEF Potentials
<1>3. Target(r) \in Vertices /\ r.tentative \in Nat
  BY ThreadTypes
<1>4. CASE Keep(r)
  BY <1>1, <1>2, <1>4 DEF Keep, Above, Target
<1>5. CASE Lower(r)
  <2>1. \A v \in Vertices : distances'[v] = IF v = Target(r) THEN r.tentative
                                                            ELSE distances[v]
    BY <1>5, <1>3 DEF Lower, TypeOK
  <2>2. ASSUME NEW p \in Potentials, NEW v \in Vertices PROVE distances'[v] >= p[v]
    BY <1>1, <2>1, <2>2 DEF Above
  <2>3. distances[Target(r)] > r.tentative
    BY <1>5 DEF Lower
  <2>4. ASSUME NEW v \in Vertices PROVE distances'[v] <= INF
    <3>1. distances[v] \in Nat /\ distances[v] <= INF
      BY <2>4 DEF Above, TypeOK
    <3> QED BY <2>1, <2>3, <2>4, <3>1, <1>3, SSSPAssumption
  <2>5. relaxing' \subseteq relaxing /\ starting' = starting /\ arcs' = arcs
    OBVIOUS
  <2> QED BY <1>1, <1>2, <2>2, <2>4, <2>5 DEF Above, Target
<1> QED BY <1>4, <1>5

LEMMA NextAbove == IInv /\ Above /\ [Next]_vars => Above'
<1> SUFFICES ASSUME IInv, Above, [Next]_vars PROVE Above'
  OBVIOUS
<1>1. CASE Reset
  BY <1>1, SSSPAssumption DEF Reset, Unreached, Above, IInv, Quiet
<1>2. CASE \E s \in Vertices : SetParameters(s)
  BY <1>2, SetAbove
<1>3. CASE Launch
  BY <1>3, LaunchAbove
<1>4. CASE \E t \in starting : Load(t)
  BY <1>4, LoadAbove
<1>5. CASE \E r \in relaxing : Relax(r)
  BY <1>5, RelaxAbove
<1>6. CASE NextRound \/ Finish \/ UNCHANGED vars
  <2>1. /\ UNCHANGED <<arcs, distances, sssp_source, starting, relaxing>>
        /\ pc = "ready" <=> pc' = "ready"
    BY <1>6 DEF NextRound, Finish, vars
  <2>2. Potentials' = Potentials
    BY <2>1 DEF Potentials
  <2> QED BY <2>1, <2>2 DEF Above, Target
<1> QED BY <1>1, <1>2, <1>3, <1>4, <1>5, <1>6 DEF Next, Run

-----------------------------------------------------------------------------
(* The theorems                                                            *)

\* Every distance, buffer and thread keeps its type, in every order of threads.
THEOREM TypesHold == Spec => []TypeOK
<1>1. IInv => TypeOK
  BY DEF IInv
<1> QED BY <1>1, InitIInv, NextIInv, PTL DEF Spec

\* No edge is forgotten: one that could lower its target has its source in the
\* queue for the next kernel, or a thread that will see its distance as it is.
THEOREM NothingIsForgotten == Spec => []NothingForgotten
<1>1. IInv => NothingForgotten
  BY DEF IInv
<1> QED BY <1>1, InitIInv, NextIInv, PTL DEF Spec

\* When run() returns, the source has distance zero and no edge could lower the
\* distance of its target: no path is shorter than the distance of its end.
THEOREM RunsSettle == Spec => []Settled
<1>1. IInv => Settled
  BY DEF IInv
<1> QED BY <1>1, InitIInv, NextIInv, PTL DEF Spec

\* When run() returns, the distances are a potential, and no potential is greater
\* anywhere: this is what characterises the lengths of shortest paths.
Greatest == pc = "done" =>
              /\ distances \in Potentials
              /\ \A p \in Potentials : \A v \in Vertices : p[v] <= distances[v]

\* A finished run leaves the lengths of shortest paths, neither too large nor too
\* small, although threads computed with distances that had changed.
THEOREM DistancesAreShortest == Spec => []Greatest
<1>1. IInv /\ Above => Greatest
  <2> SUFFICES ASSUME IInv, Above, pc = "done" PROVE Greatest
    BY DEF Greatest
  <2>1. distances \in [Vertices -> 0 .. INF]
    BY SSSPAssumption DEF IInv, TypeOK, Above
  <2>2. ASSUME NEW e \in arcs PROVE distances[e[2]] <= distances[e[1]] + e[3]
    <3>1. /\ e[1] \in Vertices /\ e[2] \in Vertices /\ e[3] \in Nat
          /\ distances[e[1]] \in Nat /\ distances[e[2]] \in Nat
      BY <2>2, EdgeTypes DEF IInv
    <3>2. ~Unrelaxed(e) /\ distances[e[2]] <= INF
      BY <2>2, <3>1 DEF IInv, Settled, Above
    <3> QED BY <3>1, <3>2, SSSPAssumption DEF Unrelaxed
  <2>3. distances[sssp_source] = 0
    BY DEF IInv, Settled
  <2>4. \A p \in Potentials : \A v \in Vertices : distances[v] >= p[v]
    BY DEF Above
  <2>5. ASSUME NEW p \in Potentials, NEW v \in Vertices PROVE p[v] <= distances[v]
    <3>1. p[v] \in Nat /\ distances[v] \in Nat
      BY <2>5, PotentialTypes DEF IInv, TypeOK
    <3> QED BY <2>4, <2>5, <3>1
  <2> QED BY <2>1, <2>2, <2>3, <2>5 DEF Greatest, Potentials
<1> QED BY <1>1, InitIInv, NextIInv, InitAbove, NextAbove, PTL DEF Spec

-----------------------------------------------------------------------------
(* The recursion: the greatest potential is what it arrives at after one   *)
(* edge less than there are vertices.                                      *)

\* One edge more makes no path longer and uses every edge.
LEMMA LongerIs ==
    ASSUME TypeOK, NEW w \in [Vertices -> 0 .. INF]
    PROVE  /\ Longer(w) \in [Vertices -> 0 .. INF]
           /\ \A v \in Vertices : Longer(w)[v] <= w[v]
           /\ \A e \in arcs : Longer(w)[e[2]] <= w[e[1]] + e[3]
           /\ \A v \in Vertices :
                 \/ Longer(w)[v] = w[v]
                 \/ \E e \in arcs : e[2] = v /\ Longer(w)[v] = w[e[1]] + e[3]
<1>1. ASSUME NEW v \in Vertices
      PROVE  /\ Longer(w)[v] \in Lengths(w, v) /\ Longer(w)[v] \in Nat
             /\ \A k \in Lengths(w, v) : Longer(w)[v] <= k
  <2>1. w[v] \in Nat /\ w[v] \in Lengths(w, v)
    BY SSSPAssumption DEF Lengths
  <2>2. ASSUME NEW e \in arcs PROVE w[e[1]] + e[3] \in Nat
    <3>1. e[1] \in Vertices /\ e[3] \in Nat
      BY EdgeTypes
    <3>2. w[e[1]] \in Nat
      BY <3>1, SSSPAssumption
    <3> QED BY <3>1, <3>2
  <2>3. Lengths(w, v) \in SUBSET Nat
    BY <2>1, <2>2 DEF Lengths
  <2>4. \E l \in Lengths(w, v) : \A k \in Lengths(w, v) : l <= k
    <3>1. Lengths(w, v) # {}
      BY <2>1
    <3> QED BY <2>3, <3>1, LeastElement
  <2>5. Longer(w)[v] = CHOOSE l \in Lengths(w, v) : \A k \in Lengths(w, v) : l <= k
    BY DEF Longer
  <2> QED BY <2>3, <2>4, <2>5
<1>2. ASSUME NEW v \in Vertices PROVE Longer(w)[v] <= w[v] /\ Longer(w)[v] \in 0 .. INF
  <2>1. w[v] \in Lengths(w, v) /\ w[v] \in 0 .. INF
    BY DEF Lengths
  <2>2. Longer(w)[v] <= w[v] /\ Longer(w)[v] \in Nat
    BY <1>1, <2>1
  <2> QED BY <2>1, <2>2, SSSPAssumption
<1>3. ASSUME NEW e \in arcs PROVE Longer(w)[e[2]] <= w[e[1]] + e[3]
  <2>1. e[2] \in Vertices
    BY EdgeTypes
  <2>2. w[e[1]] + e[3] \in Lengths(w, e[2])
    BY DEF Lengths
  <2> QED BY <1>1, <2>1, <2>2
<1>4. ASSUME NEW v \in Vertices
      PROVE  \/ Longer(w)[v] = w[v]
             \/ \E e \in arcs : e[2] = v /\ Longer(w)[v] = w[e[1]] + e[3]
  BY <1>1 DEF Lengths
<1>5. Longer(w) = [v \in Vertices |-> Longer(w)[v]]
  BY DEF Longer
<1>6. Longer(w) \in [Vertices -> 0 .. INF]
  <2>1. PICK u : u = Longer(w)
    OBVIOUS
  <2>2. u = [v \in Vertices |-> u[v]] /\ \A v \in Vertices : u[v] \in 0 .. INF
    BY <2>1, <1>2, <1>5
  <2> QED BY <2>1, <2>2
<1> QED BY <1>2, <1>3, <1>4, <1>6

\* The recursion has a solution, and Within is it.
LEMMA WithinIs ==
    ASSUME TypeOK
    PROVE  /\ Within \in [Nat -> [Vertices -> 0 .. INF]]
           /\ Within[0] = [v \in Vertices |-> IF v = sssp_source THEN 0 ELSE INF]
           /\ \A n \in Nat : Within[n + 1] = Longer(Within[n])
<1> DEFINE S == [Vertices -> 0 .. INF]
           start == [v \in Vertices |-> IF v = sssp_source THEN 0 ELSE INF]
           f == [w \in S |-> Longer(w)]
<1>1. start \in S
  BY SSSPAssumption
<1>2. f \in [S -> S]
  BY LongerIs
<1>3. PICK g \in [Nat -> S] : g[0] = start /\ \A n \in Nat : g[n + 1] = f[g[n]]
  <2> HIDE DEF S, start, f
  <2> QED BY <1>1, <1>2, Iterates
<1>4. \A n \in Nat : g[n + 1] = Longer(g[n])
  BY <1>3
<1>5. g = [n \in Nat |-> IF n = 0 THEN start ELSE Longer(g[n - 1])]
  <2>1. ASSUME NEW n \in Nat PROVE g[n] = IF n = 0 THEN start ELSE Longer(g[n - 1])
    <3>1. CASE n = 0
      BY <3>1, <1>3
    <3>2. CASE n # 0
      <4>1. n - 1 \in Nat /\ n = (n - 1) + 1
        BY <3>2
      <4>2. g[(n - 1) + 1] = Longer(g[n - 1])
        BY <4>1, <1>4
      <4> QED BY <3>2, <4>1, <4>2
    <3> QED BY <3>1, <3>2
  <2> HIDE DEF S, start
  <2> QED BY <1>3, <2>1
<1>6. Within = CHOOSE h : h = [n \in Nat |-> IF n = 0 THEN start ELSE Longer(h[n - 1])]
  BY DEF Within
<1>7. Within = [n \in Nat |-> IF n = 0 THEN start ELSE Longer(Within[n - 1])]
  <2> HIDE DEF start
  <2> QED BY <1>5, <1>6
<1>8. Within[0] = start
  <2> HIDE DEF start
  <2> QED BY <1>7
<1>9. ASSUME NEW n \in Nat PROVE Within[n + 1] = Longer(Within[n])
  <2>1. n + 1 \in Nat /\ n + 1 # 0 /\ (n + 1) - 1 = n
    OBVIOUS
  <2> HIDE DEF start
  <2> QED BY <1>7, <2>1
<1>10. \A n \in Nat : Within[n] \in S
  <2> DEFINE T == {n \in Nat : Within[n] \in S}
  <2>1. 0 \in T
    BY <1>1, <1>8
  <2>2. ASSUME NEW n \in Nat, n \in T PROVE n + 1 \in T
    BY <1>9, <2>2, LongerIs
  <2> HIDE DEF T
  <2>3. \A n \in Nat : n \in T
    BY <2>1, <2>2, SetInduction
  <2> QED BY <2>3 DEF T
<1>11. Within \in [Nat -> S]
  <2>1. Within = [n \in Nat |-> Within[n]]
    <3> HIDE DEF start
    <3> QED BY <1>7
  <2> QED BY <1>10, <2>1
<1> QED BY <1>8, <1>9, <1>11

\* No path is shorter than a potential, and the empty one ends in the source.
LEMMA WithinAbove ==
    ASSUME TypeOK, NEW p \in Potentials, NEW n \in Nat
    PROVE  /\ Within[n][sssp_source] = 0
           /\ \A v \in Vertices : p[v] <= Within[n][v]
<1> DEFINE S == {m \in Nat : /\ Within[m][sssp_source] = 0
                             /\ \A v \in Vertices : p[v] <= Within[m][v]}
<1>1. /\ \A v \in Vertices : p[v] \in Nat /\ p[v] <= INF
      /\ p[sssp_source] = 0 /\ sssp_source \in Vertices
      /\ \A e \in arcs : p[e[2]] <= p[e[1]] + e[3]
  BY PotentialTypes DEF Potentials, TypeOK
<1>2. 0 \in S
  <2>1. Within[0] = [v \in Vertices |-> IF v = sssp_source THEN 0 ELSE INF]
    BY WithinIs
  <2>2. \A v \in Vertices : Within[0][v] = IF v = sssp_source THEN 0 ELSE INF
    BY <2>1
  <2> QED BY <1>1, <2>2
<1>3. ASSUME NEW m \in Nat, m \in S PROVE m + 1 \in S
  <2>1. PICK w \in [Vertices -> 0 .. INF] : w = Within[m]
    BY WithinIs
  <2>2. /\ w[sssp_source] = 0 /\ \A v \in Vertices : p[v] <= w[v]
        /\ \A v \in Vertices : w[v] \in Nat
    BY <2>1, <1>3, SSSPAssumption
  <2>3. Within[m + 1] = Longer(w)
    BY <2>1, WithinIs
  <2>4. Longer(w)[sssp_source] = 0
    <3>1. Longer(w)[sssp_source] \in 0 .. INF /\ Longer(w)[sssp_source] <= w[sssp_source]
      BY <1>1, LongerIs
    <3> QED BY <3>1, <2>2, SSSPAssumption
  <2>5. ASSUME NEW v \in Vertices PROVE p[v] <= Longer(w)[v]
    <3>1. CASE Longer(w)[v] = w[v]
      BY <3>1, <2>2
    <3>2. CASE Longer(w)[v] # w[v]
      <4>1. PICK e \in arcs : e[2] = v /\ Longer(w)[v] = w[e[1]] + e[3]
        BY <3>2, LongerIs
      <4>2. e[1] \in Vertices /\ e[3] \in Nat
        BY EdgeTypes
      <4>3. p[v] <= p[e[1]] + e[3] /\ p[e[1]] <= w[e[1]]
        BY <4>1, <4>2, <1>1, <2>2
      <4>4. p[v] \in Nat /\ p[e[1]] \in Nat /\ w[e[1]] \in Nat
        BY <4>2, <1>1, <2>2
      <4> QED BY <4>1, <4>2, <4>3, <4>4
    <3> QED BY <3>1, <3>2
  <2> QED BY <2>3, <2>4, <2>5
<1> HIDE DEF S
<1>4. \A m \in Nat : m \in S
  BY <1>2, <1>3, SetInduction
<1> QED BY <1>4 DEF S

\* The vertices whose distance a path of at most n edges has.
Reached(n) == {v \in Vertices : Within[n][v] = distances[v]}

\* While there are others, one edge more reaches one of them: if none did, the
\* distances of all others could be raised by one and be a potential still.
LEMMA OneMoreReached ==
    ASSUME TypeOK, Greatest, pc = "done", NEW n \in Nat
    PROVE  /\ Reached(n) \subseteq Reached(n + 1)
           /\ Reached(n) # Vertices => \E v \in Vertices : v \notin Reached(n) /\ v \in Reached(n + 1)
<1>1. PICK d \in Potentials : d = distances
  BY DEF Greatest
<1>2. /\ \A v \in Vertices : d[v] \in Nat /\ d[v] <= INF
      /\ d \in [Vertices -> 0 .. INF]
      /\ d[sssp_source] = 0 /\ sssp_source \in Vertices
      /\ \A e \in arcs : d[e[2]] <= d[e[1]] + e[3]
  BY PotentialTypes DEF Potentials, TypeOK
<1>3. PICK w \in [Vertices -> 0 .. INF] : w = Within[n]
  BY WithinIs
<1>4. PICK x \in [Vertices -> 0 .. INF] : x = Longer(w)
  BY LongerIs
<1>5. Within[n + 1] = x
  BY <1>3, <1>4, WithinIs
<1>6. n + 1 \in Nat
  OBVIOUS
<1>7. /\ w[sssp_source] = 0
      /\ \A v \in Vertices : d[v] <= w[v] /\ d[v] <= x[v]
  BY <1>3, <1>5, <1>6, WithinAbove
<1>8. /\ \A v \in Vertices : x[v] <= w[v] /\ x[v] \in Nat /\ w[v] \in Nat /\ w[v] <= INF
      /\ \A e \in arcs : x[e[2]] <= w[e[1]] + e[3]
  BY <1>4, LongerIs, SSSPAssumption
<1> DEFINE R == Reached(n)
<1>9. \A v \in Vertices : v \in R <=> w[v] = d[v]
  BY <1>1, <1>3 DEF Reached
<1>10. \A v \in Vertices : v \in Reached(n + 1) <=> x[v] = d[v]
  BY <1>1, <1>5 DEF Reached
<1>11. R \subseteq Reached(n + 1)
  <2>1. R \subseteq Vertices
    BY DEF Reached
  <2> QED BY <2>1, <1>2, <1>7, <1>8, <1>9, <1>10
<1> HIDE DEF R
<1>12. ASSUME NEW u \in Vertices, u \notin R,
              \A v \in Vertices : v \notin R => v \notin Reached(n + 1)
       PROVE  FALSE
  <2> DEFINE p == [v \in Vertices |-> IF v \in R THEN d[v] ELSE d[v] + 1]
  <2>1. ASSUME NEW v \in Vertices PROVE p[v] \in 0 .. INF
    <3>1. v \notin R => d[v] < w[v]
      BY <1>2, <1>7, <1>8, <1>9
    <3> QED BY <3>1, <1>2, <1>8, SSSPAssumption
  <2>2. p[sssp_source] = 0
    BY <1>2, <1>7, <1>9
  <2>3. ASSUME NEW e \in arcs PROVE p[e[2]] <= p[e[1]] + e[3]
    <3>1. e[1] \in Vertices /\ e[2] \in Vertices /\ e[3] \in Nat
      BY EdgeTypes
    <3>2. PICK a, b, c : a = d[e[1]] /\ b = d[e[2]] /\ c = e[3]
      OBVIOUS
    <3>3. a \in Nat /\ b \in Nat /\ c \in Nat /\ b <= a + c
      BY <3>1, <3>2, <1>2
    <3>4. ASSUME e[1] \in R, e[2] \notin R PROVE b < a + c
      <4>1. x[e[2]] # b
        BY <3>1, <3>2, <3>4, <1>10, <1>12
      <4>2. x[e[2]] <= a + c
        BY <3>1, <3>2, <3>4, <1>8, <1>9
      <4>3. b <= x[e[2]] /\ x[e[2]] \in Nat
        BY <3>1, <3>2, <1>7, <1>8
      <4> QED BY <3>3, <4>1, <4>2, <4>3
    <3>5. /\ p[e[1]] = IF e[1] \in R THEN a ELSE a + 1
          /\ p[e[2]] = IF e[2] \in R THEN b ELSE b + 1
      BY <3>1, <3>2
    <3> HIDE DEF p
    <3> QED BY <3>2, <3>3, <3>4, <3>5
  <2>4. p \in Potentials
    <3>1. p \in [Vertices -> 0 .. INF]
      BY <2>1
    <3> HIDE DEF p
    <3> QED BY <3>1, <2>2, <2>3 DEF Potentials
  <2>5. p[u] <= d[u]
    <3> HIDE DEF p
    <3> QED BY <2>4, <1>1 DEF Greatest
  <2>6. p[u] = d[u] + 1 /\ d[u] \in Nat
    BY <1>2, <1>12
  <2> HIDE DEF p
  <2> QED BY <2>5, <2>6
<1>13. R # Vertices => \E u \in Vertices : u \notin R
  BY DEF R, Reached
<1> QED BY <1>11, <1>12, <1>13 DEF R

\* So there are as many as edges in the path, and one more, or all.
LEMMA AllReached ==
    ASSUME TypeOK, Greatest, pc = "done"
    PROVE  Reached(Cardinality(Vertices) - 1) = Vertices
<1> DEFINE N == Cardinality(Vertices)
           S == {n \in Nat : Reached(n) = Vertices \/ Cardinality(Reached(n)) >= n + 1}
<1>1. /\ IsFiniteSet(Vertices) /\ N \in Nat /\ N # 0
  BY SSSPAssumption, FS_CardinalityType, FS_EmptySet
<1>2. \A n \in Nat : /\ Reached(n) \subseteq Vertices /\ IsFiniteSet(Reached(n))
                     /\ Cardinality(Reached(n)) \in Nat /\ Cardinality(Reached(n)) <= N
  BY <1>1, FS_Subset, FS_CardinalityType DEF Reached
<1>3. 0 \in S
  <2>1. distances \in Potentials
    BY DEF Greatest
  <2>2. sssp_source \in Reached(0)
    BY <2>1, WithinAbove DEF Reached, Potentials, TypeOK
  <2>3. Cardinality(Reached(0)) # 0
    BY <1>2, <2>2, FS_EmptySet
  <2> QED BY <2>3, <1>2
<1>4. ASSUME NEW n \in Nat, n \in S PROVE n + 1 \in S
  <2>1. n + 1 \in Nat /\ Reached(n) \subseteq Reached(n + 1)
    BY OneMoreReached
  <2>2. CASE Reached(n) = Vertices
    <3>1. Reached(n + 1) = Vertices
      BY <2>1, <2>2, <1>2
    <3> QED BY <2>1, <3>1
  <2>3. CASE Reached(n) # Vertices
    <3>1. PICK v \in Vertices : v \notin Reached(n) /\ v \in Reached(n + 1)
      BY <2>3, OneMoreReached
    <3>2. Cardinality(Reached(n)) < Cardinality(Reached(n + 1))
      <4>1. Cardinality(Reached(n)) <= Cardinality(Reached(n + 1))
        BY <2>1, <1>2, FS_Subset
      <4>2. Cardinality(Reached(n)) # Cardinality(Reached(n + 1))
        BY <2>1, <3>1, <1>2, FS_Subset
      <4> QED BY <4>1, <4>2, <2>1, <1>2
    <3>3. Cardinality(Reached(n)) >= n + 1
      BY <1>4, <2>3
    <3>4. Cardinality(Reached(n + 1)) >= n + 1 + 1
      BY <3>2, <3>3, <2>1, <1>2
    <3> QED BY <2>1, <3>4
  <2> QED BY <2>2, <2>3
<1> HIDE DEF S
<1>5. \A n \in Nat : n \in S
  BY <1>3, <1>4, SetInduction
<1>6. N - 1 \in Nat /\ (N - 1) + 1 = N
  BY <1>1
<1>7. Reached(N - 1) = Vertices \/ Cardinality(Reached(N - 1)) >= N
  BY <1>5, <1>6 DEF S
<1>8. Cardinality(Reached(N - 1)) >= N => Reached(N - 1) = Vertices
  <2>1. SUFFICES ASSUME Cardinality(Reached(N - 1)) >= N PROVE Reached(N - 1) = Vertices
    OBVIOUS
  <2>2. Cardinality(Reached(N - 1)) = Cardinality(Vertices)
    BY <2>1, <1>1, <1>2, <1>6
  <2> QED BY <2>2, <1>1, <1>2, <1>6, FS_Subset
<1> QED BY <1>7, <1>8

\* A finished run leaves the lengths of shortest paths, as the recursion over the
\* number of edges gives them.
THEOREM DistancesAreExact == Spec => []DistancesExact
<1>1. IInv /\ Greatest => DistancesExact
  <2> SUFFICES ASSUME IInv, Greatest, pc = "done" PROVE distances = Shortest
    BY DEF DistancesExact
  <2>1. TypeOK
    BY DEF IInv
  <2>2. PICK n : n = Cardinality(Vertices) - 1
    OBVIOUS
  <2>3. n \in Nat
    <3>1. Cardinality(Vertices) \in Nat /\ Cardinality(Vertices) # 0
      BY SSSPAssumption, FS_CardinalityType, FS_EmptySet
    <3> QED BY <2>2, <3>1
  <2>4. Reached(n) = Vertices
    BY <2>1, <2>2, AllReached
  <2>5. Within[n] \in [Vertices -> 0 .. INF] /\ distances \in [Vertices -> Nat]
    BY <2>1, <2>3, WithinIs DEF TypeOK
  <2>6. \A v \in Vertices : Within[n][v] = distances[v]
    BY <2>4 DEF Reached
  <2>7. Within[n] = distances
    BY <2>5, <2>6
  <2> QED BY <2>2, <2>7 DEF Shortest
<1>2. Spec => []IInv
  BY InitIInv, NextIInv, PTL DEF Spec
<1> QED BY <1>1, <1>2, DistancesAreShortest, PTL
=============================================================================
