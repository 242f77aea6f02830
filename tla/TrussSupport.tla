---------------------------- MODULE TrussSupport ----------------------------
(***************************************************************************)
(* How the threads of K-truss count the common neighbours of two vertices: *)
(* the merge of the two sorted lists is a path through their grid, cut on  *)
(* its diagonals into shares of nearly equal length.  Each thread searches *)
(* the point where the path crosses its diagonal and merges from there.    *)
(* u is the list that is not longer.                                       *)
(***************************************************************************)
EXTENDS Integers, Sequences, FiniteSets, Functions

Lesser(a, b)  == IF a <= b THEN a ELSE b
Greater(a, b) == IF a >= b THEN a ELSE b
Bit(b)        == IF b THEN 1 ELSE 0

\* What lies outside of a list, as neighbours of the search read it.
Outside == -1

\* Cell i of a list, counted from 0 as in the code.
Cell(l, i) == IF i \in 0 .. Len(l) - 1 THEN l[i + 1] ELSE Outside

\* The shares of `threads` threads.
Work(u, v, threads, t) ==
    LET total == Len(u) + Len(v)
    IN  total \div threads + Bit(t < total % threads)

DiagonalId(u, v, threads, t) ==
    LET total == Len(u) + Len(v)
    IN  (total \div threads) * t + Lesser(t, total % threads)

Above(u, v, i, j) == Cell(u, i) > Cell(v, j - 1)      \* comp1
Below(u, v, i, j) == Cell(u, i - 1) > Cell(v, j)      \* comp2

\* A search that takes the point it has halved to as it is.
CrossingPoint_Unchecked(u, v, d) ==
    LET uMin == Greater(0, d - Len(v))
        uMax == Lesser(d, Len(u))
        i    == (uMin + uMax) \div 2
    IN  <<i, d - i>>

\* bSearch on diagonal d, one round of its loop: `search` is what the next rounds
\* return.
SearchStep(u, v, d, search, uMin, uMax, vMax) ==
    LET i      == (uMin + uMax) \div 2
        j      == d - i
        narrow == j >= vMax /\ uMax - uMin = 1
    IN  IF narrow /\ j > 0 /\ i > 0 /\ i < Len(u) - 1
                  /\ ~Above(u, v, i, j) /\ ~Below(u, v, i, j)
        THEN <<i + 1, j - 1>>
        ELSE IF narrow \/ (Above(u, v, i, j) /\ ~Below(u, v, i, j))
        THEN <<i, j>>
        ELSE IF Above(u, v, i, j) THEN search[<<uMin, i, vMax>>]
        ELSE search[<<i, uMax, j>>]

\* uMin, uMax and vMax: vMax stays opposite to uMin.
Bounds(u, v, d) == {s \in (0 .. Len(u)) \X (0 .. Len(u)) \X (0 .. Len(v)) :
                       s[1] < s[2] /\ s[2] <= d /\ s[3] = d - s[1]}

\* initialize and bSearch: where the path crosses diagonal d.  On the first
\* diagonal there is nothing to search.
CrossingPoint(u, v, d) ==
    LET search[s \in Bounds(u, v, d)] == SearchStep(u, v, d, search, s[1], s[2], s[3])
    IN  IF d = 0 THEN <<0, 0>>
        ELSE search[<<Greater(0, d - Len(v)), Lesser(d, Len(u)), Lesser(d, Len(v))>>]

\* fixStartPoint: a match that the diagonal cuts at <<i, j>> belongs to the thread
\* that begins there.  `sum` is what the thread has found before it merges.
StartPoint(u, v, i, j) ==
    LET uBigger == Bit(i > 0 /\ j < Len(v) /\ Cell(u, i - 1) = Cell(v, j))
        vBigger == Bit(j > 0 /\ i < Len(u) /\ Cell(v, j - 1) = Cell(u, i))
    IN  [u |-> i + vBigger, v |-> j + uBigger, sum |-> uBigger + vBigger]

\* intersectCount, one round: a match takes two units of work, so that the last one
\* may lie beyond the share.  `from` is what the next rounds find.
MergeStep(u, v, share, from, i, j, work) ==
    IF work >= share \/ i = Len(u) \/ j = Len(v)
    THEN [found |-> 0, work |-> work]
    ELSE LET match == u[i + 1] = v[j + 1]
             rest  == from[<<i + Bit(u[i + 1] <= v[j + 1]),
                             j + Bit(u[i + 1] >= v[j + 1]),
                             work + Bit(match) + 1>>]
         IN  [found |-> rest.found + Bit(match), work |-> rest.work]

Merge(u, v, start, share) ==
    LET from[s \in (0 .. Len(u)) \X (0 .. Len(v)) \X (0 .. share + 1)] ==
            MergeStep(u, v, share, from, s[1], s[2], s[3])
    IN  from[<<start.u, start.v, start.sum>>]

\* What a thread finds, whether its last match lay beyond its share, and
\* whether it asks that without having compared anything (comp is not set).
\* `sum` is what it tells the thread before it, in firstFound.
Found(u, v, start, share, ended) ==
    IF share = 0
    THEN [found |-> 0, beyond |-> FALSE, unset |-> FALSE, sum |-> 0]
    ELSE [found  |-> start.sum + ended.found,
          beyond |-> start.u < Len(u) /\ start.v < Len(v) /\ ended.work > share,
          unset  |-> start.sum > share,
          sum    |-> start.sum]

Intersect(u, v, start, share) ==
    Found(u, v, start, share, Merge(u, v, start, share))

ThreadCount(u, v, threads, t) ==
    LET c == CrossingPoint(u, v, DiagonalId(u, v, threads, t))
    IN  Intersect(u, v, StartPoint(u, v, c[1], c[2]), Work(u, v, threads, t))

\* The counts that a union of threads may come to.  A thread whose last match
\* lay beyond its share leaves it to the next one if firstFound says that this
\* one has it.  No barrier orders the write of that cell and the read: threads
\* that run in lockstep see it, others may see an old value.
Outcomes(thread, lockstep) ==
    LET total  == SumFunction([t \in DOMAIN thread |-> thread[t].found])
        beyond == {t \in DOMAIN thread : thread[t].beyond}
        told   == {t \in beyond : t + 1 \in DOMAIN thread /\ thread[t + 1].sum > 0}
        sure   == {t \in told : ~thread[t].unset}
        taken  == IF lockstep THEN Cardinality(sure) .. Cardinality(told)
                              ELSE 0 .. Cardinality(beyond)
    IN  {total - n : n \in taken}

Counts(u, v, threads, lockstep) ==
    Outcomes([t \in 0 .. threads - 1 |-> ThreadCount(u, v, threads, t)], lockstep)
=============================================================================
