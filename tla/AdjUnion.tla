------------------------------ MODULE AdjUnion ------------------------------
(***************************************************************************)
(* How the threads of one adjacency union share two sorted lists u and v,  *)
(* u the shorter one (the balanced and the imbalanced kernel and the path  *)
(* search of Operator++), and how a thread counts the common elements of   *)
(* its share (the operator of the triangle counting).  Positions count     *)
(* from 0; a share is given by its first and last position in each list.   *)
(*                                                                         *)
(* Balanced: a merge of the lists is a path through the grid of their      *)
(* positions.  Its Len(u) + Len(v) - 1 diagonals are divided evenly, each  *)
(* thread searches for the point where the path crosses its diagonal, and  *)
(* its share ends where that of the next thread begins.                    *)
(* Imbalanced: the positions of u are divided evenly, and each thread      *)
(* searches all of v for them.                                             *)
(***************************************************************************)
EXTENDS Integers, Sequences, FiniteSets

Cell(l, i)    == l[i + 1]
Lesser(a, b)  == IF a < b THEN a ELSE b
Bit(condition) == IF condition THEN 1 ELSE 0

\* The first of n items for thread t of T, when each gets its part.
Divide(n, T, t) == t * (n \div T) + Lesser(t, n % T)

----------------------------------------------------------------------------
(* Balanced                                                                *)

TotalWork(u, v) == Len(u) + Len(v) - 1

Diagonal(u, v, T, t) == Divide(TotalWork(u, v), T, t)

\* bSearchPath on diagonal d: the points of a diagonal have i + j = d - 1 for
\* positions i of u and j of v, so the corners are given by their i.
PathPoint(u, v, d) ==
    LET Ranges == {r \in (0 .. d - 1) \X (0 .. d - 1) : r[2] <= r[1]}
        search[range \in Ranges] ==
            LET low  == range[1]
                high == range[2]
                i == (low + high) \div 2
                j == d - 1 - i
                below == Bit(Cell(u, i + 1) < Cell(v, j))
            IN  IF low = high THEN [u |-> i, v |-> j]
                ELSE IF Cell(u, i) >= Cell(v, j) THEN search[<<i, high>>]
                ELSE IF Cell(u, i + 1) < Cell(v, j - 1) THEN search[<<low, i + 1>>]
                ELSE [u |-> i + below, v |-> j - below]
    IN  search[<<Lesser(d, Len(u)) - 1, d - Lesser(d, Len(v))>>]

\* Fault for PathsDivideWork: a share begins with the point the last one ends at.
After_Same(u, v, p) == p

\* The point of the merge that follows p.
After(u, v, p) ==
    LET inU == p.u < Len(u) - 1
        inV == p.v < Len(v) - 1
        toV == IF inU /\ inV THEN Cell(u, p.u + 1) >= Cell(v, p.v + 1) ELSE inV
        toU == IF inU /\ inV THEN ~toV ELSE inU
    IN  [u |-> p.u + Bit(toU), v |-> p.v + Bit(toV)]

\* The share of thread t; a thread whose diagonal does not exist has none.
Share(u, v, T, t) ==
    LET d     == Diagonal(u, v, T, t)
        n     == Diagonal(u, v, T, t + 1)
        first == IF d = 0 THEN [u |-> 0, v |-> 0] ELSE After(u, v, PathPoint(u, v, d))
        last  == IF n >= TotalWork(u, v) THEN [u |-> Len(u) - 1, v |-> Len(v) - 1]
                                         ELSE PathPoint(u, v, n)
    IN  [first |-> first, last |-> last]

HasShare(u, v, T, t) == Diagonal(u, v, T, t) < TotalWork(u, v)

\* The operator with FLAG 0: merge the two parts, stop at the end of one.
Merged(u, v, share) ==
    LET merge[at \in (0 .. Len(u)) \X (0 .. Len(v))] ==
            LET i    == at[1]
                j    == at[2]
                geq  == Cell(u, i) >= Cell(v, j)
                leq  == Cell(u, i) <= Cell(v, j)
                endU == i = share.last.u
                endV == j = share.last.v
            IN  IF i > share.last.u \/ j > share.last.v THEN 0
                ELSE Bit(geq /\ leq)
                     + IF (endU /\ leq) \/ (endV /\ geq) THEN 0
                       ELSE merge[<<i + Bit((leq /\ ~endU) \/ endV),
                                    j + Bit((geq /\ ~endV) \/ endU)>>]
    IN  merge[<<share.first.u, share.first.v>>]

BalancedCount(u, v, T, t) ==
    IF HasShare(u, v, T, t) THEN Merged(u, v, Share(u, v, T, t)) ELSE 0

----------------------------------------------------------------------------
(* Imbalanced                                                              *)

\* The operator with FLAG 1: a binary search of all of v for each element.
Found(v, x) ==
    LET search[range \in (0 .. Len(v)) \X (-1 .. Len(v) - 1)] ==
            LET low  == range[1]
                high == range[2]
                mid  == (low + high) \div 2
            IN  IF low > high THEN FALSE
                ELSE IF Cell(v, mid) = x THEN TRUE
                ELSE IF Cell(v, mid) > x THEN search[<<low, mid - 1>>]
                ELSE search[<<mid + 1, high>>]
    IN  search[<<0, Len(v) - 1>>]

ImbalancedCount(u, v, T, t) ==
    Cardinality({i \in Divide(Len(u), T, t) .. Divide(Len(u), T, t + 1) - 1 :
                    Found(v, Cell(u, i))})
=============================================================================
