---------------------------- MODULE DynamicGraph ----------------------------
(***************************************************************************)
(* What the Hornet data structure promises: a directed multigraph that     *)
(* batches of edges are inserted into and erased from, one call at a time. *)
(* An insert adds every edge of the batch, once per edge when the caller   *)
(* asks for batch duplicates to be removed, and no other edge; with graph  *)
(* duplicates removed it may add fewer.  An erase takes away as many       *)
(* copies of an edge as the batch has, or all there are.  The number of    *)
(* edges is what the multigraph has.  Nothing here knows of blocks,        *)
(* degrees, kernels or buffers.                                            *)
(***************************************************************************)
EXTENDS Integers, FiniteSets

CONSTANTS Vertices, Batches

VARIABLES request,         \* the call in progress, <<>> between calls
          copies,          \* copies[s, d]: how many edges s -> d there are
          edges            \* nE()

\* The flags of an insert: which duplicates the caller wants removed.
Options == [batchDuplicates : BOOLEAN, graphDuplicates : BOOLEAN]

Pairs == Vertices \X Vertices

CopiesIn(b, e) == Cardinality({i \in DOMAIN b : b[i] = e})
Least(m, n)    == IF m < n THEN m ELSE n

InsertCall(b, options) == /\ request = <<>>
                          /\ request' = <<"insert", b, options>>
                          /\ UNCHANGED <<copies, edges>>

EraseCall(b) == /\ request = <<>>
                /\ request' = <<"erase", b>>
                /\ UNCHANGED <<copies, edges>>

\* What a completed request may make of the number n of copies of edge e.
Added(e) == LET k == CopiesIn(request[2], e)
            IN  IF request[3].batchDuplicates THEN Least(1, k) ELSE k

Results(e, n) == IF request[1] = "erase" THEN {n - Least(n, CopiesIn(request[2], e))}
                 ELSE IF request[3].graphDuplicates THEN n .. n + Added(e)
                 ELSE {n + Added(e)}

\* How many edges a multigraph with c[s, d] edges s -> d has.
Total(c) == Cardinality(UNION {{e} \X (1 .. c[e]) : e \in Pairs})

Return == /\ request # <<>>
          /\ request' = <<>>
          /\ copies' \in [Pairs -> Nat]
          /\ \A e \in Pairs : copies'[e] \in Results(e, copies[e])
          /\ edges' = Total(copies')

Init == /\ request = <<>>
        /\ copies \in [Pairs -> Nat]
        /\ edges = Total(copies)

Next == \/ \E b \in Batches : EraseCall(b) \/ \E o \in Options : InsertCall(b, o)
        \/ Return

Spec == Init /\ [][Next]_<<request, copies, edges>>
============================================================================
