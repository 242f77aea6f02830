------------------------------ MODULE MCHornet ------------------------------
(* Model checking instances of Hornet: two vertices, lists of up to four    *)
(* edges, blocks of one, two and four edges, arrays of two or four edges.   *)
EXTENDS Hornet, TLC

MCGraphs == {[v \in Vertices |-> <<>>],
             (0 :> <<1, 0, 1>>) @@ (1 :> <<0>>),
             (0 :> <<0, 1, 1, 0>>) @@ (1 :> <<>>)}

MCBatches == {<<<<0, 1>>>>,
              <<<<1, 0>>, <<0, 1>>>>,
              <<<<0, 1>>, <<0, 0>>, <<0, 1>>>>,
              <<<<1, 1>>, <<1, 1>>>>}

KeepAll   == {<<FALSE, FALSE>>}
OneOption == (BOOLEAN \X BOOLEAN) \ {<<TRUE, TRUE>>}

\* The program never compares or orders addresses.
Addresses == Permutations(Ptr)
=============================================================================
