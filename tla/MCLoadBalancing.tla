-------------------------- MODULE MCLoadBalancing --------------------------
(* Model checking instance of LoadBalancing, blocks of two threads with two  *)
(* items each: all small arrays, and some with more positions without edges  *)
(* in a row than a chunk has cells, or with three blocks for few positions.  *)
EXTENDS LoadBalancing

Gaps == {<<1, 0, 0, 0, 0, 2>>, <<0, 0, 0, 0, 3, 3>>, <<4, 0, 0, 0, 0, 1>>,
         <<3, 0, 0, 2, 0, 0>>, <<9>>, <<5, 4>>, <<2, 0, 7, 0>>, <<1, 1, 1, 1, 1, 1>>}

MCInputs == Gaps \cup UNION {[1 .. n -> 0 .. 3] : n \in 1 .. 3}
=============================================================================
