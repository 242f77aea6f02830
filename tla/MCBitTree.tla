----------------------------- MODULE MCBitTree -----------------------------
(***************************************************************************)
(* Model checking instance of BitTree: a full tree with a block behind     *)
(* every bit of its last level.  The shape is in the constants of the      *)
(* .cfg; BitTree_proofs has the properties for every shape.                *)
(***************************************************************************)
EXTENDS BitTree
============================================================================
