----------------------------- MODULE BlockPool -----------------------------
(***************************************************************************)
(* What one BlockArray promises its manager: a fixed pool of equally sized *)
(* blocks of edges.  An insert hands out the first block that is not in    *)
(* use, a remove gives one block back.  The pool is abstract: no bit tree, *)
(* no words, no intermediate states.  BitTree implements it, and           *)
(* BlockArrayManager uses it for every block array it owns.                *)
(***************************************************************************)
EXTENDS Naturals

CONSTANT Blocks             \* the blocks of the array, a set of naturals

VARIABLE used               \* the blocks that are handed out

\* The block an insert returns when S is in use.
FirstFree(S) == CHOOSE b \in Blocks \ S : \A c \in Blocks \ S : b <= c

Init == used = {}

Insert == /\ used # Blocks
          /\ used' = used \cup {FirstFree(used)}

Remove(b) == /\ b \in used
             /\ used' = used \ {b}

Next == Insert \/ \E b \in Blocks : Remove(b)

Spec == Init /\ [][Next]_used
============================================================================
