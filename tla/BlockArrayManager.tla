------------------------- MODULE BlockArrayManager -------------------------
(***************************************************************************)
(* The memory manager of Hornet (Core/MemoryManager/BlockArray): it owns   *)
(* the block arrays, hands out a block of edges for a requested degree and *)
(* takes it back.  A block array is cut into blocks of one power-of-two    *)
(* size; the manager keeps the arrays of each size in a bin.  Inside an    *)
(* array the block is chosen first-fit (BitTree implements BlockPool).     *)
(*                                                                         *)
(* The module has the manager's state and its operations as action         *)
(* operators; Hornet, its only client, composes them into its own steps.   *)
(***************************************************************************)
EXTENDS Integers, FiniteSets

CONSTANTS Ptr,             \* the addresses a block array can be allocated at
          NullPtr,         \* the null address of a vertex without a block
          Sizes,           \* the block sizes: powers of two up to a bound
          MaxEdgesPerBlockArray

\* The powers of two a degree can be rounded up to, without a gap.
ASSUME SizesAssumption ==
    /\ Sizes \subseteq Nat \ {0}
    /\ 1 \in Sizes
    /\ \A p, q \in Sizes : p < q => 2 * p <= q
    /\ \A p \in Sizes \ {1} : \E q \in Sizes : p = 2 * q
ASSUME ArrayAssumption == /\ MaxEdgesPerBlockArray \in Sizes
                          /\ NullPtr \notin Ptr

VARIABLE arrays            \* _ba_map: the allocated arrays, by address

\* xlib::roundup_pow2, which is also the size 1 << ceil_log2(d) of the block
\* for degree d; find_bin(d) is the logarithm of it and names the same bin.
RoundupPow2(d) == IF d = 0 THEN 0 ELSE CHOOSE p \in Sizes : d <= p /\ p < 2 * d

Capacity(s) == IF s <= MaxEdgesPerBlockArray THEN MaxEdgesPerBlockArray ELSE s

\* Offsets of the blocks of an array with blocks of size s.
Offsets(s) == {o \in 0 .. Capacity(s) - 1 : o % s = 0}

FreeOffsets(p) == Offsets(arrays[p].size) \ arrays[p].used
FirstFree(S) == CHOOSE o \in S : \A q \in S : o <= q

Bin(s)      == {p \in DOMAIN arrays : arrays[p].size = s}
NotFull(s)  == {p \in Bin(s) : FreeOffsets(p) # {}}

----------------------------------------------------------------------------
\* insert(d) returns a null access for degree 0 ...
InsertNothing(d, p, o) == /\ d = 0
                          /\ p = NullPtr
                          /\ o = 0
                          /\ UNCHANGED arrays

\* ... a block of some array of the bin that is not full: the unordered_map
\* is searched in whatever order it iterates in ...
InsertInto(d, p, o) == /\ d # 0
                       /\ p \in NotFull(RoundupPow2(d))
                       /\ o = FirstFree(FreeOffsets(p))
                       /\ arrays' = [arrays EXCEPT ![p].used = @ \cup {o}]

\* ... or the first block of a new array when every array of the bin is full.
\* The address of the new array is one that no live array has.
NewArray(d, p, o) == /\ d # 0
                     /\ NotFull(RoundupPow2(d)) = {}
                     /\ p \in Ptr \ DOMAIN arrays
                     /\ o = 0
                     /\ arrays' = [q \in DOMAIN arrays \cup {p} |->
                                      IF q = p THEN [size |-> RoundupPow2(d), used |-> {0}]
                                               ELSE arrays[q]]

BlockInsert(d, p, o) ==
    InsertNothing(d, p, o) \/ InsertInto(d, p, o) \/ NewArray(d, p, o)

\* remove(d, p, o): the bin is computed from the degree the block was asked
\* for; at() throws when the bin has no array at p.
BlockRemove(d, p, o) == /\ p \in Bin(RoundupPow2(d))
                        /\ o \in arrays[p].used
                        /\ arrays' = [arrays EXCEPT ![p].used = @ \ {o}]
============================================================================
