------------------------------ MODULE BitTree ------------------------------
(***************************************************************************)
(* The vectorized bit tree that records which blocks of a BlockArray are   *)
(* free (hornet/include/Core/MemoryManager/BlockArray/BitTree).            *)
(*                                                                         *)
(* The tree is one array of words of W bits.  Its last level has a bit per *)
(* block, 1 when the block is available.  A bit of an internal level       *)
(* summarises one word of the next level: it is 1 when some bit of that    *)
(* word is 1.  Bit i summarises word i + 1, so the parent bit of word w is *)
(* bit w - 1; word 0 is the root and has no parent.                        *)
(*                                                                         *)
(* insert and remove are loops over the levels; each iteration is a step,  *)
(* so the loop invariants of the code are invariants of this module.       *)
(***************************************************************************)
EXTENDS Integers, FiniteSets

CONSTANTS W,              \* WORD_SIZE: bits per word (32 in the code)
          NumBlocks,      \* _num_blocks: blocks of the array
          BlockItems      \* _block_items: edges per block

ASSUME WordAssumption  == W \in Nat \ {0, 1}
ASSUME BlockAssumption == NumBlocks \in Nat \ {0} /\ BlockItems \in Nat \ {0}

VARIABLES avail,          \* the bits of _array that are 1
          size,           \* _size: blocks handed out
          pc,             \* which loop of which call is running
          index,          \* the local variable index of that loop
          level           \* the loop counter i of insert

vars == <<avail, size, pc, index, level>>

----------------------------------------------------------------------------
(* Geometry of the tree.                                                   *)

CeilDiv(a, b) == (a + b - 1) \div b

\* xlib::pow<WORD_SIZE>
Power[n \in Nat] == IF n = 0 THEN 1 ELSE W * Power[n - 1]

NumLevels == CHOOSE n \in 1 .. NumBlocks :
                 /\ Power[n] >= NumBlocks
                 /\ \A m \in 1 .. n - 1 : Power[m] < NumBlocks

\* Bits above level k, by the formula of geometric_serie: W + W^2 + ... + W^k.
LevelBase(k) == (Power[k + 1] - 1) \div (W - 1) - 1

InternalBits  == LevelBase(NumLevels - 1)
InternalWords == CeilDiv(InternalBits, W)
NumWords      == InternalWords + CeilDiv(NumBlocks, W)
TotalBits     == NumWords * W

WordOf(i)    == i \div W
BitsOf(w)    == w * W .. w * W + W - 1
IsZero(A, w) == A \cap BitsOf(w) = {}        \* _array[w] == 0
\* Fault for ImplementsPool: the first free block of a word is passed over.
SecondBit(A, w) == CHOOSE b \in A \cap BitsOf(w) :
                       Cardinality({c \in A \cap BitsOf(w) : c < b}) = 1

LowestBit(A, w) == CHOOSE b \in A \cap BitsOf(w) :
                       \A c \in A \cap BitsOf(w) : b <= c

Blocks == 0 .. NumBlocks - 1
Used   == {b \in Blocks : InternalBits + b \notin avail}

----------------------------------------------------------------------------
\* The constructor fills every word with ones, also the bits of the last
\* word that no block backs and the internal bits no word backs.
Init == /\ avail = 0 .. TotalBits - 1
        /\ size = 0
        /\ pc = "idle"
        /\ index = 0
        /\ level = 0

\* Fault for DescentFindsBlock: full() is true one block too late.
Full_Late == size > NumBlocks

\* insert(): the manager asks full() first, which the assert restates.
Full == size = NumBlocks

InsertBegin == /\ pc = "idle"
               /\ ~Full
               /\ size' = size + 1
               /\ index' = 0
               /\ level' = 0
               /\ pc' = "descend"
               /\ UNCHANGED avail

\* One internal level: follow the first set bit to the word it summarises.
Descend == /\ pc = "descend"
           /\ level < NumLevels - 1
           /\ index' = (LowestBit(avail, WordOf(index)) + 1) * W
           /\ level' = level + 1
           /\ UNCHANGED <<avail, size, pc>>

\* The last level: take the first set bit; a word that became zero has to
\* be reported to its parent.
Claim == /\ pc = "descend"
         /\ level = NumLevels - 1
         /\ LET bit == LowestBit(avail, WordOf(index))
            IN  /\ avail' = avail \ {bit}
                /\ index' = WordOf(bit)
                /\ pc' = IF IsZero(avail', WordOf(bit)) THEN "clear" ELSE "idle"
         /\ UNCHANGED <<size, level>>

\* Fault for SummaryExact: the climb of insert stops after one level.
ClearParent_Once ==
    /\ pc = "clear"
    /\ index # 0
    /\ avail' = avail \ {index - 1}
    /\ index' = WordOf(index - 1)
    /\ pc' = "idle"
    /\ UNCHANGED <<size, level>>

\* parent_traverse with the lambda of insert: clear the parent bit, go on
\* as long as the word it is in became zero too.
ClearParent == /\ pc = "clear"
               /\ index # 0
               /\ avail' = avail \ {index - 1}
               /\ index' = WordOf(index - 1)
               /\ pc' = IF IsZero(avail', WordOf(index - 1)) THEN "clear" ELSE "idle"
               /\ UNCHANGED <<size, level>>

\* Fault for SizeIsUsed: remove does not count the block.
RemoveBegin_Uncounted(diff) ==
    LET bit == diff \div BlockItems + InternalBits
    IN  /\ pc = "idle"
        /\ size # 0
        /\ bit \notin avail
        /\ avail' = avail \cup {bit}
        /\ index' = WordOf(bit)
        /\ pc' = "set"
        /\ UNCHANGED <<size, level>>

\* remove(diff): diff is the offset insert's caller got, block * BlockItems.
RemoveBegin(diff) ==
    LET bit == diff \div BlockItems + InternalBits
    IN  /\ pc = "idle"
        /\ size # 0
        /\ bit \notin avail
        /\ size' = size - 1
        /\ avail' = avail \cup {bit}
        /\ index' = WordOf(bit)
        /\ pc' = "set"
        /\ UNCHANGED level

\* parent_traverse with the lambda of remove: set the parent bit, go on
\* only if the word it is in was zero before.
SetParent == /\ pc = "set"
             /\ index # 0
             /\ avail' = avail \cup {index - 1}
             /\ index' = WordOf(index - 1)
             /\ pc' = IF IsZero(avail, WordOf(index - 1)) THEN "set" ELSE "idle"
             /\ UNCHANGED <<size, level>>

\* Fault for CallsReturn: the loop goes on at the root.
RootReached_Again == /\ pc \in {"clear", "set"}
                     /\ index = 0
                     /\ UNCHANGED vars

\* parent_traverse reached the root word, which has no parent bit.
RootReached == /\ pc \in {"clear", "set"}
               /\ index = 0
               /\ pc' = "idle"
               /\ UNCHANGED <<avail, size, index, level>>

Step == Descend \/ Claim \/ ClearParent \/ SetParent \/ RootReached

Next == \/ InsertBegin
        \/ \E b \in Blocks : RemoveBegin(b * BlockItems)
        \/ Step

\* A call that has started runs to its end: one host thread, no waiting.
Spec == Init /\ [][Next]_vars /\ WF_vars(Step)

----------------------------------------------------------------------------
(* Properties.                                                             *)

\* Between calls every internal bit is exact: it is 1 if and only if the
\* word it summarises has a 1 (insert and remove stop climbing early, and
\* each early stop must leave the levels above correct).
SummaryExact ==
    pc = "idle" =>
        \A w \in 1 .. NumWords - 1 : (w - 1 \in avail) <=> ~IsZero(avail, w)

\* The asserts inside insert: every word the descent enters exists and has a
\* bit to follow, and the bit taken in the last level is that of a block (not
\* a filler bit of the last word).
DescentFindsBlock ==
    pc = "descend" =>
        /\ index < TotalBits
        /\ ~IsZero(avail, WordOf(index))
        /\ level = NumLevels - 1 =>
               LowestBit(avail, WordOf(index)) - InternalBits \in Blocks

\* Between calls size() is the number of blocks in use, so full() is exact.
SizeIsUsed == pc = "idle" => size = Cardinality(Used)

\* The tree hands out first-fit and never hands out a block that is in use.
Pool == INSTANCE BlockPool WITH used <- Used
ImplementsPool == Pool!Spec

\* Every call returns: the parent loops reach the root.
CallsReturn == pc # "idle" ~> pc = "idle"
============================================================================
