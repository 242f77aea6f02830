--------------------------- MODULE BitTree_proofs ---------------------------
(***************************************************************************)
(* A bit tree is a first-fit pool, for every word size, every number of    *)
(* blocks (a power of the word size or not) and every block size: the      *)
(* summaries are exact between calls, the descent of an insert always      *)
(* finds the first block that is not in use, and the counter is right.     *)
(***************************************************************************)
EXTENDS BitTree, Enumeration

----------------------------------------------------------------------------
(* Words.                                                                  *)

\* A product with the word size grows by at least the word size.
LEMMA WordSteps ==
    ASSUME NEW a \in Int, NEW b \in Int, a < b
    PROVE  a * W \in Int /\ b * W \in Int /\ a * W + W <= b * W
<1>1. W \in Nat /\ b - a - 1 \in Nat
  BY WordAssumption
<1>2. PICK d \in Nat : d = b - a - 1
  BY <1>1
<1>3. d * W \in Nat
  BY <1>1
<1>4. b * W = (a + 1 + d) * W
  BY <1>2
<1>5. (a + 1 + d) * W = a * W + W + d * W
  BY <1>1, <1>2
<1>6. a * W \in Int /\ b * W \in Int
  BY <1>1
<1> QED BY <1>1, <1>3, <1>4, <1>5, <1>6

\* A bit is in its word and in no other.
LEMMA WordIs ==
    ASSUME NEW i \in Nat
    PROVE  /\ WordOf(i) \in Nat
           /\ i \in BitsOf(WordOf(i))
           /\ \A w \in Nat : i \in BitsOf(w) => w = WordOf(i)
<1>1. W \in Nat \ {0, 1}
  BY WordAssumption
<1>2. WordOf(i) \in Nat /\ WordOf(i) * W <= i /\ i <= WordOf(i) * W + W - 1
  BY <1>1 DEF WordOf
<1>3. PICK q \in Nat : q = WordOf(i)
  BY <1>2
<1>4. q * W \in Nat /\ q * W <= i /\ i <= q * W + W - 1
  BY <1>1, <1>2, <1>3
<1>5. i \in BitsOf(q)
  BY <1>4 DEF BitsOf
<1>6. ASSUME NEW w \in Nat, i \in BitsOf(w) PROVE w = q
  <2>1. w * W \in Nat /\ w * W <= i /\ i <= w * W + W - 1
    BY <1>1, <1>6 DEF BitsOf
  <2>2. ~(w < q)
    <3>1. w < q => w * W + W <= q * W
      BY WordSteps
    <3> QED BY <3>1, <2>1, <1>4, <1>1
  <2>3. ~(q < w)
    <3>1. q < w => q * W + W <= w * W
      BY WordSteps
    <3> QED BY <3>1, <2>1, <1>4, <1>1
  <2> QED BY <2>2, <2>3
<1> QED BY <1>3, <1>5, <1>6

\* The bits of a word, and the word of its first bit.
LEMMA BitsIn ==
    ASSUME NEW w \in Nat, NEW i \in BitsOf(w)
    PROVE  /\ i \in Nat /\ WordOf(i) = w
           /\ w * W \in Nat /\ w * W <= i /\ i <= w * W + W - 1
<1>1. W \in Nat \ {0, 1}
  BY WordAssumption
<1>2. w * W \in Nat
  BY <1>1
<1>3. i \in Nat /\ w * W <= i /\ i <= w * W + W - 1
  BY <1>1, <1>2 DEF BitsOf
<1> QED BY <1>2, <1>3, WordIs

\* A quotient that is rounded up.
LEMMA CeilDivIs ==
    ASSUME NEW n \in Nat
    PROVE  /\ CeilDiv(n, W) \in Nat
           /\ n <= CeilDiv(n, W) * W /\ CeilDiv(n, W) * W <= n + W - 1
<1>1. W \in Nat \ {0, 1} /\ n + W - 1 \in Nat
  BY WordAssumption
<1>2. CeilDiv(n, W) = WordOf(n + W - 1)
  BY DEF CeilDiv, WordOf
<1>3. PICK q \in Nat : q = WordOf(n + W - 1)
  BY <1>1, WordIs
<1>4. n + W - 1 \in BitsOf(q)
  BY <1>1, <1>3, WordIs
<1>5. q * W \in Nat /\ q * W <= n + W - 1 /\ n + W - 1 <= q * W + W - 1
  BY <1>4, BitsIn
<1> QED BY <1>1, <1>2, <1>3, <1>5

\* The parent bit of a word lies before the word.
LEMMA ParentBefore ==
    ASSUME NEW w \in Nat, w # 0
    PROVE  w - 1 \in Nat /\ WordOf(w - 1) \in Nat /\ WordOf(w - 1) < w
<1>1. w - 1 \in Nat /\ W \in Nat \ {0, 1}
  BY WordAssumption
<1>2. PICK q \in Nat : q = WordOf(w - 1)
  BY <1>1, WordIs
<1>3. q * W \in Nat /\ q * W <= w - 1
  BY <1>1, <1>2, WordIs, BitsIn
<1>4. q <= q * W
  <2>1. q * (W - 1) \in Nat
    BY <1>1
  <2>2. q * W = q * (W - 1) + q
    BY <1>1
  <2> QED BY <2>1, <2>2
<1> QED BY <1>1, <1>2, <1>3, <1>4

----------------------------------------------------------------------------
(* Levels.                                                                 *)

\* The powers of the word size.
LEMMA PowerIs ==
    /\ Power[0] = 1
    /\ \A n \in Nat : /\ Power[n] \in Nat \ {0}
                      /\ Power[n + 1] = W * Power[n]
<1> DEFINE S == Nat \ {0}
           start == 1
           f == [x \in S |-> W * x]
<1>0. W \in Nat \ {0, 1}
  BY WordAssumption
<1>1. start \in S
  OBVIOUS
<1>2. f \in [S -> S]
  <2>1. ASSUME NEW x \in S PROVE W * x \in S
    BY <1>0
  <2> QED BY <2>1
<1>3. PICK g \in [Nat -> S] : g[0] = start /\ \A n \in Nat : g[n + 1] = f[g[n]]
  <2> HIDE DEF S, start, f
  <2> QED BY <1>1, <1>2, Iterates
<1>4. \A n \in Nat : g[n + 1] = W * g[n]
  BY <1>3
<1>5. g = [n \in Nat |-> IF n = 0 THEN 1 ELSE W * g[n - 1]]
  <2>1. ASSUME NEW n \in Nat PROVE g[n] = IF n = 0 THEN 1 ELSE W * g[n - 1]
    <3>1. CASE n = 0
      BY <3>1, <1>3
    <3>2. CASE n # 0
      <4>1. n - 1 \in Nat /\ n = (n - 1) + 1
        BY <3>2
      <4>2. g[(n - 1) + 1] = W * g[n - 1]
        BY <4>1, <1>4
      <4> QED BY <3>2, <4>1, <4>2
    <3> QED BY <3>1, <3>2
  <2> HIDE DEF S
  <2> QED BY <1>3, <2>1
<1>6. Power = CHOOSE h : h = [n \in Nat |-> IF n = 0 THEN 1 ELSE W * h[n - 1]]
  BY DEF Power
<1>7. Power = [n \in Nat |-> IF n = 0 THEN 1 ELSE W * Power[n - 1]]
  BY <1>5, <1>6
<1>8. Power[0] = 1
  BY <1>7
<1>9. ASSUME NEW n \in Nat PROVE Power[n + 1] = W * Power[n]
  <2>1. n + 1 \in Nat /\ n + 1 # 0 /\ (n + 1) - 1 = n
    OBVIOUS
  <2> QED BY <1>7, <2>1
<1>10. \A n \in Nat : Power[n] \in S
  <2> DEFINE T == {n \in Nat : Power[n] \in S}
  <2>1. 0 \in T
    BY <1>8
  <2>2. ASSUME NEW n \in Nat, n \in T PROVE n + 1 \in T
    <3>1. W * Power[n] \in S
      BY <1>0, <2>2
    <3> QED BY <3>1, <1>9
  <2> HIDE DEF T
  <2>3. \A n \in Nat : n \in T
    BY <2>1, <2>2, SetInduction
  <2> QED BY <2>3 DEF T
<1> QED BY <1>8, <1>9, <1>10

\* The formula of the code counts the bits of a level and of those above it.
LEMMA LevelBaseIs ==
    /\ LevelBase(0) = 0
    /\ \A k \in Nat : /\ LevelBase(k) \in Nat
                      /\ LevelBase(k + 1) = (LevelBase(k) + 1) * W
                      /\ LevelBase(k + 1) = LevelBase(k) + Power[k + 1]
<1> DEFINE V == W - 1
<1>1. V \in Nat \ {0} /\ W \in Nat /\ W = V + 1
  BY WordAssumption
<1>2. \A n \in Nat : \E q \in Nat : Power[n] = q * V + 1
  <2> DEFINE T == {n \in Nat : \E q \in Nat : Power[n] = q * V + 1}
  <2>1. 0 \in T
    <3>1. Power[0] = 0 * V + 1
      BY PowerIs, <1>1
    <3> QED BY <3>1
  <2>2. ASSUME NEW n \in Nat, n \in T PROVE n + 1 \in T
    <3>1. PICK q \in Nat : Power[n] = q * V + 1
      BY <2>2
    <3>2. Power[n + 1] = (V + 1) * (q * V + 1)
      BY <3>1, <1>1, PowerIs
    <3>3. (V + 1) * (q * V + 1) = (q * W + 1) * V + 1
      <4> HIDE DEF V
      <4> QED BY <1>1
    <3>4. q * W + 1 \in Nat
      BY <1>1
    <3> HIDE DEF V
    <3> QED BY <3>2, <3>3, <3>4
  <2> HIDE DEF T
  <2>3. \A n \in Nat : n \in T
    BY <2>1, <2>2, SetInduction
  <2> QED BY <2>3 DEF T
<1>3. ASSUME NEW n \in Nat, NEW q \in Nat, Power[n] = q * V + 1
      PROVE  (Power[n] - 1) \div V = q
  <2> HIDE DEF V
  <2>1. q * V \in Nat /\ Power[n] - 1 = q * V
    BY <1>1, <1>3
  <2>2. (q * V) \div V = q
    BY <1>1
  <2> QED BY <2>1, <2>2
<1>4. \A k \in Nat : LevelBase(k) = ((Power[k + 1] - 1) \div V) - 1
  BY DEF LevelBase
<1>5. LevelBase(0) = 0
  <2>1. Power[1] = W * Power[0] /\ Power[0] = 1
    BY PowerIs
  <2>2. Power[1] = 1 * V + 1
    BY <2>1, <1>1
  <2>3. (Power[1] - 1) \div V = 1
    BY <2>2, <1>3
  <2> HIDE DEF V
  <2> QED BY <2>3, <1>4
<1>6. ASSUME NEW k \in Nat
      PROVE  /\ LevelBase(k) \in Nat
             /\ LevelBase(k + 1) = (LevelBase(k) + 1) * W
             /\ LevelBase(k + 1) = LevelBase(k) + Power[k + 1]
  <2>1. PICK q \in Nat : Power[k] = q * V + 1
    BY <1>2
  <2> HIDE DEF V
  <2>2. PICK a \in Nat : a = q * W + 1
    BY <1>1
  <2>3. PICK b \in Nat : b = a * W + 1
    BY <1>1
  <2>4. Power[k + 1] = a * V + 1
    <3>1. Power[k + 1] = (V + 1) * (q * V + 1)
      BY <2>1, <1>1, PowerIs
    <3> QED BY <3>1, <2>2, <1>1
  <2>5. Power[k + 1 + 1] = b * V + 1
    <3>1. Power[k + 1 + 1] = (V + 1) * (a * V + 1)
      BY <2>4, <1>1, PowerIs
    <3> QED BY <3>1, <2>3, <1>1
  <2>6. LevelBase(k) = a - 1 /\ LevelBase(k + 1) = b - 1
    BY <2>4, <2>5, <1>3, <1>4
  <2>7. a >= 1
    <3>1. q * W \in Nat
      BY <1>1
    <3> QED BY <3>1, <2>2
  <2>8. b - 1 = (a - 1 + 1) * W
    BY <2>3, <1>1
  <2>9. b - 1 = a - 1 + (a * V + 1)
    BY <2>3, <1>1
  <2> QED BY <2>4, <2>6, <2>7, <2>8, <2>9
<1> QED BY <1>5, <1>6

\* There are as many levels as it takes to give every block a bit.
LEMMA LevelsAre == NumLevels \in Nat \ {0} /\ NumBlocks <= Power[NumLevels]
<1> DEFINE T == {n \in Nat : n < Power[n]}
           Enough == {n \in 1 .. NumBlocks : Power[n] >= NumBlocks}
<1>1. W \in Nat \ {0, 1} /\ NumBlocks \in Nat \ {0}
  BY WordAssumption, BlockAssumption
<1>2. 0 \in T
  BY PowerIs
<1>3. ASSUME NEW n \in Nat, n \in T PROVE n + 1 \in T
  <2>1. PICK x \in Nat : x = Power[n]
    BY PowerIs
  <2>2. n < x /\ Power[n + 1] = W * x
    BY <1>3, <2>1, PowerIs
  <2>3. (W - 2) * x \in Nat
    BY <1>1
  <2>4. W * x = (W - 2) * x + x + x
    BY <1>1
  <2> QED BY <2>2, <2>3, <2>4
<1>4. NumBlocks \in T
  <2> HIDE DEF T
  <2> QED BY <1>1, <1>2, <1>3, SetInduction
<1>5. Enough \in SUBSET Nat /\ Enough # {}
  BY <1>1, <1>4, PowerIs
<1>6. PICK n \in Enough : \A m \in Enough : n <= m
  <2> HIDE DEF Enough
  <2> QED BY <1>5, LeastElement
<1>7. ASSUME NEW m \in 1 .. n - 1 PROVE Power[m] < NumBlocks
  <2>1. m \in 1 .. NumBlocks /\ ~(n <= m)
    BY <1>1, <1>6
  <2>2. m \notin Enough
    BY <1>6, <2>1
  <2>3. Power[m] \in Nat
    BY PowerIs
  <2> QED BY <1>1, <2>1, <2>2, <2>3
<1>8. /\ NumLevels \in 1 .. NumBlocks
      /\ Power[NumLevels] >= NumBlocks
  BY <1>6, <1>7 DEF NumLevels
<1> QED BY <1>1, <1>8, PowerIs

\* Every word but the root has a parent bit, and the last level a bit for every
\* block; no parent bit is the bit of a block.
LEMMA Shape ==
    /\ NumLevels \in Nat \ {0} /\ NumLevels - 1 \in Nat
    /\ InternalBits \in Nat /\ InternalBits = LevelBase(NumLevels - 1)
    /\ NumWords \in Nat \ {0} /\ NumWords - 1 <= InternalBits
    /\ TotalBits = NumWords * W /\ TotalBits \in Nat
    /\ InternalBits + NumBlocks <= TotalBits
    /\ TotalBits <= LevelBase(NumLevels)
<1>1. W \in Nat \ {0, 1} /\ NumBlocks \in Nat \ {0}
  BY WordAssumption, BlockAssumption
<1>2. PICK k \in Nat : NumLevels = k + 1
  <2>1. NumLevels - 1 \in Nat /\ NumLevels = (NumLevels - 1) + 1
    BY LevelsAre
  <2> QED BY <2>1
<1>3. PICK a \in Nat : a = LevelBase(k)
  BY LevelBaseIs
<1>4. InternalBits = a /\ NumLevels - 1 = k
  BY <1>2, <1>3 DEF InternalBits
<1>5. PICK e \in Nat : e = CeilDiv(NumBlocks, W)
  BY <1>1, CeilDivIs
<1>6. PICK p \in Nat : p = Power[k]
  BY PowerIs
<1>7. e * W \in Nat /\ NumBlocks <= e * W /\ e * W <= NumBlocks + W - 1
  BY <1>1, <1>5, CeilDivIs
<1>8. p * W \in Nat /\ NumBlocks <= p * W /\ LevelBase(NumLevels) = a + p * W
  <2>1. Power[k + 1] = W * p /\ W * p = p * W
    BY <1>1, <1>6, PowerIs
  <2> QED BY <1>1, <1>2, <1>3, <2>1, LevelsAre, LevelBaseIs
<1>9. e # 0
  BY <1>1, <1>7
<1>10. e <= p
  <2>1. p < e => p * W + W <= e * W
    BY WordSteps
  <2> QED BY <1>1, <1>7, <1>8, <2>1
<1>11. PICK i \in Nat : i = InternalWords /\ i * W = a /\ i + p - 1 <= a
  <2>1. CASE k = 0
    <3>1. a = 0 /\ p = 1
      BY <1>3, <1>6, <2>1, LevelBaseIs, PowerIs
    <3>2. PICK i \in Nat : i = CeilDiv(0, W)
      BY CeilDivIs
    <3>3. i * W \in Nat /\ i * W <= W - 1
      BY <1>1, <3>2, CeilDivIs
    <3>4. i = 0
      <4>1. 0 < i => 0 * W + W <= i * W
        BY WordSteps
      <4> QED BY <1>1, <3>3, <4>1
    <3>5. i = InternalWords
      BY <1>4, <3>1, <3>2 DEF InternalWords
    <3> QED BY <1>1, <3>1, <3>4, <3>5
  <2>2. CASE k # 0
    <3>1. PICK j \in Nat : k = j + 1
      <4>1. k - 1 \in Nat /\ k = (k - 1) + 1
        BY <2>2
      <4> QED BY <4>1
    <3>2. PICK b \in Nat : b = LevelBase(j)
      BY LevelBaseIs
    <3>3. a = (b + 1) * W /\ a = b + p
      BY <1>3, <1>6, <3>1, <3>2, LevelBaseIs
    <3>4. PICK i \in Nat : i = CeilDiv(a, W)
      BY CeilDivIs
    <3>5. i * W \in Nat /\ a <= i * W /\ i * W <= a + W - 1
      BY <1>1, <3>4, CeilDivIs
    <3>6. i = b + 1
      <4>1. i < b + 1 => i * W + W <= (b + 1) * W
        BY WordSteps
      <4>2. b + 1 < i => (b + 1) * W + W <= i * W
        BY WordSteps
      <4> QED BY <1>1, <3>3, <3>5, <4>1, <4>2
    <3>7. i = InternalWords
      BY <1>4, <3>4 DEF InternalWords
    <3> QED BY <3>3, <3>6, <3>7
  <2> QED BY <2>1, <2>2
<1>12. NumWords = i + e
  BY <1>5, <1>11 DEF NumWords
<1>13. TotalBits = a + e * W
  <2>1. (i + e) * W = i * W + e * W
    BY <1>1
  <2> QED BY <1>11, <1>12, <2>1 DEF TotalBits
<1>14. e * W <= p * W
  <2>1. e < p => e * W + W <= p * W
    BY WordSteps
  <2> QED BY <1>1, <1>7, <1>8, <1>10, <2>1
<1>15. TotalBits = NumWords * W
  BY DEF TotalBits
<1>16. NumWords \in Nat \ {0} /\ NumWords - 1 <= a
  BY <1>9, <1>10, <1>11, <1>12
<1>17. /\ TotalBits \in Nat /\ a + NumBlocks <= TotalBits
       /\ TotalBits <= LevelBase(NumLevels)
  BY <1>1, <1>7, <1>8, <1>13, <1>14
<1> QED BY <1>2, <1>3, <1>4, <1>15, <1>16, <1>17, LevelsAre

\* The bits of level k.
LevelBits(k) == LevelBase(k) .. LevelBase(k + 1) - 1

\* The parent of a word of one level is in the level above.
LEMMA ParentLevel ==
    ASSUME NEW k \in Nat, NEW c \in LevelBits(k + 1)
    PROVE  /\ c \in Nat /\ WordOf(c) \in Nat \ {0}
           /\ WordOf(c) - 1 \in LevelBits(k)
<1>1. W \in Nat \ {0, 1} /\ k + 1 \in Nat
  BY WordAssumption
<1>2. PICK a \in Nat : a = LevelBase(k)
  BY LevelBaseIs
<1>3. PICK b \in Nat : b = LevelBase(k + 1) /\ b = (a + 1) * W
  BY <1>1, <1>2, LevelBaseIs
<1>4. LevelBase(k + 1 + 1) = (b + 1) * W
  BY <1>1, <1>3, LevelBaseIs
<1>5. c \in Nat /\ b <= c /\ c < (b + 1) * W
  <2>1. (b + 1) * W \in Nat
    BY <1>1
  <2> QED BY <2>1, <1>3, <1>4 DEF LevelBits
<1>6. PICK w \in Nat : w = WordOf(c)
  BY <1>5, WordIs
<1>7. w * W \in Nat /\ w * W <= c /\ c <= w * W + W - 1
  BY <1>5, <1>6, WordIs, BitsIn
<1>8. a + 1 <= w
  <2>1. w < a + 1 => w * W + W <= (a + 1) * W
    BY WordSteps
  <2> QED BY <1>1, <1>3, <1>5, <1>7, <2>1
<1>9. w <= b
  <2>1. b + 1 < w => (b + 1) * W + W <= w * W
    BY WordSteps
  <2>2. w # b + 1
    BY <1>1, <1>5, <1>7
  <2>3. (b + 1) * W \in Nat
    BY <1>1
  <2> QED BY <1>1, <1>5, <1>7, <2>1, <2>2, <2>3
<1> QED BY <1>2, <1>3, <1>5, <1>6, <1>8, <1>9 DEF LevelBits

----------------------------------------------------------------------------
(* The inductive invariant.                                                *)

\* The words that have a parent bit.
Branches == 1 .. NumWords - 1

\* The parent bit of a word is right.
Exact(w) == w - 1 \in avail <=> ~IsZero(avail, w)

\* The bits are bits of the tree, the counter and the locals of the loops stay
\* within their ranges.
TypeOK == /\ avail \in SUBSET (0 .. TotalBits - 1)
          /\ size \in 0 .. NumBlocks
          /\ pc \in {"idle", "descend", "clear", "set"}
          /\ index \in Nat
          /\ level \in 0 .. NumLevels - 1

\* Every parent bit is right, but for the word that a climb has reached.
ExactButOne ==
    /\ pc \in {"idle", "descend"} => \A w \in Branches : Exact(w)
    /\ pc \in {"clear", "set"} => /\ index \in 0 .. NumWords - 1
                                  /\ \A w \in Branches : w # index => Exact(w)
    /\ pc = "clear" => IsZero(avail, index)
    /\ pc = "set" => ~IsZero(avail, index)

\* The counter is that of the blocks in use; an insert counts its block first.
Counted == size = Cardinality(Used) + IF pc = "descend" THEN 1 ELSE 0

\* A descent is at a word that has a bit, and no bit of the level lies before it.
OnFirst ==
    pc = "descend" =>
        /\ index = WordOf(index) * W
        /\ LevelBase(level) <= index /\ index + W <= LevelBase(level + 1)
        /\ ~IsZero(avail, WordOf(index))
        /\ \A c \in avail : LevelBase(level) <= c => index <= c

IInv == TypeOK /\ ExactButOne /\ Counted /\ OnFirst

----------------------------------------------------------------------------
(* What the invariant says about single bits.                              *)

\* The lowest bit of a word that has one.
LEMMA LowestIs ==
    ASSUME NEW A \in SUBSET Nat, NEW w \in Nat, ~IsZero(A, w)
    PROVE  /\ LowestBit(A, w) \in A /\ LowestBit(A, w) \in BitsOf(w)
           /\ \A c \in A \cap BitsOf(w) : LowestBit(A, w) <= c
<1> DEFINE S == A \cap BitsOf(w)
<1>1. S \in SUBSET Nat /\ S # {}
  BY DEF IsZero
<1>2. \E b \in S : \A c \in S : b <= c
  <2> HIDE DEF S
  <2> QED BY <1>1, LeastElement
<1> QED BY <1>2 DEF LowestBit

\* Every bit of the tree is in one of its words.
LEMMA WordInRange ==
    ASSUME NEW i \in 0 .. TotalBits - 1
    PROVE  i \in Nat /\ WordOf(i) \in Nat /\ WordOf(i) \in 0 .. NumWords - 1
<1>1. /\ W \in Nat \ {0, 1} /\ NumWords \in Nat
      /\ TotalBits = NumWords * W /\ TotalBits \in Nat
  BY WordAssumption, Shape
<1>2. PICK w \in Nat : w = WordOf(i)
  BY <1>1, WordIs
<1>3. w * W \in Nat /\ w * W <= i
  BY <1>1, <1>2, WordIs, BitsIn
<1>4. w < NumWords
  <2>1. NumWords < w => NumWords * W + W <= w * W
    BY <1>1, WordSteps
  <2>2. NumWords # w
    BY <1>1, <1>3
  <2> QED BY <1>1, <1>3, <2>1, <2>2
<1> QED BY <1>1, <1>2, <1>4

\* A word with a bit of the tree is not zero.
LEMMA HasBit ==
    ASSUME NEW A \in SUBSET Nat, NEW i \in A
    PROVE  WordOf(i) \in Nat /\ ~IsZero(A, WordOf(i))
<1>1. i \in BitsOf(WordOf(i)) /\ WordOf(i) \in Nat
  BY WordIs
<1> QED BY <1>1 DEF IsZero

\* The last bit of a level that has a word or a block below it.
LastReal(k) == IF k = NumLevels - 1 THEN InternalBits + NumBlocks - 1
                                    ELSE NumWords - 2

\* Between calls a free block can be seen on every level.
LEMMA FreeIsSeen ==
    ASSUME TypeOK, \A w \in Branches : Exact(w), Used # Blocks,
           NEW k \in 0 .. NumLevels - 1
    PROVE  \E c \in avail : c \in LevelBits(k) /\ c <= LastReal(k)
<1> DEFINE K == NumLevels - 1
           Seen(j) == \E c \in avail : c \in LevelBits(j) /\ c <= LastReal(j)
           S == {n \in Nat : n <= K => Seen(K - n)}
<1>1. /\ K \in Nat /\ K + 1 = NumLevels
      /\ NumBlocks \in Nat \ {0} /\ InternalBits \in Nat
      /\ InternalBits = LevelBase(K) /\ TotalBits \in Nat
      /\ InternalBits + NumBlocks <= TotalBits
      /\ TotalBits <= LevelBase(NumLevels) /\ LevelBase(NumLevels) \in Nat
  BY Shape, LevelBaseIs, BlockAssumption
<1>2. 0 \in S
  <2>1. PICK b \in Blocks : InternalBits + b \in avail
    BY DEF Used
  <2>2. b \in Nat /\ b < NumBlocks
    BY <1>1, <2>1 DEF Blocks
  <2>3. InternalBits + b \in LevelBits(K)
    BY <1>1, <2>2 DEF LevelBits
  <2>4. InternalBits + b <= LastReal(K)
    BY <1>1, <2>2 DEF LastReal
  <2>5. Seen(K)
    BY <2>1, <2>3, <2>4
  <2>6. K - 0 = K
    BY <1>1
  <2> HIDE DEF Seen, K
  <2> QED BY <2>5, <2>6
<1>3. ASSUME NEW n \in Nat, n \in S PROVE n + 1 \in S
  <2>1. SUFFICES ASSUME n + 1 <= K PROVE Seen(K - (n + 1))
    BY <1>1
  <2>2. PICK j \in Nat : j = K - (n + 1) /\ j + 1 = K - n /\ j # K
    BY <1>1, <2>1
  <2>3. PICK c \in avail : c \in LevelBits(j + 1) /\ c <= LastReal(j + 1)
    BY <1>1, <1>3, <2>1, <2>2
  <2>4. PICK w \in Nat \ {0} : w = WordOf(c) /\ w - 1 \in LevelBits(j)
    BY <2>2, <2>3, ParentLevel
  <2>5. w \in 0 .. NumWords - 1
    BY <2>3, <2>4, WordInRange DEF TypeOK
  <2>6. ~IsZero(avail, w)
    <3>1. avail \in SUBSET Nat
      BY <1>1 DEF TypeOK
    <3> QED BY <3>1, <2>3, <2>4, HasBit
  <2>7. w \in Branches /\ w - 1 <= NumWords - 2
    BY <2>4, <2>5, Shape DEF Branches
  <2>8. w - 1 \in avail
    BY <2>6, <2>7 DEF Exact
  <2>9. LastReal(j) = NumWords - 2
    BY <2>2 DEF LastReal
  <2>10. Seen(j)
    BY <2>4, <2>7, <2>8, <2>9
  <2> HIDE DEF Seen, K
  <2> QED BY <2>2, <2>10
<1> HIDE DEF S
<1>4. \A n \in Nat : n \in S
  BY <1>2, <1>3, SetInduction
<1>5. K - k \in Nat /\ K - k <= K /\ K - (K - k) = k
  BY <1>1
<1>6. Seen(K - (K - k))
  <2> HIDE DEF K, Seen
  <2> QED BY <1>4, <1>5 DEF S
<1> QED
  <2> HIDE DEF K
  <2> QED BY <1>5, <1>6

\* The blocks in use.
LEMMA UsedIs ==
    /\ IsFiniteSet(Blocks) /\ Cardinality(Blocks) = NumBlocks
    /\ Used \subseteq Blocks /\ IsFiniteSet(Used) /\ Cardinality(Used) \in Nat
<1>1. IsFiniteSet(Blocks) /\ Cardinality(Blocks) = NumBlocks
  <2>1. 0 \in Int /\ NumBlocks - 1 \in Int /\ (NumBlocks - 1) - 0 + 1 = NumBlocks /\ 0 <= NumBlocks - 1
    BY BlockAssumption
  <2> QED BY <2>1, FS_Interval DEF Blocks
<1>2. Used \subseteq Blocks
  BY DEF Used
<1> QED BY <1>1, <1>2, FS_Subset, FS_CardinalityType

\* The next bit of a descent is the first one of its level, and there is a word
\* or a block below it.
LEMMA Descending ==
    ASSUME IInv, pc = "descend"
    PROVE  \E c \in avail : /\ c = LowestBit(avail, WordOf(index))
                            /\ c \in Nat /\ c \in LevelBits(level)
                            /\ c <= LastReal(level)
                            /\ \A d \in avail : LevelBase(level) <= d => c <= d
<1>1. /\ avail \in SUBSET Nat /\ level \in Nat /\ level \in 0 .. NumLevels - 1
      /\ W \in Nat /\ index \in Nat
  BY WordAssumption, Shape DEF IInv, TypeOK
<1>2. PICK w \in Nat : w = WordOf(index) /\ index = w * W
  BY <1>1, WordIs DEF IInv, OnFirst
<1>3. PICK a \in Nat, b \in Nat : a = LevelBase(level) /\ b = LevelBase(level + 1)
  BY <1>1, LevelBaseIs
<1>4. a <= index /\ index + W <= b /\ ~IsZero(avail, w)
      /\ \A d \in avail : a <= d => index <= d
  BY <1>2, <1>3 DEF IInv, OnFirst
<1>5. PICK c \in avail : /\ c = LowestBit(avail, w) /\ c \in BitsOf(w)
                         /\ \A d \in avail \cap BitsOf(w) : c <= d
  <2>1. ~IsZero(avail, w)
    BY <1>4
  <2>2. /\ LowestBit(avail, w) \in avail /\ LowestBit(avail, w) \in BitsOf(w)
        /\ \A d \in avail \cap BitsOf(w) : LowestBit(avail, w) <= d
    BY <1>1, <2>1, LowestIs
  <2> QED BY <2>2
<1>6. c \in Nat /\ index <= c /\ c <= index + W - 1
  BY <1>2, <1>5, BitsIn
<1>7. ASSUME NEW d \in avail, a <= d PROVE c <= d
  <2>1. d \in Nat /\ index <= d
    BY <1>1, <1>4, <1>7
  <2>2. d <= index + W - 1 => d \in BitsOf(w)
    BY <1>1, <1>2, <2>1 DEF BitsOf
  <2> QED BY <1>1, <1>5, <1>6, <2>1, <2>2
<1>8. c <= LastReal(level)
  <2>1. Used # Blocks
    BY UsedIs DEF IInv, Counted, TypeOK
  <2>2. \A v \in Branches : Exact(v)
    BY DEF IInv, ExactButOne
  <2>3. PICK d \in avail : d \in LevelBits(level) /\ d <= LastReal(level)
    BY <1>1, <2>1, <2>2, FreeIsSeen DEF IInv
  <2>4. d \in Nat /\ a <= d
    BY <1>1, <1>3, <2>3 DEF LevelBits
  <2>5. LastReal(level) \in Int
    BY Shape, BlockAssumption DEF LastReal
  <2> QED BY <1>6, <1>7, <2>3, <2>4, <2>5
<1>9. c \in LevelBits(level)
  BY <1>1, <1>3, <1>4, <1>6 DEF LevelBits
<1> QED BY <1>2, <1>3, <1>5, <1>6, <1>7, <1>8, <1>9

----------------------------------------------------------------------------
(* What a change of one bit does.                                          *)

\* A bit that is set or cleared changes no other word.
LEMMA OtherWords ==
    ASSUME NEW A \in SUBSET Nat, NEW b \in Nat, NEW w \in Nat, w # WordOf(b)
    PROVE  /\ IsZero(A \cup {b}, w) <=> IsZero(A, w)
           /\ IsZero(A \ {b}, w) <=> IsZero(A, w)
<1>1. b \notin BitsOf(w)
  BY WordIs
<1> QED BY <1>1 DEF IsZero

\* A parent bit is not the bit of a block.
LEMMA ParentIsInternal ==
    ASSUME NEW w \in Branches
    PROVE  /\ w \in Nat /\ w - 1 \in Nat /\ w - 1 < InternalBits
           /\ w - 1 \in 0 .. TotalBits - 1
<1>1. /\ NumWords \in Nat /\ InternalBits \in Nat /\ NumBlocks \in Nat
      /\ TotalBits \in Nat
      /\ NumWords - 1 <= InternalBits /\ InternalBits + NumBlocks <= TotalBits
  BY Shape, BlockAssumption
<1>2. w \in Nat /\ 1 <= w /\ w <= NumWords - 1
  BY <1>1 DEF Branches
<1> QED BY <1>1, <1>2

\* The blocks in use depend on the bits of the last level only.
LEMMA UsedKept ==
    ASSUME NEW w \in Branches, avail' = avail \cup {w - 1} \/ avail' = avail \ {w - 1}
    PROVE  Used' = Used
<1>1. w - 1 < InternalBits /\ w - 1 \in Nat
  BY ParentIsInternal
<1>2. ASSUME NEW b \in Blocks PROVE InternalBits + b # w - 1
  <2>1. b \in Nat /\ InternalBits \in Nat
    BY Shape, BlockAssumption DEF Blocks
  <2> QED BY <1>1, <2>1
<1> QED BY <1>2 DEF Used

----------------------------------------------------------------------------
(* The steps of insert.                                                    *)

\* The descent begins at the root, which has a bit while a block is free.
LEMMA InsertBeginKeeps == IInv /\ InsertBegin => IInv' /\ Used' = Used
<1> SUFFICES ASSUME IInv, InsertBegin PROVE IInv' /\ Used' = Used
  OBVIOUS
<1>1. /\ pc = "idle" /\ pc' = "descend" /\ index' = 0 /\ level' = 0
      /\ size # NumBlocks /\ size' = size + 1 /\ avail' = avail
  BY DEF InsertBegin, Full
<1>2. Used' = Used
  BY <1>1 DEF Used
<1>3. /\ W \in Nat \ {0, 1} /\ NumLevels - 1 \in Nat /\ avail \in SUBSET Nat
      /\ NumBlocks \in Nat \ {0}
  BY Shape, WordAssumption, BlockAssumption DEF IInv, TypeOK
<1>4. TypeOK'
  BY <1>1, <1>3 DEF IInv, TypeOK
<1>5. ExactButOne'
  BY <1>1 DEF IInv, ExactButOne, Exact
<1>6. Counted'
  BY <1>1, <1>2, UsedIs DEF IInv, Counted
<1>7. WordOf(0) = 0
  <2>1. 0 \in BitsOf(0)
    BY <1>3 DEF BitsOf
  <2> QED BY <2>1, WordIs
<1>8. LevelBase(0) = 0 /\ LevelBase(0 + 1) = W
  BY <1>3, LevelBaseIs
<1>9. ~IsZero(avail, 0)
  <2>1. Used # Blocks
    BY <1>1, UsedIs DEF IInv, Counted
  <2>2. \A w \in Branches : Exact(w)
    BY <1>1 DEF IInv, ExactButOne
  <2>3. 0 \in 0 .. NumLevels - 1
    BY <1>3
  <2>4. PICK c \in avail : c \in LevelBits(0)
    BY <2>1, <2>2, <2>3, FreeIsSeen DEF IInv
  <2>5. c \in BitsOf(0)
    BY <1>3, <1>8, <2>4 DEF LevelBits, BitsOf
  <2> QED BY <2>4, <2>5 DEF IsZero
<1>10. OnFirst'
  <2>1. \A c \in avail : 0 <= c
    BY <1>3
  <2>2. 0 = 0 * W /\ 0 + W <= W
    BY <1>3
  <2> QED BY <1>1, <1>7, <1>8, <1>9, <2>1, <2>2 DEF OnFirst
<1> QED BY <1>2, <1>4, <1>5, <1>6, <1>10 DEF IInv

\* The word below the first bit of a level is the first one with a bit.
LEMMA DescendKeeps == IInv /\ Descend => IInv' /\ Used' = Used
<1> SUFFICES ASSUME IInv, Descend PROVE IInv' /\ Used' = Used
  OBVIOUS
<1>1. /\ pc = "descend" /\ pc' = pc /\ level < NumLevels - 1 /\ level' = level + 1
      /\ index' = (LowestBit(avail, WordOf(index)) + 1) * W
      /\ avail' = avail /\ size' = size
  BY DEF Descend
<1>2. Used' = Used
  BY <1>1 DEF Used
<1>3. /\ W \in Nat \ {0, 1} /\ NumLevels - 1 \in Nat /\ NumWords \in Nat
      /\ avail \in SUBSET Nat /\ level \in Nat
      /\ avail \in SUBSET (0 .. TotalBits - 1)
  BY Shape, WordAssumption DEF IInv, TypeOK
<1>4. PICK c \in avail : /\ c = LowestBit(avail, WordOf(index))
                         /\ c \in Nat /\ c \in LevelBits(level)
                         /\ c <= LastReal(level)
                         /\ \A d \in avail : LevelBase(level) <= d => c <= d
  BY <1>1, Descending
<1>5. PICK a \in Nat, b \in Nat : a = LevelBase(level) /\ b = LevelBase(level + 1)
  BY <1>3, LevelBaseIs
<1>6. /\ b = (a + 1) * W /\ LevelBase(level + 1 + 1) = (b + 1) * W
      /\ a <= c /\ c <= b - 1 /\ c <= NumWords - 2
  BY <1>1, <1>3, <1>4, <1>5, LevelBaseIs DEF LevelBits, LastReal
<1>7. PICK i \in Nat : i = (c + 1) * W
  BY <1>3
<1>8. index' = i /\ WordOf(i) = c + 1 /\ c + 1 \in Nat
  <2>1. i \in BitsOf(c + 1)
    BY <1>3, <1>7 DEF BitsOf
  <2> QED BY <1>1, <1>4, <1>7, <2>1, WordIs
<1>9. TypeOK'
  BY <1>1, <1>3, <1>8 DEF IInv, TypeOK
<1>10. ExactButOne'
  BY <1>1 DEF IInv, ExactButOne, Exact
<1>11. Counted'
  BY <1>1, <1>2 DEF IInv, Counted
<1>12. b <= i /\ i + W <= (b + 1) * W
  <2>1. a < c => (a + 1) * W + W <= (c + 1) * W
    <3>1. a + 1 \in Int /\ c + 1 \in Int /\ (a < c => a + 1 < c + 1)
      BY <1>4
    <3> QED BY <3>1, WordSteps
  <2>2. c + 1 < b + 1 => (c + 1) * W + W <= (b + 1) * W
    <3>1. b + 1 \in Int /\ c + 1 \in Int
      BY <1>4
    <3> QED BY <3>1, WordSteps
  <2>3. c = a \/ a < c
    BY <1>4, <1>6
  <2>4. b \in Nat /\ c + 1 < b + 1
    BY <1>4, <1>6
  <2>5. b <= i
    BY <1>3, <1>6, <1>7, <2>1, <2>3
  <2> QED BY <1>7, <2>2, <2>4, <2>5
<1>13. \A w \in Branches : Exact(w)
  BY <1>1 DEF IInv, ExactButOne
<1>14. ~IsZero(avail, c + 1)
  <2>1. c + 1 \in Branches /\ c + 1 - 1 = c
    BY <1>3, <1>4, <1>6 DEF Branches
  <2>2. PICK v \in Branches : v = c + 1 /\ v - 1 = c
    BY <1>4, <2>1
  <2>3. Exact(v)
    BY <1>13
  <2> QED BY <2>2, <2>3 DEF Exact
<1>15. ASSUME NEW d \in avail, b <= d PROVE i <= d
  <2>1. SUFFICES ASSUME d < i PROVE FALSE
    BY <1>3, <1>7
  <2>2. d \in LevelBits(level + 1)
    <3>1. d < (b + 1) * W /\ (b + 1) * W \in Nat /\ d \in Nat
      BY <1>3, <1>12, <2>1
    <3> QED BY <1>5, <1>6, <1>15, <3>1 DEF LevelBits
  <2>3. PICK w \in Nat \ {0} : w = WordOf(d) /\ w - 1 \in LevelBits(level)
    BY <1>3, <2>2, ParentLevel
  <2>4. w - 1 \in avail
    <3>1. w \in 0 .. NumWords - 1
      BY <1>3, <2>3, WordInRange
    <3>2. w \in Branches
      BY <1>3, <2>3, <3>1 DEF Branches
    <3>3. ~IsZero(avail, w)
      BY <1>3, <2>3, HasBit
    <3>4. Exact(w)
      BY <1>13, <3>2
    <3> QED BY <3>3, <3>4 DEF Exact
  <2>5. c <= w - 1
    <3>1. a <= w - 1
      BY <1>5, <2>3 DEF LevelBits
    <3> QED BY <1>4, <1>5, <2>4, <3>1
  <2>6. w * W \in Nat /\ w * W <= d /\ d \in Nat
    BY <1>3, <2>3, WordIs, BitsIn
  <2>7. c + 1 < w => (c + 1) * W + W <= w * W
    <3>1. c + 1 \in Int
      BY <1>4
    <3> QED BY <3>1, WordSteps
  <2> QED BY <1>3, <1>4, <1>7, <2>1, <2>5, <2>6, <2>7
<1>16. OnFirst'
  <2>1. LevelBase(level') = b /\ LevelBase(level' + 1) = (b + 1) * W
    BY <1>1, <1>5, <1>6
  <2>2. i = WordOf(i) * W
    BY <1>7, <1>8
  <2> QED BY <1>1, <1>8, <1>12, <1>14, <1>15, <2>1, <2>2 DEF OnFirst
<1> QED BY <1>2, <1>9, <1>10, <1>11, <1>16 DEF IInv

\* In the last level it is the bit of the first free block.
LEMMA ClaimKeeps ==
    IInv /\ Claim => /\ IInv'
                     /\ \E b \in Blocks \ Used : /\ Used' = Used \cup {b}
                                                 /\ \A c \in Blocks \ Used : b <= c
<1> SUFFICES ASSUME IInv, Claim
             PROVE  /\ IInv'
                    /\ \E b \in Blocks \ Used : /\ Used' = Used \cup {b}
                                                /\ \A c \in Blocks \ Used : b <= c
  OBVIOUS
<1>1. /\ W \in Nat \ {0, 1} /\ NumLevels - 1 \in Nat /\ NumWords \in Nat
      /\ NumBlocks \in Nat \ {0} /\ InternalBits \in Nat /\ TotalBits \in Nat
      /\ InternalBits = LevelBase(NumLevels - 1)
      /\ avail \in SUBSET Nat
      /\ avail \in SUBSET (0 .. TotalBits - 1)
  BY Shape, WordAssumption, BlockAssumption DEF IInv, TypeOK
<1>2. pc = "descend" /\ level = NumLevels - 1 /\ size' = size /\ level' = level
  BY DEF Claim
<1>3. PICK c \in avail : /\ c = LowestBit(avail, WordOf(index))
                         /\ c \in Nat /\ c \in LevelBits(level)
                         /\ c <= LastReal(level)
                         /\ \A d \in avail : LevelBase(level) <= d => c <= d
  BY <1>2, Descending
<1>4. PICK w \in Nat : w = WordOf(c) /\ w \in 0 .. NumWords - 1
  BY <1>1, <1>3, WordInRange
<1>5. /\ avail' = avail \ {c} /\ index' = w
      /\ pc' = IF IsZero(avail', w) THEN "clear" ELSE "idle"
  BY <1>3, <1>4 DEF Claim
<1>6. /\ InternalBits <= c /\ c <= InternalBits + NumBlocks - 1
      /\ \A d \in avail : InternalBits <= d => c <= d
  BY <1>1, <1>2, <1>3 DEF LastReal, LevelBits
<1>7. PICK b \in Blocks : c = InternalBits + b
  <2>1. c - InternalBits \in Blocks /\ c = InternalBits + (c - InternalBits)
    BY <1>1, <1>3, <1>6 DEF Blocks
  <2> QED BY <2>1
<1>8. \A d \in Blocks : d \in Nat
  BY DEF Blocks
<1>9. b \notin Used /\ Used' = Used \cup {b}
  <2>1. \A d \in Blocks : InternalBits + d = c <=> d = b
    BY <1>1, <1>7, <1>8
  <2> QED BY <1>5, <1>7, <2>1 DEF Used
<1>10. ASSUME NEW d \in Blocks \ Used PROVE b <= d
  <2>1. InternalBits + d \in avail /\ d \in Nat
    BY <1>8 DEF Used
  <2>2. c <= InternalBits + d
    BY <1>1, <1>6, <2>1
  <2> QED BY <1>1, <1>7, <1>8, <2>1, <2>2
<1>11. TypeOK'
  BY <1>1, <1>2, <1>4, <1>5 DEF IInv, TypeOK
<1>12. Counted'
  <2>1. Cardinality(Used') = Cardinality(Used) + 1
    BY <1>9, UsedIs, FS_AddElement
  <2>2. pc' # "descend"
    BY <1>5
  <2> QED BY <1>2, <2>1, <2>2, UsedIs DEF IInv, Counted
<1>13. ASSUME NEW v \in Branches, v # w PROVE Exact(v)'
  <2>1. v \in Nat /\ v - 1 # c
    BY <1>1, <1>3, <1>6, ParentIsInternal
  <2>2. IsZero(avail', v) <=> IsZero(avail, v)
    BY <1>1, <1>3, <1>4, <1>5, <1>13, <2>1, OtherWords
  <2>3. Exact(v)
    BY <1>2 DEF IInv, ExactButOne
  <2> QED BY <1>5, <2>1, <2>2, <2>3 DEF Exact
<1>14. ExactButOne'
  <2>1. CASE IsZero(avail', w)
    <3>1. pc' = "clear"
      BY <1>5, <2>1
    <3> QED BY <1>4, <1>5, <1>13, <2>1, <3>1 DEF ExactButOne
  <2>2. CASE ~IsZero(avail', w)
    <3>1. pc' = "idle"
      BY <1>5, <2>2
    <3>2. ASSUME w \in Branches PROVE Exact(w)'
      <4>1. w - 1 # c /\ w \in Nat
        BY <1>1, <1>3, <1>6, <3>2, ParentIsInternal
      <4>2. ~IsZero(avail, w)
        BY <1>5, <2>2 DEF IsZero
      <4>3. Exact(w)
        BY <1>2, <3>2 DEF IInv, ExactButOne
      <4> QED BY <1>5, <2>2, <4>1, <4>2, <4>3 DEF Exact
    <3>3. \A v \in Branches : Exact(v)'
      BY <1>13, <3>2
    <3> QED BY <3>1, <3>3 DEF ExactButOne
  <2> QED BY <2>1, <2>2
<1>15. OnFirst'
  <2>1. pc' # "descend"
    BY <1>5
  <2> QED BY <2>1 DEF OnFirst
<1> QED BY <1>9, <1>10, <1>11, <1>12, <1>14, <1>15 DEF IInv

----------------------------------------------------------------------------
(* The steps of remove, and the climbs.                                    *)

\* The bit of the block is set; its word is the first one of the climb.
LEMMA RemoveBeginKeeps ==
    ASSUME IInv, NEW b \in Blocks, RemoveBegin(b * BlockItems)
    PROVE  IInv' /\ b \in Used /\ Used' = Used \ {b}
<1>1. /\ W \in Nat \ {0, 1} /\ NumWords \in Nat /\ BlockItems \in Nat \ {0}
      /\ NumBlocks \in Nat \ {0} /\ InternalBits \in Nat /\ TotalBits \in Nat
      /\ InternalBits + NumBlocks <= TotalBits
      /\ avail \in SUBSET Nat /\ b \in Nat /\ b < NumBlocks
  BY Shape, WordAssumption, BlockAssumption DEF IInv, TypeOK, Blocks
<1>2. PICK c \in Nat : c = b + InternalBits
  BY <1>1
<1>3. (b * BlockItems) \div BlockItems = b
  BY <1>1
<1>4. /\ pc = "idle" /\ pc' = "set" /\ size # 0 /\ size' = size - 1 /\ level' = level
      /\ c \notin avail /\ avail' = avail \cup {c} /\ index' = WordOf(c)
  BY <1>2, <1>3 DEF RemoveBegin
<1>5. c \in 0 .. TotalBits - 1 /\ InternalBits <= c
  BY <1>1, <1>2
<1>6. PICK w \in Nat : w = WordOf(c) /\ w \in 0 .. NumWords - 1
  BY <1>5, WordInRange
<1>7. TypeOK'
  BY <1>1, <1>4, <1>5, <1>6 DEF IInv, TypeOK
<1>8. b \in Used /\ Used' = Used \ {b}
  <2>1. \A d \in Blocks : InternalBits + d = c <=> d = b
    BY <1>1, <1>2 DEF Blocks
  <2> QED BY <1>4, <2>1 DEF Used
<1>9. Counted'
  <2>1. Cardinality(Used') = Cardinality(Used) - 1
    BY <1>8, UsedIs, FS_RemoveElement
  <2> QED BY <1>4, <2>1, UsedIs DEF IInv, Counted
<1>10. ASSUME NEW v \in Branches, v # w PROVE Exact(v)'
  <2>1. v \in Nat /\ v - 1 # c
    BY <1>1, <1>5, ParentIsInternal
  <2>2. IsZero(avail', v) <=> IsZero(avail, v)
    BY <1>1, <1>4, <1>6, <1>10, <2>1, OtherWords
  <2>3. Exact(v)
    BY <1>4 DEF IInv, ExactButOne
  <2> QED BY <1>4, <2>1, <2>2, <2>3 DEF Exact
<1>11. ~IsZero(avail', w)
  <2>1. avail' \in SUBSET Nat /\ c \in avail'
    BY <1>1, <1>4
  <2> QED BY <1>6, <2>1, HasBit
<1>12. ExactButOne' /\ OnFirst'
  BY <1>4, <1>6, <1>10, <1>11 DEF ExactButOne, OnFirst
<1> QED BY <1>7, <1>8, <1>9, <1>12 DEF IInv

\* A climb that clears stops at a word that keeps a bit: its parent bit was set.
LEMMA ClearParentKeeps == IInv /\ ClearParent => IInv' /\ Used' = Used
<1> SUFFICES ASSUME IInv, ClearParent PROVE IInv' /\ Used' = Used
  OBVIOUS
<1>1. /\ NumWords \in Nat /\ avail \in SUBSET Nat /\ TotalBits \in Nat
      /\ avail \in SUBSET (0 .. TotalBits - 1)
  BY Shape DEF IInv, TypeOK
<1>2. /\ pc = "clear" /\ index # 0 /\ index \in 0 .. NumWords - 1
      /\ size' = size /\ level' = level /\ IsZero(avail, index)
      /\ \A v \in Branches : v # index => Exact(v)
  BY DEF ClearParent, IInv, ExactButOne
<1>3. PICK i \in Branches : i = index
  BY <1>1, <1>2 DEF Branches
<1>4. PICK c \in Nat : c = i - 1 /\ c \in 0 .. TotalBits - 1 /\ i \in Nat /\ i # 0
  BY <1>2, <1>3, ParentIsInternal
<1>5. PICK w \in Nat : w = WordOf(c) /\ w \in 0 .. NumWords - 1
  BY <1>4, WordInRange
<1>6. w # i /\ w < i
  BY <1>4, <1>5, ParentBefore
<1>7. /\ avail' = avail \ {c} /\ index' = w
      /\ pc' = IF IsZero(avail', w) THEN "clear" ELSE "idle"
  BY <1>3, <1>4, <1>5 DEF ClearParent
<1>8. Used' = Used
  BY <1>4, <1>7, UsedKept
<1>9. TypeOK'
  BY <1>1, <1>2, <1>5, <1>7 DEF IInv, TypeOK
<1>10. Counted' /\ OnFirst'
  BY <1>2, <1>7, <1>8 DEF IInv, Counted, OnFirst
<1>11. ASSUME NEW v \in Branches, v # w PROVE Exact(v)'
  <2>1. v \in Nat
    BY ParentIsInternal
  <2>2. IsZero(avail', v) <=> IsZero(avail, v)
    BY <1>1, <1>5, <1>7, <1>11, <2>1, OtherWords
  <2>3. CASE v = i
    <3>1. v - 1 \notin avail'
      BY <1>4, <1>7, <2>3
    <3> QED BY <1>2, <1>3, <2>2, <2>3, <3>1 DEF Exact
  <2>4. CASE v # i
    <3>1. v - 1 # c
      BY <1>4, <2>1, <2>4
    <3>2. Exact(v)
      BY <1>2, <1>3, <2>4
    <3> QED BY <1>7, <2>2, <3>1, <3>2 DEF Exact
  <2> QED BY <2>3, <2>4
<1>12. ExactButOne'
  <2>1. CASE IsZero(avail', w)
    <3>1. pc' = "clear"
      BY <1>7, <2>1
    <3> QED BY <1>5, <1>7, <1>11, <2>1, <3>1 DEF ExactButOne
  <2>2. CASE ~IsZero(avail', w)
    <3>1. pc' = "idle"
      BY <1>7, <2>2
    <3>2. ASSUME w \in Branches PROVE Exact(w)'
      <4>1. w - 1 # c
        BY <1>4, <1>5, <1>6
      <4>2. ~IsZero(avail, w)
        BY <1>7, <2>2 DEF IsZero
      <4>3. Exact(w)
        BY <1>2, <1>3, <1>6, <3>2
      <4> QED BY <1>7, <2>2, <4>1, <4>2, <4>3 DEF Exact
    <3>3. \A v \in Branches : Exact(v)'
      BY <1>11, <3>2
    <3> QED BY <3>1, <3>3 DEF ExactButOne
  <2> QED BY <2>1, <2>2
<1> QED BY <1>8, <1>9, <1>10, <1>12 DEF IInv

\* A climb that sets stops at a word that had a bit before: its parent bit is set.
LEMMA SetParentKeeps == IInv /\ SetParent => IInv' /\ Used' = Used
<1> SUFFICES ASSUME IInv, SetParent PROVE IInv' /\ Used' = Used
  OBVIOUS
<1>1. /\ NumWords \in Nat /\ avail \in SUBSET Nat /\ TotalBits \in Nat
      /\ avail \in SUBSET (0 .. TotalBits - 1)
  BY Shape DEF IInv, TypeOK
<1>2. /\ pc = "set" /\ index # 0 /\ index \in 0 .. NumWords - 1
      /\ size' = size /\ level' = level /\ ~IsZero(avail, index)
      /\ \A v \in Branches : v # index => Exact(v)
  BY DEF SetParent, IInv, ExactButOne
<1>3. PICK i \in Branches : i = index
  BY <1>1, <1>2 DEF Branches
<1>4. PICK c \in Nat : c = i - 1 /\ c \in 0 .. TotalBits - 1 /\ i \in Nat /\ i # 0
  BY <1>2, <1>3, ParentIsInternal
<1>5. PICK w \in Nat : w = WordOf(c) /\ w \in 0 .. NumWords - 1
  BY <1>4, WordInRange
<1>6. w # i /\ w < i
  BY <1>4, <1>5, ParentBefore
<1>7. /\ avail' = avail \cup {c} /\ index' = w
      /\ pc' = IF IsZero(avail, w) THEN "set" ELSE "idle"
  BY <1>3, <1>4, <1>5 DEF SetParent
<1>8. Used' = Used
  BY <1>4, <1>7, UsedKept
<1>9. TypeOK'
  BY <1>1, <1>2, <1>4, <1>5, <1>7 DEF IInv, TypeOK
<1>10. Counted' /\ OnFirst'
  BY <1>2, <1>7, <1>8 DEF IInv, Counted, OnFirst
<1>11. ASSUME NEW v \in Branches, v # w PROVE Exact(v)'
  <2>1. v \in Nat
    BY ParentIsInternal
  <2>2. IsZero(avail', v) <=> IsZero(avail, v)
    BY <1>1, <1>5, <1>7, <1>11, <2>1, OtherWords
  <2>3. CASE v = i
    <3>1. v - 1 \in avail'
      BY <1>4, <1>7, <2>3
    <3> QED BY <1>2, <1>3, <2>2, <2>3, <3>1 DEF Exact
  <2>4. CASE v # i
    <3>1. v - 1 # c
      BY <1>4, <2>1, <2>4
    <3>2. Exact(v)
      BY <1>2, <1>3, <2>4
    <3> QED BY <1>7, <2>2, <3>1, <3>2 DEF Exact
  <2> QED BY <2>3, <2>4
<1>12. ~IsZero(avail', w)
  <2>1. avail' \in SUBSET Nat /\ c \in avail'
    BY <1>1, <1>7
  <2> QED BY <1>5, <2>1, HasBit
<1>13. ExactButOne'
  <2>1. CASE IsZero(avail, w)
    <3>1. pc' = "set"
      BY <1>7, <2>1
    <3> QED BY <1>5, <1>7, <1>11, <1>12, <3>1 DEF ExactButOne
  <2>2. CASE ~IsZero(avail, w)
    <3>1. pc' = "idle"
      BY <1>7, <2>2
    <3>2. ASSUME w \in Branches PROVE Exact(w)'
      <4>1. w - 1 # c
        BY <1>4, <1>5, <1>6
      <4>2. Exact(w)
        BY <1>2, <1>3, <1>6, <3>2
      <4> QED BY <1>7, <1>12, <2>2, <4>1, <4>2 DEF Exact
    <3>3. \A v \in Branches : Exact(v)'
      BY <1>11, <3>2
    <3> QED BY <3>1, <3>3 DEF ExactButOne
  <2> QED BY <2>1, <2>2
<1> QED BY <1>8, <1>9, <1>10, <1>13 DEF IInv

\* The root has no parent bit that could be wrong.
LEMMA RootReachedKeeps == IInv /\ RootReached => IInv' /\ Used' = Used
<1> SUFFICES ASSUME IInv, RootReached PROVE IInv' /\ Used' = Used
  OBVIOUS
<1>1. /\ pc \in {"clear", "set"} /\ index = 0 /\ pc' = "idle" /\ avail' = avail
      /\ size' = size /\ index' = index /\ level' = level
  BY DEF RootReached
<1>2. Used' = Used
  BY <1>1 DEF Used
<1>3. \A w \in Branches : Exact(w)
  <2>1. \A w \in Branches : w # 0
    BY ParentIsInternal, Shape DEF Branches
  <2> QED BY <1>1, <2>1 DEF IInv, ExactButOne
<1>4. ExactButOne'
  BY <1>1, <1>3 DEF ExactButOne, Exact
<1>5. TypeOK' /\ Counted' /\ OnFirst'
  BY <1>1, <1>2 DEF IInv, TypeOK, Counted, OnFirst
<1> QED BY <1>2, <1>4, <1>5 DEF IInv

----------------------------------------------------------------------------
(* The theorems.                                                           *)

\* A tree of ones has exact parent bits.
LEMMA InitHolds == Init => IInv /\ Used = {}
<1> SUFFICES ASSUME Init PROVE IInv /\ Used = {}
  OBVIOUS
<1>1. /\ avail = 0 .. TotalBits - 1 /\ size = 0 /\ pc = "idle" /\ index = 0 /\ level = 0
  BY DEF Init
<1>2. /\ W \in Nat \ {0, 1} /\ NumLevels - 1 \in Nat /\ NumWords \in Nat \ {0}
      /\ InternalBits \in Nat /\ NumBlocks \in Nat \ {0} /\ TotalBits \in Nat
      /\ TotalBits = NumWords * W /\ InternalBits + NumBlocks <= TotalBits
  BY Shape, WordAssumption, BlockAssumption
<1>3. Used = {}
  <2>1. \A b \in Blocks : InternalBits + b \in avail
    BY <1>1, <1>2 DEF Blocks
  <2> QED BY <2>1 DEF Used
<1>4. TypeOK
  BY <1>1, <1>2 DEF TypeOK
<1>5. Counted
  BY <1>1, <1>3, FS_EmptySet DEF Counted
<1>6. ASSUME NEW w \in Branches PROVE Exact(w)
  <2>1. w \in Nat /\ w - 1 \in avail
    BY <1>1, ParentIsInternal
  <2>2. w * W \in Nat /\ w * W < TotalBits
    <3>1. w < NumWords /\ NumWords \in Int
      BY <1>2, <2>1 DEF Branches
    <3>2. w * W + W <= NumWords * W
      BY <2>1, <3>1, WordSteps
    <3> QED BY <1>2, <2>1, <3>2
  <2>3. w * W \in avail /\ w * W \in BitsOf(w)
    BY <1>1, <1>2, <2>2 DEF BitsOf
  <2> QED BY <2>1, <2>3 DEF Exact, IsZero
<1>7. ExactButOne /\ OnFirst
  BY <1>1, <1>6 DEF ExactButOne, OnFirst
<1> QED BY <1>3, <1>4, <1>5, <1>7 DEF IInv

\* Every step keeps the invariant and is a step of the pool or none.
LEMMA Steps == IInv /\ [Next]_vars => IInv' /\ [Pool!Next]_Used
<1> SUFFICES ASSUME IInv, [Next]_vars PROVE IInv' /\ [Pool!Next]_Used
  OBVIOUS
<1>1. CASE InsertBegin
  BY <1>1, InsertBeginKeeps
<1>2. ASSUME NEW b \in Blocks, RemoveBegin(b * BlockItems)
      PROVE  IInv' /\ [Pool!Next]_Used
  BY <1>2, RemoveBeginKeeps DEF Pool!Next, Pool!Remove
<1>3. CASE Descend
  BY <1>3, DescendKeeps
<1>4. CASE Claim
  <2>1. IInv'
    BY <1>4, ClaimKeeps
  <2>2. PICK b \in Blocks \ Used : /\ Used' = Used \cup {b}
                                   /\ \A c \in Blocks \ Used : b <= c
    BY <1>4, ClaimKeeps
  <2>3. b = Pool!FirstFree(Used)
    <3>1. \A c \in Blocks : c \in Int
      BY DEF Blocks
    <3>2. ASSUME NEW d \in Blocks \ Used, \A c \in Blocks \ Used : d <= c PROVE d = b
      <4>1. d <= b /\ b <= d /\ b \in Int /\ d \in Int
        BY <2>2, <3>1, <3>2
      <4> QED BY <4>1
    <3> QED BY <2>2, <3>2 DEF Pool!FirstFree
  <2>4. Used # Blocks
    OBVIOUS
  <2> QED BY <2>1, <2>2, <2>3, <2>4 DEF Pool!Next, Pool!Insert
<1>5. CASE ClearParent
  BY <1>5, ClearParentKeeps
<1>6. CASE SetParent
  BY <1>6, SetParentKeeps
<1>7. CASE RootReached
  BY <1>7, RootReachedKeeps
<1>8. CASE UNCHANGED vars
  <2>1. /\ avail' = avail /\ size' = size /\ pc' = pc /\ index' = index /\ level' = level
    BY <1>8 DEF vars
  <2>2. Used' = Used
    BY <2>1 DEF Used
  <2>3. TypeOK' /\ ExactButOne' /\ Counted' /\ OnFirst'
    BY <2>1, <2>2 DEF IInv, TypeOK, ExactButOne, Exact, Counted, OnFirst
  <2> QED BY <2>2, <2>3 DEF IInv
<1> QED BY <1>1, <1>2, <1>3, <1>4, <1>5, <1>6, <1>7, <1>8 DEF Next, Step

\* The invariant holds in every reachable state.
LEMMA InvariantHolds == Spec => []IInv
<1>1. Init => IInv
  BY InitHolds
<1>2. IInv /\ [Next]_vars => IInv'
  BY Steps
<1> QED BY <1>1, <1>2, PTL DEF Spec

\* Between calls a parent bit is set if and only if its word has a bit, however
\* early the climbs of insert and remove have stopped.
THEOREM SummariesAreExact == Spec => []SummaryExact
<1>1. IInv => SummaryExact
  BY DEF IInv, ExactButOne, SummaryExact, Exact, Branches
<1> QED BY <1>1, InvariantHolds, PTL

\* The asserts of insert hold: the words of a descent exist and have a bit, and
\* the bit that it takes is that of a block.
THEOREM DescentsFindBlock == Spec => []DescentFindsBlock
<1>1. IInv => DescentFindsBlock
  <2>1. SUFFICES ASSUME IInv, pc = "descend"
                 PROVE  /\ index < TotalBits
                        /\ ~IsZero(avail, WordOf(index))
                        /\ level = NumLevels - 1 =>
                              LowestBit(avail, WordOf(index)) - InternalBits \in Blocks
    BY DEF DescentFindsBlock
  <2>2. /\ NumBlocks \in Nat \ {0} /\ InternalBits \in Nat /\ TotalBits \in Nat
        /\ InternalBits = LevelBase(NumLevels - 1)
        /\ avail \in SUBSET (0 .. TotalBits - 1) /\ index \in Nat /\ level \in Nat
    BY <2>1, Shape, BlockAssumption DEF IInv, TypeOK
  <2>3. PICK c \in avail : /\ c = LowestBit(avail, WordOf(index))
                           /\ c \in Nat /\ c \in LevelBits(level)
                           /\ c <= LastReal(level)
    BY <2>1, Descending
  <2>4. /\ ~IsZero(avail, WordOf(index))
        /\ \A d \in avail : LevelBase(level) <= d => index <= d
    BY <2>1 DEF IInv, OnFirst
  <2>5. PICK a \in Nat, b \in Nat : a = LevelBase(level) /\ b = LevelBase(level + 1)
    BY <2>2, LevelBaseIs
  <2>6. a <= c /\ c <= b - 1
    BY <2>3, <2>5 DEF LevelBits
  <2>7. index < TotalBits
    BY <2>2, <2>3, <2>4, <2>5, <2>6
  <2>8. ASSUME level = NumLevels - 1 PROVE c - InternalBits \in Blocks
    BY <2>2, <2>3, <2>5, <2>6, <2>8 DEF LastReal, Blocks
  <2> QED BY <2>3, <2>4, <2>7, <2>8
<1> QED BY <1>1, InvariantHolds, PTL

\* Between calls size() is the number of blocks in use, so full() is right.
THEOREM SizesAreUsed == Spec => []SizeIsUsed
<1>1. IInv => SizeIsUsed
  BY UsedIs DEF IInv, Counted, SizeIsUsed
<1> QED BY <1>1, InvariantHolds, PTL

\* A tree is a pool: an insert takes the first free block, a remove gives back a
\* block that is in use, and no other step touches the blocks.
THEOREM TreeImplementsPool == Spec => ImplementsPool
<1>1. Init => Pool!Init
  BY InitHolds DEF Pool!Init
<1>2. IInv /\ [Next]_vars => [Pool!Next]_Used
  BY Steps
<1> QED BY <1>1, <1>2, InvariantHolds, PTL DEF Spec, ImplementsPool, Pool!Spec
=============================================================================
