---------------------------- MODULE Hornet_proofs ----------------------------
(***************************************************************************)
(* No two adjacency lists of a Hornet ever share a block, no block is lost *)
(* and no operation leaves the types of its data: TypeOK, QueueConsistent  *)
(* and BlockOwnership are invariants of the specification, for every       *)
(* number of vertices, every set of sizes and addresses and every batch.   *)
(* An erase never overwrites a cell that it reads (OverwritePlanSound).    *)
(*                                                                         *)
(* The second half is about what the calls do to the adjacency lists: the  *)
(* lists, the degrees and nE() follow the calls in every phase, so that    *)
(* the data structure implements DynamicGraph, and a call keeps the lists  *)
(* that it does not name.  It rests on the first half: no block has two    *)
(* claimants and no plan of an erase reads what it writes.                 *)
(***************************************************************************)
EXTENDS Hornet, Enumeration, SequenceTheorems

----------------------------------------------------------------------------
(* What the operators on batches return: sorting and compacting a batch     *)
(* gives a batch again, ordered by its sources, and compacting keeps the    *)
(* chosen positions in a one-to-one correspondence.                         *)

\* Nth(J, n) is the n-th smallest element of a finite set of naturals.
LEMMA NthOf ==
    ASSUME NEW J \in SUBSET Nat, IsFiniteSet(J), NEW n \in 1 .. Cardinality(J)
    PROVE  /\ Nth(J, n) \in J
           /\ Cardinality({i \in J : i <= Nth(J, n)}) = n
<1> DEFINE Below(j) == {i \in J : i <= j}
           r == [j \in J |-> Cardinality(Below(j))]
<1>1. ASSUME NEW j \in J PROVE /\ IsFiniteSet(Below(j))
                               /\ Cardinality(Below(j)) \in 1 .. Cardinality(J)
  <2>1. Below(j) \in SUBSET J /\ j \in Below(j)
    OBVIOUS
  <2>2. IsFiniteSet(Below(j)) /\ Cardinality(Below(j)) <= Cardinality(J)
    BY <2>1, FS_Subset
  <2>3. Cardinality(Below(j)) \in Nat /\ Cardinality(J) \in Nat
    BY <2>2, FS_CardinalityType
  <2>4. Cardinality(Below(j)) # 0
    BY <2>1, <2>2, FS_EmptySet
  <2> QED BY <2>2, <2>3, <2>4
<1>2. r \in [J -> 1 .. Cardinality(J)]
  BY <1>1
<1>3. ASSUME NEW i \in J, NEW j \in J, i < j PROVE r[i] # r[j]
  <2>1. i \in Nat /\ j \in Nat /\ \A k \in J : k \in Nat
    OBVIOUS
  <2>2. \A k \in J : k <= i => k <= j
    BY <1>3, <2>1
  <2>3. Below(i) \in SUBSET Below(j)
    BY <2>2
  <2>5. j \in Below(j) /\ j \notin Below(i)
    BY <1>3, <2>1
  <2>4. Cardinality(Below(j)) # Cardinality(Below(i))
    BY <2>3, <2>5, <1>1, FS_Subset
  <2> QED BY <2>4
<1>4. \A x, y \in J : r[x] = r[y] => x = y
  BY <1>3
<1>5. PICK j \in J : r[j] = n
  <2> HIDE DEF r
  <2> QED BY <1>2, <1>4, RanksReachAll
<1>6. Cardinality({i \in J : i <= j}) = n
  BY <1>5
<1> QED BY <1>6 DEF Nth

\* Different numbers name different elements.
LEMMA NthDiffers ==
    ASSUME NEW J \in SUBSET Nat, IsFiniteSet(J),
           NEW m \in 1 .. Cardinality(J), NEW n \in 1 .. Cardinality(J),
           Nth(J, m) = Nth(J, n)
    PROVE  m = n
<1>1. Cardinality({i \in J : i <= Nth(J, m)}) = m
  BY NthOf
<1>2. Cardinality({i \in J : i <= Nth(J, n)}) = n
  BY NthOf
<1> QED BY <1>1, <1>2

\* Two numbers are in the order of the elements that they name.
LEMMA NthAscends ==
    ASSUME NEW J \in SUBSET Nat, IsFiniteSet(J),
           NEW m \in 1 .. Cardinality(J), NEW n \in 1 .. Cardinality(J), m <= n
    PROVE  Nth(J, m) <= Nth(J, n)
<1> DEFINE Below(x) == {i \in J : i <= x}
           x == Nth(J, m)
           y == Nth(J, n)
<1>1. x \in Nat /\ y \in Nat /\ Cardinality(Below(x)) = m /\ Cardinality(Below(y)) = n
  BY NthOf
<1>2. m \in Nat /\ n \in Nat
  BY FS_CardinalityType
<1> SUFFICES ASSUME y < x PROVE FALSE
  BY <1>1
<1>3. Below(y) \in SUBSET Below(x) /\ IsFiniteSet(Below(x))
  <2>1. \A i \in Nat : i <= y => i <= x
    BY <1>1
  <2> HIDE DEF x, y
  <2> QED BY <2>1, FS_Subset
<1>4. n <= m
  <2>1. Cardinality(Below(y)) <= Cardinality(Below(x))
    <3> HIDE DEF Below
    <3> QED BY <1>3, FS_Subset
  <2> QED BY <2>1, <1>1
<1> QED BY <1>1, <1>2, <1>4

\* The number of elements of a set of positions up to one of them.
UpTo(J, e) == Cardinality({i \in J : i <= e})

\* The n-th element lies between two bounds if the number of elements up to the
\* bounds says so.
LEMMA NthBetween ==
    ASSUME NEW J \in SUBSET Nat, IsFiniteSet(J), NEW n \in 1 .. Cardinality(J),
           NEW low \in Nat, NEW high \in Nat,
           UpTo(J, low) < n, n <= UpTo(J, high)
    PROVE  low < Nth(J, n) /\ Nth(J, n) <= high
<1> USE DEF UpTo
<1> DEFINE Below(x) == {i \in J : i <= x}
           x == Nth(J, n)
<1>1. x \in J /\ x \in Nat /\ Cardinality(Below(x)) = n
  BY NthOf
<1>2. \A y \in Nat : IsFiniteSet(Below(y)) /\ Cardinality(Below(y)) \in Nat
  BY FS_Subset, FS_CardinalityType
<1> HIDE DEF x
<1>3. ASSUME x <= low PROVE FALSE
  <2>0. \A i \in Nat : i <= x => i <= low
    BY <1>1, <1>3
  <2>1. Below(x) \in SUBSET Below(low)
    BY <2>0
  <2>2. Cardinality(Below(x)) <= Cardinality(Below(low))
    BY <2>1, <1>2, FS_Subset
  <2> QED BY <2>2, <1>1, <1>2
<1>4. ASSUME high < x PROVE FALSE
  <2>0. (\A i \in Nat : i <= high => i <= x) /\ x <= x /\ ~(x <= high)
    BY <1>1, <1>4
  <2>1. Below(high) \in SUBSET Below(x) /\ x \in Below(x) /\ x \notin Below(high)
    BY <2>0, <1>1
  <2>2. /\ Cardinality(Below(high)) <= Cardinality(Below(x))
        /\ Cardinality(Below(high)) # Cardinality(Below(x))
    <3> HIDE DEF Below
    <3> QED BY <2>1, <1>1, <1>2, FS_Subset
  <2> QED BY <2>2, <1>1, <1>2
<1> QED BY <1>1, <1>3, <1>4 DEF x

\* The number of elements up to the n-th one is n, and less before it.
LEMMA NthCounts ==
    ASSUME NEW J \in SUBSET Nat, IsFiniteSet(J), NEW n \in 1 .. Cardinality(J),
           NEW low \in Nat, NEW high \in Nat, low < Nth(J, n), Nth(J, n) <= high
    PROVE  UpTo(J, low) < n /\ n <= UpTo(J, high)
<1> USE DEF UpTo
<1> DEFINE Below(x) == {i \in J : i <= x}
           x == Nth(J, n)
<1>1. x \in J /\ x \in Nat /\ Cardinality(Below(x)) = n
  BY NthOf
<1>2. \A y \in Nat : IsFiniteSet(Below(y)) /\ Cardinality(Below(y)) \in Nat
  BY FS_Subset, FS_CardinalityType
<1>3. low < x /\ x <= high
  OBVIOUS
<1> HIDE DEF x
<1>4. Below(low) \in SUBSET Below(x) /\ x \in Below(x) /\ x \notin Below(low)
  <2>1. (\A i \in Nat : i <= low => i <= x) /\ x <= x /\ ~(x <= low)
    BY <1>1, <1>3
  <2> QED BY <2>1, <1>1
<1>5. Below(x) \in SUBSET Below(high)
  <2>1. \A i \in Nat : i <= x => i <= high
    BY <1>1, <1>3
  <2> QED BY <2>1
<1>6. /\ Cardinality(Below(low)) <= Cardinality(Below(x))
      /\ Cardinality(Below(low)) # Cardinality(Below(x))
      /\ Cardinality(Below(x)) <= Cardinality(Below(high))
  <2> HIDE DEF Below
  <2> QED BY <1>1, <1>2, <1>4, <1>5, FS_Subset
<1> QED BY <1>1, <1>2, <1>6

\* The positions of a sequence are a finite set of naturals.
LEMMA Positions ==
    ASSUME NEW X, NEW b \in Seq(X), NEW J \in SUBSET DOMAIN b
    PROVE  /\ DOMAIN b = 1 .. Len(b) /\ Len(b) \in Nat
           /\ J \in SUBSET Nat
           /\ IsFiniteSet(J)
           /\ Cardinality(J) \in Nat
           /\ Cardinality(J) <= Len(b)
<1>1. DOMAIN b = 1 .. Len(b) /\ Len(b) \in Nat
  OBVIOUS
<1>2. IsFiniteSet(DOMAIN b) /\ Cardinality(DOMAIN b) = Len(b)
  <2>1. ASSUME NEW n \in Nat PROVE IsFiniteSet(1 .. n) /\ Cardinality(1 .. n) = n
    BY FS_Interval
  <2> QED BY <1>1, <2>1
<1>3. IsFiniteSet(J) /\ Cardinality(J) <= Len(b)
  BY <1>2, FS_Subset
<1> QED BY <1>1, <1>3, FS_CardinalityType

\* Compacting a batch gives a batch.
LEMMA PickType ==
    ASSUME NEW X, NEW b \in Seq(X), NEW J \in SUBSET DOMAIN b
    PROVE  /\ Pick(b, J) \in Seq(X)
           /\ Len(Pick(b, J)) = Cardinality(J)
           /\ DOMAIN Pick(b, J) = 1 .. Cardinality(J)
           /\ \A n \in 1 .. Cardinality(J) :
                 Nth(J, n) \in J /\ Pick(b, J)[n] = b[Nth(J, n)]
<1>1. J \in SUBSET Nat /\ IsFiniteSet(J) /\ Cardinality(J) \in Nat
  BY Positions
<1>2. \A n \in 1 .. Cardinality(J) : Nth(J, n) \in J
  BY <1>1, NthOf
<1>3. \A n \in 1 .. Cardinality(J) : b[Nth(J, n)] \in X
  BY <1>2
<1>4. Pick(b, J) = [n \in 1 .. Cardinality(J) |-> b[Nth(J, n)]]
  BY DEF Pick
<1>5. Pick(b, J) \in [1 .. Cardinality(J) -> X]
  BY <1>3, <1>4
<1>6. Pick(b, J) \in Seq(X) /\ Len(Pick(b, J)) = Cardinality(J)
  BY <1>1, <1>5
<1> QED BY <1>2, <1>4, <1>6

\* The ranks of a batch are in the order of sorting, and reach every position.
LEMMA Ranks ==
    ASSUME NEW b \in Seq(Edges)
    PROVE  /\ \A i, k \in DOMAIN b : i # k /\ Before(b, i, k) => Rank(b, i) < Rank(b, k)
           /\ \A i, k \in DOMAIN b : i # k => Before(b, i, k) \/ Before(b, k, i)
           /\ \A n \in DOMAIN b : \E i \in DOMAIN b : Rank(b, i) = n
<1> DEFINE D == DOMAIN b
           Earlier(i) == {j \in D : Before(b, j, i)}
           r == [i \in D |-> Cardinality(Earlier(i))]
<1>1. D = 1 .. Len(b) /\ Len(b) \in Nat /\ IsFiniteSet(D) /\ Cardinality(D) = Len(b)
  <2>1. D = 1 .. Len(b) /\ Len(b) \in Nat
    OBVIOUS
  <2> QED BY <2>1, FS_Interval
<1>2. \A i \in D : b[i] \in Edges /\ b[i][1] \in Int /\ b[i][2] \in Int
  BY HornetAssumption DEF Edges, Vertices
<1>3. ASSUME NEW i \in D PROVE /\ IsFiniteSet(Earlier(i))
                               /\ Cardinality(Earlier(i)) \in 1 .. Cardinality(D)
  <2>1. Earlier(i) \in SUBSET D /\ i \in Earlier(i)
    BY <1>1 DEF Before
  <2>2. IsFiniteSet(Earlier(i)) /\ Cardinality(Earlier(i)) <= Cardinality(D)
    BY <1>1, <2>1, FS_Subset
  <2>3. Cardinality(Earlier(i)) \in Nat /\ Cardinality(Earlier(i)) # 0
    BY <2>1, <2>2, FS_CardinalityType, FS_EmptySet
  <2> QED BY <1>1, <2>2, <2>3
<1>4. ASSUME NEW i \in D, NEW k \in D, i # k, Before(b, i, k) PROVE r[i] < r[k]
  <2>1. k \notin Earlier(i)
    BY <1>1, <1>2, <1>4 DEF Before, EdgeLeq, Edges
  <2>2. Earlier(i) \in SUBSET Earlier(k)
    <3> SUFFICES ASSUME NEW j \in D, Before(b, j, i) PROVE Before(b, j, k)
      OBVIOUS
    <3>1. CASE b[j] = b[i]
      BY <3>1, <1>1, <1>4 DEF Before
    <3>2. CASE b[j] # b[i] /\ b[i] = b[k]
      BY <3>2 DEF Before
    <3>3. CASE b[j] # b[i] /\ b[i] # b[k]
      <4>1. EdgeLeq(b[j], b[i]) /\ EdgeLeq(b[i], b[k])
        BY <3>3, <1>4 DEF Before
      <4>2. EdgeLeq(b[j], b[k])
        BY <4>1, <1>2 DEF EdgeLeq
      <4>3. b[j] # b[k]
        BY <3>3, <4>1, <1>2 DEF EdgeLeq, Edges
      <4> QED BY <4>2, <4>3 DEF Before
    <3> QED BY <3>1, <3>2, <3>3
  <2>3. k \in Earlier(k)
    BY <1>1 DEF Before
  <2>4. /\ Cardinality(Earlier(k)) # Cardinality(Earlier(i))
        /\ Cardinality(Earlier(i)) <= Cardinality(Earlier(k))
    BY <2>1, <2>2, <2>3, <1>3, FS_Subset
  <2>5. Cardinality(Earlier(k)) \in Nat /\ Cardinality(Earlier(i)) \in Nat
    BY <1>3, FS_CardinalityType
  <2> QED BY <2>4, <2>5
<1>5. ASSUME NEW i \in D, NEW k \in D, i # k PROVE Before(b, i, k) \/ Before(b, k, i)
  BY <1>1, <1>2, <1>5 DEF Before, EdgeLeq
<1>6. r \in [D -> 1 .. Cardinality(D)]
  BY <1>3
<1>7. \A i, k \in D : r[i] = r[k] => i = k
  <2>1. \A i \in D : r[i] \in Nat
    BY <1>1, <1>6
  <2>2. \A i, k \in D : i # k => r[i] < r[k] \/ r[k] < r[i]
    BY <1>4, <1>5
  <2> HIDE DEF r, D
  <2> QED BY <2>1, <2>2
<1>8. ASSUME NEW n \in D PROVE \E i \in D : r[i] = n
  <2>1. n \in 1 .. Cardinality(D) /\ IsFiniteSet(D)
    BY <1>1
  <2> HIDE DEF r, D
  <2> QED BY <2>1, <1>6, <1>7, RanksReachAll
<1> QED BY <1>4, <1>5, <1>8 DEF Rank

\* Sorting a batch gives a batch of the same length.
LEMMA SortedType ==
    ASSUME NEW b \in Seq(Edges)
    PROVE  Sorted(b) \in Seq(Edges) /\ Len(Sorted(b)) = Len(b)
<1>1. DOMAIN b = 1 .. Len(b) /\ Len(b) \in Nat /\ \A i \in DOMAIN b : b[i] \in Edges
  OBVIOUS
<1>2. ASSUME NEW n \in DOMAIN b PROVE b[CHOOSE i \in DOMAIN b : Rank(b, i) = n] \in Edges
  BY <1>1, Ranks
<1>3. Sorted(b) \in [1 .. Len(b) -> Edges]
  BY <1>1, <1>2 DEF Sorted
<1> QED BY <1>1, <1>3

\* The edges of a batch are in the order of their sources.
InOrder(b) == \A i, j \in DOMAIN b : i <= j => b[i][1] <= b[j][1]

\* Sorting puts the edges in their order.
InEdgeOrder(b) == \A i, j \in DOMAIN b : i <= j => EdgeLeq(b[i], b[j])

LEMMA SortedInEdgeOrder == ASSUME NEW b \in Seq(Edges) PROVE InEdgeOrder(Sorted(b))
<1> DEFINE at(n) == CHOOSE i \in DOMAIN b : Rank(b, i) = n
<1>1. \A n \in DOMAIN b : at(n) \in DOMAIN b /\ Rank(b, at(n)) = n
  BY Ranks
<1>2. DOMAIN Sorted(b) = DOMAIN b /\ \A n \in DOMAIN b : Sorted(b)[n] = b[at(n)]
  BY DEF Sorted
<1>3. DOMAIN b \in SUBSET Nat /\ \A i \in DOMAIN b : b[i][1] \in Int /\ b[i][2] \in Int
  BY HornetAssumption DEF Edges, Vertices
<1> HIDE DEF at
<1> SUFFICES ASSUME NEW i \in DOMAIN b, NEW j \in DOMAIN b, i <= j,
                    ~EdgeLeq(b[at(i)], b[at(j)])
             PROVE  FALSE
  BY <1>1, <1>2, <1>3 DEF InEdgeOrder
<1>4. at(j) # at(i) /\ Before(b, at(j), at(i))
  BY <1>1, <1>3 DEF Before, EdgeLeq
<1>5. j < i
  BY <1>1, <1>4, Ranks
<1> QED BY <1>3, <1>5

\* Then they are in the order of their sources, too.
LEMMA EdgeOrderInOrder ==
    ASSUME NEW b \in Seq(Edges), InEdgeOrder(b)
    PROVE  InOrder(b)
<1>1. \A i \in DOMAIN b : b[i][1] \in Int /\ b[i][2] \in Int
  BY HornetAssumption DEF Edges, Vertices
<1> QED BY <1>1 DEF InEdgeOrder, InOrder, EdgeLeq

LEMMA SortedInOrder == ASSUME NEW b \in Seq(Edges) PROVE InOrder(Sorted(b))
  BY SortedType, SortedInEdgeOrder, EdgeOrderInOrder

\* Compacting keeps it.
LEMMA PickInOrder ==
    ASSUME NEW b \in Seq(Edges), InOrder(b), NEW J \in SUBSET DOMAIN b
    PROVE  InOrder(Pick(b, J))
<1>1. J \in SUBSET Nat /\ IsFiniteSet(J)
  BY Positions
<1>2. /\ DOMAIN Pick(b, J) = 1 .. Cardinality(J)
      /\ \A n \in 1 .. Cardinality(J) : Nth(J, n) \in J /\ Pick(b, J)[n] = b[Nth(J, n)]
  BY PickType
<1>3. \A m, n \in 1 .. Cardinality(J) : m <= n => Nth(J, m) <= Nth(J, n)
  BY <1>1, NthAscends
<1> QED BY <1>2, <1>3 DEF InOrder

\* In a batch in order, the edges of a source are next to each other.
LEMMA Segment ==
    ASSUME NEW b \in Seq(Edges), InOrder(b), NEW s \in Sources(b)
    PROVE  /\ First(b, s) \in DOMAIN b /\ Requested(b, s) \in Nat \ {0}
           /\ At(b, s) = First(b, s) .. First(b, s) + Requested(b, s) - 1
<1> DEFINE A == At(b, s)
           f == First(b, s)
<1>1. /\ DOMAIN b = 1 .. Len(b) /\ Len(b) \in Nat
      /\ \A i \in DOMAIN b : b[i][1] \in Int
  BY HornetAssumption DEF Edges, Vertices
<1>2. A \in SUBSET DOMAIN b /\ A \in SUBSET Nat /\ A # {}
  BY <1>1 DEF At, Sources
<1>3. f \in A /\ \A j \in A : f <= j
  <2> HIDE DEF A
  <2>1. \E i \in A : \A j \in A : i <= j
    BY <1>2, LeastElement
  <2> QED BY <2>1 DEF First, A
<1>4. PICK l \in A : \A j \in A : j <= l
  <2>1. \A j \in A : j <= Len(b)
    BY <1>1, <1>2
  <2> HIDE DEF A
  <2> QED BY <2>1, <1>1, <1>2, GreatestElement
<1> HIDE DEF f
<1>5. ASSUME NEW i \in f .. l PROVE i \in A
  <2>1. i \in DOMAIN b /\ f \in DOMAIN b /\ l \in DOMAIN b
    BY <1>1, <1>2, <1>3
  <2>2. b[f][1] <= b[i][1] /\ b[i][1] <= b[l][1]
    BY <2>1, <1>1 DEF InOrder
  <2>3. b[f][1] = s /\ b[l][1] = s
    BY <1>3 DEF At
  <2>4. b[i][1] = s
    BY <2>1, <2>2, <2>3, <1>1
  <2> QED BY <2>1, <2>4 DEF At
<1>6. A = f .. l
  <2>1. ASSUME NEW j \in A PROVE j \in f .. l
    <3> HIDE DEF A
    <3> QED BY <1>2, <1>3, <1>4
  <2> QED BY <2>1, <1>5
<1>7. f \in Nat /\ l \in Nat /\ f <= l
  <2> HIDE DEF A
  <2> QED BY <1>2, <1>3, <1>4
<1>8. Requested(b, s) = l - f + 1
  BY <1>6, <1>7, FS_Interval DEF Requested
<1> QED BY <1>2, <1>3, <1>6, <1>7, <1>8 DEF f

\* Positions that are no sources of an injection and positions that are no
\* targets of it are equally many up to every position that it does not cross.
LEMMA PrefixCounts ==
    ASSUME NEW n \in Nat, NEW N \in SUBSET (1 .. n), NEW t \in [N -> 1 .. n],
           \A i, j \in N : t[i] = t[j] => i = j,
           NEW M, M = (1 .. n) \ N,
           NEW V \in SUBSET (1 .. n), \A i \in 1 .. n : i \in V <=> \A j \in N : i # t[j],
           NEW e \in Nat, \A i \in N : i <= e <=> t[i] <= e
    PROVE  UpTo(M, e) = UpTo(V, e)
<1> DEFINE D == {i \in 1 .. n : i <= e}
           S == {i \in N : i <= e}
           T == {t[i] : i \in S}
           f == [i \in S |-> t[i]]
<1>1. IsFiniteSet(D) /\ S \in SUBSET D /\ T \in SUBSET D
  <2>1. IsFiniteSet(1 .. n) /\ D \in SUBSET (1 .. n)
    BY FS_Interval
  <2>2. IsFiniteSet(D)
    <3> HIDE DEF D
    <3> QED BY <2>1, FS_Subset
  <2>3. ASSUME NEW i \in S PROVE i \in D /\ t[i] \in D
    OBVIOUS
  <2> HIDE DEF D, S
  <2> QED BY <2>2, <2>3
<1>2. IsFiniteSet(S) /\ IsFiniteSet(T)
  <2> HIDE DEF D, S, T
  <2> QED BY <1>1, FS_Subset
<1>3. f \in Injection(S, T) /\ f \in Surjection(S, T)
  BY DEF Injection, IsInjective, Surjection
<1>4. Cardinality(S) = Cardinality(T)
  <2> HIDE DEF S, T, f
  <2> QED BY <1>2, <1>3, FS_Injection
<1>5. Cardinality(D \ S) = Cardinality(D \ T)
  <2> HIDE DEF D, S, T
  <2>1. D \cap S = S /\ D \cap T = T
    BY <1>1
  <2>2. Cardinality(D \ S) = Cardinality(D) - Cardinality(D \cap S)
    BY <1>1, FS_Difference
  <2>3. Cardinality(D \ T) = Cardinality(D) - Cardinality(D \cap T)
    BY <1>1, FS_Difference
  <2> QED BY <2>1, <2>2, <2>3, <1>4
<1>6. D \ S = {i \in M : i <= e}
  OBVIOUS
<1>7. D \ T = {i \in V : i <= e}
  <2>1. ASSUME NEW i \in D PROVE i \in T <=> \E j \in N : i = t[j]
    OBVIOUS
  <2> QED BY <2>1
<1> QED BY <1>5, <1>6, <1>7 DEF UpTo

\* Dropping adjacent duplicates leaves a batch that is not empty.
LEMMA UniqueType ==
    ASSUME NEW b \in Seq(Edges), b # <<>>
    PROVE  Unique(b) \in Seq(Edges) /\ Unique(b) # <<>>
<1> DEFINE J == {i \in DOMAIN b : i = 1 \/ b[i - 1] # b[i]}
<1>1. J \in SUBSET DOMAIN b /\ 1 \in J
  OBVIOUS
<1>2. IsFiniteSet(J) /\ Cardinality(J) # 0
  BY <1>1, Positions, FS_EmptySet
<1>3. Pick(b, J) \in Seq(Edges) /\ Len(Pick(b, J)) = Cardinality(J)
  BY <1>1, PickType
<1>4. Unique(b) = Pick(b, J)
  BY DEF Unique
<1> QED BY <1>2, <1>3, <1>4

\* remove_graph_duplicates leaves the batch as it is or one of its edges.
LEMMA RemoveGraphDuplicatesIs ==
    ASSUME NEW b \in Seq(Edges), b # <<>>
    PROVE  \/ RemoveGraphDuplicates(b) = b
           \/ \E i \in DOMAIN b : RemoveGraphDuplicates(b) = <<b[i]>>
<1> DEFINE n == Len(b)
           offset == [i \in 1 .. n + 1 |->
                         IF i = n + 1 THEN 1
                         ELSE Cardinality({j \in 1 .. i - 1 : DuplicateFlag(b, j) = 1})]
           copied(k) == CHOOSE i \in 1 .. n : offset[i] = k /\ offset[i] # offset[i + 1]
<1>1. n \in Nat \ {0} /\ DOMAIN b = 1 .. n
  OBVIOUS
<1>2. offset[n + 1] = 1
  BY <1>1
<1>3. offset[1] = 0
  <2>1. {j \in 1 .. 1 - 1 : DuplicateFlag(b, j) = 1} = {}
    OBVIOUS
  <2>2. offset[1] = Cardinality({j \in 1 .. 1 - 1 : DuplicateFlag(b, j) = 1})
    BY <1>1
  <2> QED BY <2>1, <2>2, FS_EmptySet
<1> HIDE DEF offset
<1> DEFINE Z == {i \in 1 .. n : offset[i] = 0}
<1>4. PICK i \in Z : \A k \in Z : k <= i
  <2>1. Z \in SUBSET Nat /\ Z # {} /\ n \in Nat /\ \A k \in Z : k <= n
    BY <1>1, <1>3
  <2> HIDE DEF Z, n
  <2> QED BY <2>1, GreatestElement
<1>5. offset[i + 1] # 0
  <2>1. CASE i = n
    BY <2>1, <1>2
  <2>2. CASE i # n
    <3>0. i \in 1 .. n
      OBVIOUS
    <3> HIDE DEF Z, n
    <3>1. i + 1 \in 1 .. n /\ ~(i + 1 <= i)
      BY <2>2, <3>0, <1>1
    <3> USE DEF Z
    <3> QED BY <3>1, <1>4
  <2> QED BY <2>1, <2>2
<1>6. copied(1 - 1) \in 1 .. n
  <2>1. \E k \in 1 .. n : offset[k] = 1 - 1 /\ offset[k] # offset[k + 1]
    BY <1>5
  <2> QED BY <2>1
<1>7. [k \in 1 .. 1 |-> b[copied(k - 1)]] = <<b[copied(1 - 1)]>>
  <2> HIDE DEF copied
  <2> QED OBVIOUS
<1>8. [k \in 1 .. offset[n + 1] |-> b[copied(k - 1)]] = <<b[copied(1 - 1)]>>
  BY <1>2, <1>7
<1>9. RemoveGraphDuplicates(b) \in {b, [k \in 1 .. offset[n + 1] |-> b[copied(k - 1)]]}
  BY DEF RemoveGraphDuplicates, offset
<1> HIDE DEF copied
<1> QED BY <1>1, <1>6, <1>8, <1>9

LEMMA RemoveGraphDuplicatesType ==
    ASSUME NEW b \in Seq(Edges), b # <<>>
    PROVE  RemoveGraphDuplicates(b) \in Seq(Edges)
<1>1. \A i \in DOMAIN b : <<b[i]>> \in Seq(Edges)
  OBVIOUS
<1> QED BY <1>1, RemoveGraphDuplicatesIs

\* The flags of an insert are never both set; then one removal at most is made.
LEMMA OneRemoval ==
    ASSUME NEW f \in InsertOptions
    PROVE  f[1] \in BOOLEAN /\ f[2] \in BOOLEAN /\ ~(f[1] /\ f[2])
<1>1. f \in (BOOLEAN \X BOOLEAN) \ {<<TRUE, TRUE>>}
  BY HornetAssumption
<1>2. f = <<f[1], f[2]>> /\ f[1] \in BOOLEAN /\ f[2] \in BOOLEAN
  BY <1>1
<1>3. CASE f[1] = TRUE /\ f[2] = TRUE
  BY <1>1, <1>2, <1>3
<1> QED BY <1>2, <1>3

LEMMA PreprocessCases ==
    ASSUME NEW b, NEW f \in BOOLEAN, NEW g \in BOOLEAN, ~(f /\ g)
    PROVE  Preprocess(b, f, g) = IF g THEN RemoveGraphDuplicates(Sorted(b))
                                 ELSE IF f THEN Unique(Sorted(b)) ELSE Sorted(b)
<1>1. CASE g
  BY <1>1, Zenon DEF Preprocess
<1>2. CASE ~g /\ f
  BY <1>2, Zenon DEF Preprocess
<1>3. CASE ~g /\ ~f
  BY <1>3, Zenon DEF Preprocess
<1> QED BY <1>1, <1>2, <1>3

\* What an insert is left with is a batch.
LEMMA PreprocessType ==
    ASSUME NEW b \in Batches, NEW f \in BOOLEAN, NEW g \in BOOLEAN, ~(f /\ g)
    PROVE  Preprocess(b, f, g) \in Seq(Edges)
<1>1. b \in Seq(Edges) /\ b # <<>>
  BY HornetAssumption
<1> DEFINE s == Sorted(b)
<1>2. s \in Seq(Edges) /\ s # <<>>
  BY <1>1, SortedType
<1>3. Unique(s) \in Seq(Edges) /\ RemoveGraphDuplicates(s) \in Seq(Edges)
  BY <1>2, UniqueType, RemoveGraphDuplicatesType
<1>4. Preprocess(b, f, g) \in {s, Unique(s), RemoveGraphDuplicates(s)}
  BY PreprocessCases
<1> QED BY <1>2, <1>3, <1>4

----------------------------------------------------------------------------
(* How many times a sequence has an item.                                 *)

\* Where an item is in a sequence, and how many times.
Where(b, e) == {i \in DOMAIN b : b[i] = e}
Times(b, e) == Cardinality(Where(b, e))

LEMMA TimesType ==
    ASSUME NEW X, NEW b \in Seq(X), NEW e
    PROVE  /\ Where(b, e) \in SUBSET DOMAIN b
           /\ IsFiniteSet(Where(b, e))
           /\ Times(b, e) \in Nat
           /\ Times(b, e) <= Len(b)
           /\ Times(b, e) = 0 <=> \A i \in DOMAIN b : b[i] # e
<1>1. Where(b, e) \in SUBSET DOMAIN b
  BY DEF Where
<1>2. IsFiniteSet(Where(b, e)) /\ Times(b, e) \in Nat /\ Times(b, e) <= Len(b)
  BY <1>1, Positions DEF Times
<1>3. Times(b, e) = 0 <=> Where(b, e) = {}
  BY <1>2, FS_EmptySet DEF Times
<1> QED BY <1>1, <1>2, <1>3 DEF Where

\* A sequence with its items in another order has each of them as many times.
LEMMA ReorderedTimes ==
    ASSUME NEW X, NEW b \in Seq(X), NEW Y, NEW c \in Seq(Y), NEW f \in Bijection(DOMAIN c, DOMAIN b),
           \A i \in DOMAIN c : c[i] = b[f[i]], NEW e
    PROVE  Times(c, e) = Times(b, e)
<1> DEFINE g == [i \in Where(c, e) |-> f[i]]
<1>1. /\ f \in [DOMAIN c -> DOMAIN b]
      /\ \A i, j \in DOMAIN c : f[i] = f[j] => i = j
      /\ \A k \in DOMAIN b : \E i \in DOMAIN c : f[i] = k
  BY DEF Bijection, Injection, Surjection, IsInjective
<1>2. \A i \in Where(c, e) : i \in DOMAIN c /\ g[i] = f[i] /\ g[i] \in Where(b, e)
  BY <1>1 DEF Where
<1>3. \A k \in Where(b, e) : \E i \in Where(c, e) : g[i] = k
  BY <1>1 DEF Where
<1>4. g \in [Where(c, e) -> Where(b, e)]
  BY <1>2
<1>5. g \in Bijection(Where(c, e), Where(b, e))
  <2> HIDE DEF g
  <2> QED BY <1>1, <1>2, <1>3, <1>4 DEF Bijection, Injection, Surjection, IsInjective
<1>6. IsFiniteSet(Where(b, e))
  BY TimesType
<1> QED BY <1>5, <1>6, SameCount DEF Times

\* The position that sorting takes the n-th edge from is different for each n,
\* and every position is taken.
LEMMA RankPositions ==
    ASSUME NEW b \in Seq(Edges)
    PROVE  [n \in DOMAIN b |-> CHOOSE i \in DOMAIN b : Rank(b, i) = n]
              \in Bijection(DOMAIN b, DOMAIN b)
<1> DEFINE D == DOMAIN b
           f == [n \in D |-> CHOOSE i \in D : Rank(b, i) = n]
<1>1. \A n \in D : f[n] \in D /\ Rank(b, f[n]) = n
  BY Ranks
<1>2. IsFiniteSet(D)
  BY FS_Interval
<1>3. f \in Injection(D, D)
  <2> HIDE DEF f
  <2>1. f \in [D -> D]
    <3> USE DEF f
    <3> QED BY <1>1
  <2> QED BY <1>1, <2>1 DEF Injection, IsInjective
<1> HIDE DEF D, f
<1>4. f \in Bijection(D, D)
  BY <1>2, <1>3, FS_Injection DEF Bijection
<1> QED BY <1>4 DEF D, f

\* Sorting keeps every edge as many times as the batch has it ...
LEMMA SortedTimes ==
    ASSUME NEW b \in Seq(Edges), NEW e
    PROVE  Times(Sorted(b), e) = Times(b, e)
<1> DEFINE f == [n \in DOMAIN b |-> CHOOSE i \in DOMAIN b : Rank(b, i) = n]
<1>1. DOMAIN Sorted(b) = DOMAIN b /\ \A n \in DOMAIN b : Sorted(b)[n] = b[f[n]]
  BY DEF Sorted
<1>2. f \in Bijection(DOMAIN b, DOMAIN b)
  BY RankPositions
<1>3. Sorted(b) \in Seq(Edges)
  BY SortedType
<1> HIDE DEF f
<1> QED BY <1>1, <1>2, <1>3, ReorderedTimes

\* Every element of a set has a number.
LEMMA NthReaches ==
    ASSUME NEW J \in SUBSET Nat, IsFiniteSet(J), NEW j \in J
    PROVE  \E n \in 1 .. Cardinality(J) : Nth(J, n) = j
<1> DEFINE N == 1 .. Cardinality(J)
           f == [n \in N |-> Nth(J, n)]
<1>1. Cardinality(J) \in Nat /\ IsFiniteSet(N) /\ Cardinality(N) = Cardinality(J)
  BY FS_CardinalityType, FS_Interval
<1>2. f \in [N -> J]
  BY NthOf
<1>3. \A m, n \in N : f[m] = f[n] => m = n
  BY NthDiffers
<1>4. f \in Injection(N, J)
  <2> HIDE DEF f, N
  <2> QED BY <1>2, <1>3 DEF Injection, IsInjective
<1>5. f \in Surjection(N, J)
  <2> HIDE DEF f, N
  <2> QED BY <1>1, <1>4, FS_Injection
<1> QED BY <1>5 DEF Surjection

\* A selection of a sequence has an item as many times as selected positions
\* have it.
LEMMA PickTimes ==
    ASSUME NEW X, NEW b \in Seq(X), NEW J \in SUBSET DOMAIN b, NEW e
    PROVE  Times(Pick(b, J), e) = Cardinality(J \cap Where(b, e))
<1> DEFINE c == Pick(b, J)
           f == [n \in Where(c, e) |-> Nth(J, n)]
           T == J \cap Where(b, e)
<1>1. J \in SUBSET Nat /\ IsFiniteSet(J) /\ IsFiniteSet(T)
  BY Positions, TimesType, FS_Subset
<1>2. /\ DOMAIN c = 1 .. Cardinality(J)
      /\ \A n \in 1 .. Cardinality(J) : Nth(J, n) \in J /\ c[n] = b[Nth(J, n)]
  BY PickType
<1> HIDE DEF c
<1>3. \A n \in Where(c, e) : n \in 1 .. Cardinality(J) /\ f[n] = Nth(J, n) /\ f[n] \in T
  BY <1>2 DEF Where
<1>4. \A m, n \in Where(c, e) : f[m] = f[n] => m = n
  <2> HIDE DEF f
  <2> QED BY <1>1, <1>3, NthDiffers
<1>5. ASSUME NEW j \in T PROVE \E n \in Where(c, e) : f[n] = j
  <2>1. j \in J /\ b[j] = e
    BY DEF Where
  <2>2. PICK n \in 1 .. Cardinality(J) : Nth(J, n) = j
    BY <2>1, <1>1, NthReaches
  <2>3. n \in Where(c, e)
    BY <2>1, <2>2, <1>2 DEF Where
  <2> QED BY <2>2, <2>3
<1>6. f \in [Where(c, e) -> T]
  BY <1>3
<1>7. f \in Bijection(Where(c, e), T)
  <2> HIDE DEF f, T
  <2> QED BY <1>4, <1>5, <1>6 DEF Bijection, Injection, Surjection, IsInjective
<1> QED BY <1>1, <1>7, SameCount DEF Times, c

\* Removing the duplicates of a sorted batch leaves each of its edges once.
LEMMA UniqueTimes ==
    ASSUME NEW b \in Seq(Edges), InEdgeOrder(b), NEW e
    PROVE  Times(Unique(b), e) = IF Times(b, e) = 0 THEN 0 ELSE 1
<1> DEFINE J == {i \in DOMAIN b : i = 1 \/ b[i - 1] # b[i]}
           T == J \cap Where(b, e)
<1>1. DOMAIN b = 1 .. Len(b) /\ Len(b) \in Nat /\ J \in SUBSET DOMAIN b
  OBVIOUS
<1>2. Times(Unique(b), e) = Cardinality(T)
  BY <1>1, PickTimes DEF Unique
<1>3. \A i \in DOMAIN b : b[i] \in Edges /\ b[i][1] \in Int /\ b[i][2] \in Int
  BY HornetAssumption DEF Edges, Vertices
<1>4. CASE Times(b, e) = 0
  <2>1. Where(b, e) = {}
    BY <1>4, TimesType DEF Where
  <2>2. T = {}
    BY <2>1
  <2> QED BY <1>2, <1>4, <2>2, FS_EmptySet
<1>5. CASE Times(b, e) # 0
  <2>1. Where(b, e) # {} /\ Where(b, e) \in SUBSET Nat
    <3>1. Where(b, e) \in SUBSET DOMAIN b /\ \E i \in DOMAIN b : b[i] = e
      BY <1>5, TimesType
    <3> QED BY <1>1, <3>1 DEF Where
  <2>2. PICK i \in Where(b, e) : \A k \in Where(b, e) : i <= k
    BY <2>1, LeastElement
  <2>3. i \in DOMAIN b /\ b[i] = e /\ i \in 1 .. Len(b)
    BY <1>1 DEF Where
  <2>4. i \in T
    <3>1. CASE i = 1
      BY <2>3, <3>1
    <3>2. CASE i # 1
      <4>1. i - 1 \in DOMAIN b /\ ~(i <= i - 1)
        BY <1>1, <2>3, <3>2
      <4>2. i - 1 \notin Where(b, e)
        BY <2>2, <4>1
      <4>3. b[i - 1] # b[i]
        BY <2>3, <4>1, <4>2 DEF Where
      <4> QED BY <2>3, <4>3
    <3> QED BY <3>1, <3>2
  <2>5. ASSUME NEW k \in T PROVE k = i
    <3>1. k \in DOMAIN b /\ b[k] = e /\ k \in 1 .. Len(b) /\ i <= k /\ (k = 1 \/ b[k - 1] # b[k])
      BY <1>1, <2>2 DEF Where
    <3>2. SUFFICES ASSUME i # k PROVE FALSE
      OBVIOUS
    <3>3. k - 1 \in DOMAIN b /\ i <= k - 1 /\ k - 1 <= k /\ b[k - 1] # e
      BY <1>1, <2>3, <3>1, <3>2
    <3>4. EdgeLeq(e, b[k - 1]) /\ EdgeLeq(b[k - 1], e)
      BY <1>1, <2>3, <3>1, <3>3 DEF InEdgeOrder
    <3>5. e \in Edges /\ b[k - 1] \in Edges
      BY <1>3, <2>3, <3>3
    <3>6. e[1] = b[k - 1][1] /\ e[2] = b[k - 1][2]
      BY <1>3, <2>3, <3>3, <3>4 DEF EdgeLeq
    <3> QED BY <3>3, <3>5, <3>6 DEF Edges
  <2>6. T = {i}
    BY <2>4, <2>5
  <2> QED BY <1>2, <1>5, <2>6, FS_Singleton
<1> QED BY <1>4, <1>5

\* Of the elements of a set, the last m are those with at most m elements from
\* them on.
LEMMA LastOnes ==
    ASSUME NEW J \in SUBSET Nat, IsFiniteSet(J), NEW m \in Nat
    PROVE  Cardinality({j \in J : Cardinality({i \in J : i >= j}) <= m})
              = IF Cardinality(J) <= m THEN Cardinality(J) ELSE m
<1> DEFINE From(j) == {i \in J : i >= j}
           n == Cardinality(J)
           r == [j \in J |-> Cardinality(From(j))]
           T == {j \in J : Cardinality(From(j)) <= m}
           l == IF n <= m THEN n ELSE m
           g == [j \in T |-> Cardinality(From(j))]
<1>1. n \in Nat
  BY FS_CardinalityType
<1>2. ASSUME NEW j \in J PROVE IsFiniteSet(From(j)) /\ Cardinality(From(j)) \in 1 .. n
  <2>1. From(j) \in SUBSET J /\ j \in From(j)
    OBVIOUS
  <2>2. IsFiniteSet(From(j)) /\ Cardinality(From(j)) <= n
    BY <2>1, FS_Subset
  <2>3. Cardinality(From(j)) \in Nat /\ Cardinality(From(j)) # 0
    BY <2>1, <2>2, FS_CardinalityType, FS_EmptySet
  <2> QED BY <1>1, <2>2, <2>3
<1>3. ASSUME NEW i \in J, NEW j \in J, i < j PROVE r[i] # r[j]
  <2>1. i \in Nat /\ j \in Nat /\ \A k \in J : k \in Nat
    OBVIOUS
  <2>2. \A k \in J : k >= j => k >= i
    BY <1>3, <2>1
  <2>3. From(j) \in SUBSET From(i)
    BY <2>2
  <2>4. i \in From(i) /\ i \notin From(j)
    BY <1>3, <2>1
  <2>5. Cardinality(From(j)) # Cardinality(From(i))
    BY <2>3, <2>4, <1>2, FS_Subset
  <2> QED BY <2>5
<1>4. \A x, y \in J : r[x] = r[y] => x = y
  BY <1>3
<1>5. r \in [J -> 1 .. n]
  BY <1>2
<1>6. \A k \in 1 .. n : \E j \in J : r[j] = k
  <2> HIDE DEF r
  <2> QED BY <1>4, <1>5, RanksReachAll
<1>7. \A j \in T : j \in J /\ g[j] = r[j] /\ g[j] \in 1 .. l
  BY <1>1, <1>2
<1>8. ASSUME NEW k \in 1 .. l PROVE \E j \in T : g[j] = k
  <2>1. k \in 1 .. n /\ k <= m
    BY <1>1
  <2>2. PICK j \in J : r[j] = k
    BY <1>6, <2>1
  <2> QED BY <2>1, <2>2
<1>9. g \in [T -> 1 .. l]
  BY <1>7
<1>10. \A x, y \in T : g[x] = g[y] => x = y
  <2> HIDE DEF g, T, r
  <2> QED BY <1>4, <1>7
<1>11. g \in Bijection(T, 1 .. l)
  <2> HIDE DEF g, T, l
  <2> QED BY <1>8, <1>9, <1>10 DEF Bijection, Injection, Surjection, IsInjective
<1>12. IsFiniteSet(1 .. l) /\ Cardinality(1 .. l) = l
  <2>1. l \in Nat
    BY <1>1
  <2> HIDE DEF l
  <2> QED BY <2>1, FS_Interval
<1>13. Cardinality(T) = l
  BY <1>11, <1>12, SameCount
<1> QED BY <1>13

\* What an insert is left with is a batch in order; it has every edge of the
\* caller's batch as often, or once if batch duplicates are removed, and with
\* graph duplicates removed no edge more often than that.
Wanted(b, once, e) == IF once /\ Times(b, e) # 0 THEN 1 ELSE Times(b, e)

LEMMA PreprocessTimes ==
    ASSUME NEW b \in Seq(Edges), b # <<>>, NEW f \in BOOLEAN, NEW g \in BOOLEAN, ~(f /\ g),
           NEW e
    PROVE  /\ InOrder(Preprocess(b, f, g))
           /\ Times(Preprocess(b, f, g), e) \in Nat
           /\ Times(Preprocess(b, f, g), e) <= Wanted(b, f, e)
           /\ ~g => Times(Preprocess(b, f, g), e) = Wanted(b, f, e)
<1> DEFINE s == Sorted(b)
           u == IF f THEN Unique(s) ELSE s
<1>1. s \in Seq(Edges) /\ s # <<>> /\ InEdgeOrder(s) /\ InOrder(s) /\ Times(s, e) = Times(b, e)
  BY SortedType, SortedInEdgeOrder, SortedTimes, EdgeOrderInOrder
<1> HIDE DEF s
<1>2. /\ u \in Seq(Edges) /\ u # <<>> /\ InOrder(u)
      /\ Times(u, e) = Wanted(b, f, e)
  <2>1. CASE f
    <3>1. {i \in DOMAIN s : i = 1 \/ s[i - 1] # s[i]} \in SUBSET DOMAIN s
      OBVIOUS
    <3>2. InOrder(Unique(s))
      BY <1>1, <3>1, PickInOrder DEF Unique
    <3>3. Times(Unique(s), e) = IF Times(b, e) = 0 THEN 0 ELSE 1
      BY <1>1, UniqueTimes
    <3> QED BY <2>1, <1>1, <3>2, <3>3, UniqueType DEF Wanted
  <2>2. CASE ~f
    BY <2>2, <1>1 DEF Wanted
  <2> QED BY <2>1, <2>2
<1> HIDE DEF u
<1>3. /\ RemoveGraphDuplicates(u) \in Seq(Edges) /\ InOrder(RemoveGraphDuplicates(u))
      /\ Times(RemoveGraphDuplicates(u), e) <= Times(u, e)
  <2>1. CASE RemoveGraphDuplicates(u) = u
    BY <1>2, <2>1, TimesType
  <2>2. ASSUME NEW i \in DOMAIN u, RemoveGraphDuplicates(u) = <<u[i]>>
        PROVE  /\ RemoveGraphDuplicates(u) \in Seq(Edges)
               /\ InOrder(RemoveGraphDuplicates(u))
               /\ Times(RemoveGraphDuplicates(u), e) <= Times(u, e)
    <3> DEFINE r == <<u[i]>>
    <3>1. u[i] \in Edges /\ u[i][1] \in Int
      BY <1>2, HornetAssumption DEF Edges, Vertices
    <3>2. r \in Seq(Edges) /\ DOMAIN r = {1} /\ r[1] = u[i] /\ Len(r) = 1
      BY <3>1
    <3> HIDE DEF r
    <3>3. InOrder(r)
      BY <3>1, <3>2 DEF InOrder
    <3>4. /\ Times(r, e) \in Nat /\ Times(r, e) <= Len(r)
          /\ Times(r, e) = 0 <=> \A k \in DOMAIN r : r[k] # e
      BY <3>2, TimesType
    <3>7. /\ Times(u, e) \in Nat
          /\ Times(u, e) = 0 <=> \A k \in DOMAIN u : u[k] # e
      BY <1>2, TimesType
    <3>5. Times(r, e) # 0 => Times(u, e) # 0
      BY <3>2, <3>4, <3>7
    <3>6. Times(r, e) <= Times(u, e)
      BY <3>2, <3>4, <3>5, <3>7
    <3> QED BY <2>2, <3>2, <3>3, <3>6 DEF r
  <2> QED BY <1>2, <2>1, <2>2, RemoveGraphDuplicatesIs
<1>4. Preprocess(b, f, g) = IF g THEN RemoveGraphDuplicates(u) ELSE u
  BY PreprocessCases DEF u, s
<1>5. /\ Times(u, e) \in Nat
      /\ Times(RemoveGraphDuplicates(u), e) \in Nat
  BY <1>2, <1>3, TimesType
<1> QED BY <1>2, <1>3, <1>4, <1>5

----------------------------------------------------------------------------
(* Sizes, blocks and requests.                                             *)

Degrees == 1 .. MaxDegree

\* Every degree is rounded up to a size that is less than twice as large.
LEMMA RoundupType ==
    ASSUME NEW d \in Degrees
    PROVE  /\ RoundupPow2(d) \in Sizes
           /\ d <= RoundupPow2(d) /\ RoundupPow2(d) < 2 * d
<1> DEFINE S == {p \in Sizes : d <= p}
<1>1. d \in Nat \ {0} /\ Sizes \in SUBSET Nat /\ MaxDegree \in Sizes /\ d <= MaxDegree
  BY SizesAssumption, HornetAssumption DEF Degrees
<1>2. PICK p \in S : \A q \in S : p <= q
  <2>1. S \in SUBSET Nat /\ S # {}
    BY <1>1
  <2> HIDE DEF S
  <2> QED BY <2>1, LeastElement
<1>3. p < 2 * d
  <2>1. CASE p = 1
    BY <2>1, <1>1
  <2>2. CASE p # 1
    <3>1. PICK q \in Sizes : p = 2 * q
      BY <2>2, SizesAssumption
    <3>2. q \in Nat \ {0} /\ p \in Nat
      BY SizesAssumption
    <3>3. ~(d <= q)
      BY <3>1, <3>2, <1>2
    <3> QED BY <3>1, <3>2, <3>3, <1>1
  <2> QED BY <2>1, <2>2
<1>4. \E q \in Sizes : d <= q /\ q < 2 * d
  BY <1>3
<1> QED BY <1>1, <1>4 DEF RoundupPow2

\* Degrees in the upper half of a block are rounded up to the same size.
LEMMA SameRoundup ==
    ASSUME NEW d \in Degrees, NEW e \in Degrees,
           e <= RoundupPow2(d), RoundupPow2(d) < 2 * e
    PROVE  RoundupPow2(e) = RoundupPow2(d)
<1>1. /\ RoundupPow2(d) \in Sizes /\ RoundupPow2(e) \in Sizes
      /\ e <= RoundupPow2(e) /\ RoundupPow2(e) < 2 * e
  BY RoundupType
<1>2. \A p, q \in Sizes : p \in Nat /\ (p < q => 2 * p <= q)
  BY SizesAssumption
<1> QED BY <1>1, <1>2 DEF Degrees

\* The first free offset is one of the free ones.
LEMMA FirstFreeType ==
    ASSUME NEW S \in SUBSET Nat, S # {}
    PROVE  FirstFree(S) \in S
  BY LeastElement DEF FirstFree

\* The cells and offsets of block arrays are natural numbers.
LEMMA OffsetsType ==
    ASSUME NEW s \in Sizes
    PROVE  Capacity(s) \in Nat \ {0} /\ Offsets(s) \in SUBSET Nat /\ 0 \in Offsets(s)
  BY SizesAssumption, ArrayAssumption DEF Capacity, Offsets

LEMMA CellsType == Cells \in SUBSET Nat /\ 0 \in Cells
  BY OffsetsType, HornetAssumption DEF Cells

\* A source of a batch has at least one edge in it.
LEMMA RequestedType ==
    ASSUME NEW b \in Seq(Edges), NEW v
    PROVE  /\ Requested(b, v) \in Nat
           /\ v \in Sources(b) => Requested(b, v) # 0
<1>1. At(b, v) \in SUBSET DOMAIN b
  BY DEF At
<1>2. IsFiniteSet(At(b, v)) /\ Cardinality(At(b, v)) \in Nat
  BY <1>1, Positions
<1>3. v \in Sources(b) => At(b, v) # {}
  BY DEF Sources, At
<1> QED BY <1>2, <1>3, FS_EmptySet DEF Requested

LEMMA SourcesType == ASSUME NEW b \in Seq(Edges) PROVE Sources(b) \in SUBSET Vertices
  BY DEF Sources, Edges

----------------------------------------------------------------------------
(* The operations of the memory manager.                                   *)

ArraysOK == /\ DOMAIN arrays \subseteq Ptr
            /\ arrays \in [DOMAIN arrays -> [size : Sizes, used : SUBSET Nat]]

\* The block at offset o of the array at p is in use now and was not before.
BlockInserted(d, p, o) ==
    /\ p \in Ptr /\ o \in Nat /\ o \in Offsets(RoundupPow2(d))
    /\ ~(p \in DOMAIN arrays /\ o \in arrays[p].used)
    /\ DOMAIN arrays' = DOMAIN arrays \cup {p}
    /\ \A q \in DOMAIN arrays : arrays'[q].size = arrays[q].size
    /\ arrays'[p].size = RoundupPow2(d)
    /\ \A q \in DOMAIN arrays' : \A x :
          x \in arrays'[q].used <=>
              \/ q \in DOMAIN arrays /\ x \in arrays[q].used
              \/ q = p /\ x = o

\* What an insert returns: nothing for degree 0, else a block that was not in
\* use before and of the right size; the other blocks in use are the same.
LEMMA BlockInsertEffect ==
    ASSUME ArraysOK, NEW d \in 0 .. MaxDegree, NEW p, NEW o, BlockInsert(d, p, o)
    PROVE  /\ ArraysOK'
           /\ d = 0 => arrays' = arrays /\ p = NullPtr /\ o = 0
           /\ d # 0 => BlockInserted(d, p, o)
<1>1. CASE InsertNothing(d, p, o)
  BY <1>1 DEF InsertNothing, ArraysOK
<1> DEFINE s == RoundupPow2(d)
<1>2. d # 0 => s \in Sizes
  BY RoundupType DEF Degrees
<1>3. CASE InsertInto(d, p, o)
  <2>1. /\ d # 0 /\ p \in DOMAIN arrays /\ arrays[p].size = s
        /\ FreeOffsets(p) # {} /\ o = FirstFree(FreeOffsets(p))
        /\ arrays' = [arrays EXCEPT ![p].used = @ \cup {o}]
    BY <1>3 DEF InsertInto, NotFull, Bin
  <2>2. FreeOffsets(p) \in SUBSET Nat
    BY <2>1, <1>2, OffsetsType DEF FreeOffsets
  <2>3. o \in FreeOffsets(p)
    BY <2>1, <2>2, FirstFreeType
  <2>4. o \in Nat /\ o \in Offsets(s) /\ o \notin arrays[p].used
    BY <2>1, <2>2, <2>3 DEF FreeOffsets
  <2>5. /\ DOMAIN arrays' = DOMAIN arrays
        /\ \A q \in DOMAIN arrays : arrays'[q].size = arrays[q].size
        /\ \A q \in DOMAIN arrays : q # p => arrays'[q] = arrays[q]
        /\ arrays'[p].used = arrays[p].used \cup {o}
    BY <2>1 DEF ArraysOK
  <2>6. ArraysOK'
    BY <2>1, <2>4 DEF ArraysOK
  <2>7. p \in Ptr /\ arrays'[p].size = s /\ DOMAIN arrays' = DOMAIN arrays \cup {p}
    BY <2>1, <2>5 DEF ArraysOK
  <2>8. \A q \in DOMAIN arrays' : \A x :
            x \in arrays'[q].used <=>
                \/ q \in DOMAIN arrays /\ x \in arrays[q].used
                \/ q = p /\ x = o
    <3>1. SUFFICES ASSUME NEW q \in DOMAIN arrays', NEW x
                   PROVE  x \in arrays'[q].used <=>
                              \/ q \in DOMAIN arrays /\ x \in arrays[q].used
                              \/ q = p /\ x = o
      OBVIOUS
    <3>2. q \in DOMAIN arrays
      BY <2>5
    <3>3. CASE q = p
      BY <2>5, <3>2, <3>3
    <3>4. CASE q # p
      BY <2>5, <3>2, <3>4
    <3> QED BY <3>3, <3>4
  <2>9. BlockInserted(d, p, o)
    BY <2>1, <2>4, <2>5, <2>7, <2>8 DEF BlockInserted
  <2> QED BY <2>1, <2>6, <2>9
<1>4. CASE NewArray(d, p, o)
  <2>1. /\ d # 0 /\ p \in Ptr /\ p \notin DOMAIN arrays /\ o = 0
        /\ arrays' = [q \in DOMAIN arrays \cup {p} |->
                         IF q = p THEN [size |-> s, used |-> {0}] ELSE arrays[q]]
    BY <1>4 DEF NewArray
  <2>2. /\ DOMAIN arrays' = DOMAIN arrays \cup {p}
        /\ \A q \in DOMAIN arrays : arrays'[q] = arrays[q]
        /\ arrays'[p] = [size |-> s, used |-> {0}]
    BY <2>1
  <2>3. ArraysOK'
    BY <2>1, <1>2 DEF ArraysOK
  <2>4. o \in Offsets(s)
    BY <2>1, <1>2, OffsetsType DEF Offsets
  <2> QED BY <2>1, <2>2, <2>3, <2>4 DEF BlockInserted
<1> QED BY <1>1, <1>3, <1>4 DEF BlockInsert

\* What a remove does: one block is no longer in use.
LEMMA BlockRemoveEffect ==
    ASSUME ArraysOK, NEW d, NEW p, NEW o, BlockRemove(d, p, o)
    PROVE  /\ ArraysOK'
           /\ DOMAIN arrays' = DOMAIN arrays
           /\ \A q \in DOMAIN arrays : arrays'[q].size = arrays[q].size
           /\ \A q \in DOMAIN arrays : \A x :
                 x \in arrays'[q].used <=> x \in arrays[q].used /\ ~(q = p /\ x = o)
<1>1. p \in DOMAIN arrays /\ arrays' = [arrays EXCEPT ![p].used = @ \ {o}]
  BY DEF BlockRemove, Bin
<1>2. ArraysOK'
  BY <1>1 DEF ArraysOK
<1>3. /\ \A q \in DOMAIN arrays : arrays'[q].size = arrays[q].size
      /\ \A q \in DOMAIN arrays : q # p => arrays'[q] = arrays[q]
      /\ arrays'[p].used = arrays[p].used \ {o}
  BY <1>1 DEF ArraysOK
<1> QED BY <1>1, <1>2, <1>3

----------------------------------------------------------------------------
(* The types.                                                              *)

IInv == TypeOK /\ QueueConsistent /\ BlockOwnership

\* Every graph and address is typed at the start.
LEMMA InitType == Init => TypeOK
<1> SUFFICES ASSUME Init PROVE TypeOK
  OBVIOUS
<1>1. nE \in Int
  <2>1. PICK g \in Graphs : nE = EdgeCount(g)
    BY DEF Init
  <2> DEFINE X == {x \in Vertices \X (1 .. MaxDegree) : x[2] <= Len(g[x[1]])}
  <2>2. IsFiniteSet(Vertices \X (1 .. MaxDegree))
    <3>1. nV \in Nat /\ MaxDegree \in Nat
      BY HornetAssumption, SizesAssumption
    <3>2. IsFiniteSet(0 .. nV - 1) /\ IsFiniteSet(1 .. MaxDegree)
      BY <3>1, FS_Interval
    <3> QED BY <3>2, FS_Product DEF Vertices
  <2>3. Cardinality(X) \in Nat
    <3>1. X \in SUBSET (Vertices \X (1 .. MaxDegree))
      OBVIOUS
    <3> HIDE DEF X
    <3> QED BY <3>1, <2>2, FS_Subset, FS_CardinalityType
  <2> QED BY <2>1, <2>3 DEF EdgeCount
<1>2. NoBlock \in VertexData /\ 0 \in 0 .. MaxDegree
  BY HornetAssumption, SizesAssumption DEF NoBlock, VertexData
<1>3. arrays \in [{} -> [size : Sizes, used : SUBSET Nat]] /\ DOMAIN arrays = {}
  BY DEF Init
<1> QED BY <1>1, <1>2, <1>3 DEF Init, TypeOK

Entries == [src : Vertices, old : VertexData, new : VertexData]

\* Sequences stay sequences of S when an element of S is written or appended.
LEMMA SequenceTypes ==
    ASSUME NEW S, NEW q \in Seq(S), NEW e \in S
    PROVE  /\ Append(q, e) \in Seq(S)
           /\ \A i \in DOMAIN q : /\ [q EXCEPT ![i] = e] \in Seq(S)
                                  /\ Len([q EXCEPT ![i] = e]) = Len(q)
                                  /\ DOMAIN [q EXCEPT ![i] = e] = DOMAIN q
           /\ \A i \in DOMAIN q : q[i] \in S
  OBVIOUS

LEMMA FunctionSequence ==
    ASSUME NEW S, NEW n \in Nat, NEW g \in [1 .. n -> S]
    PROVE  g \in Seq(S)
  OBVIOUS

LEMMA TypeStep ==
    ASSUME TypeOK, QueueConsistent, [Next]_vars
    PROVE  TypeOK'
<1> USE DEF TypeOK
<1>0. ArraysOK /\ MaxDegree \in Nat /\ NoBlock \in VertexData
  BY HornetAssumption, SizesAssumption DEF ArraysOK, NoBlock, VertexData
<1>1. CASE LoadVertex
  <2>1. PICK p \in Ptr \cup {NullPtr}, o \in Cells :
           /\ BlockInsert(Len(call.graph[next]), p, o)
           /\ vertex' = [vertex EXCEPT ![next] =
                            [degree |-> Len(call.graph[next]), ptr |-> p, offset |-> o]]
    BY <1>1 DEF LoadVertex
  <2>2. Len(call.graph[next]) \in 0 .. MaxDegree
    <3>1. call.graph \in Graphs /\ next \in Vertices
      BY <1>1 DEF LoadVertex, QueueConsistent
    <3>2. call.graph[next] \in Seq(Vertices) /\ Len(call.graph[next]) <= MaxDegree
      BY <3>1, HornetAssumption
    <3> QED BY <3>2, <1>0
  <2>3. [degree |-> Len(call.graph[next]), ptr |-> p, offset |-> o] \in VertexData
    BY <2>2, CellsType DEF VertexData
  <2>4. ArraysOK'
    BY <2>1, <2>2, <1>0, BlockInsertEffect
  <2> QED BY <1>1, <2>1, <2>3, <2>4 DEF LoadVertex, ArraysOK
<1>2. CASE LoadDone
  BY <1>2 DEF LoadDone
<1>3. ASSUME NEW b \in Batches, NEW f \in InsertOptions, Insert(b, f[1], f[2])
      PROVE  TypeOK'
  <2>1. batch' \in Seq(Edges)
    BY <1>3, OneRemoval, PreprocessType DEF Insert
  <2>2. Sources(batch') \in SUBSET Vertices /\ Len(batch') \in Nat
    BY <2>1, SourcesType
  <2> QED BY <1>3, <2>1, <2>2 DEF Insert
<1>4. ASSUME NEW b \in Batches, Erase(b) PROVE TypeOK'
  <2>1. batch' \in Seq(Edges)
    BY <1>4, SortedType, HornetAssumption DEF Erase
  <2> QED BY <1>4, <2>1 DEF Erase
<1>5. ASSUME NEW s \in todo, QueueSource(s) PROVE TypeOK'
  <2>1. NewDegree(s) \in 0 .. MaxDegree /\ s \in Vertices
    BY <1>5 DEF QueueSource, QueueConsistent
  <2>2. vertex[s].degree \in 0 .. MaxDegree
    BY <2>1 DEF VertexData
  <2>3. oldDegree' \in [Vertices -> 0 .. MaxDegree]
    BY <1>5, <2>2 DEF QueueSource, RecordDegree
  <2>4. [NoBlock EXCEPT !.degree = NewDegree(s)] \in VertexData
    BY <2>1, <1>0 DEF NoBlock, VertexData
  <2>5. [src |-> s, old |-> vertex[s], new |-> [NoBlock EXCEPT !.degree = NewDegree(s)]]
            \in [src : Vertices, old : VertexData, new : VertexData]
    BY <2>1, <2>4
  <2>6. [vertex[s] EXCEPT !.degree = NewDegree(s)] \in VertexData
    BY <2>1 DEF VertexData
  <2>7. queue' \in Seq(Entries)
    <3> DEFINE e == [src |-> s, old |-> vertex[s],
                     new |-> [NoBlock EXCEPT !.degree = NewDegree(s)]]
    <3>1. queue' \in {queue, Append(queue, e)}
      BY <1>5 DEF QueueSource
    <3>2. queue \in Seq(Entries) /\ e \in Entries
      BY <2>5 DEF Entries
    <3> HIDE DEF e
    <3>3. Append(queue, e) \in Seq(Entries)
      BY <3>2, SequenceTypes
    <3> QED BY <3>1, <3>2, <3>3
  <2>8. vertex' \in [Vertices -> VertexData]
    BY <1>5, <2>6 DEF QueueSource, SetDegree
  <2> QED BY <1>5, <2>3, <2>7, <2>8 DEF QueueSource, Entries
<1>6. CASE QueueDone
  BY <1>6 DEF QueueDone
<1>7. CASE AllocBlock
  <2>1. PICK p \in Ptr \cup {NullPtr}, o \in Cells :
           /\ BlockInsert(queue[next].new.degree, p, o)
           /\ queue' = [queue EXCEPT ![next].new.ptr = p, ![next].new.offset = o]
    BY <1>7 DEF AllocBlock
  <2>2. next \in DOMAIN queue /\ queue[next] \in Entries /\ queue[next].new \in VertexData
    <3>1. queue \in Seq(Entries)
      BY DEF Entries
    <3>2. next \in DOMAIN queue
      BY <3>1, <1>7 DEF AllocBlock, QueueConsistent
    <3>3. queue[next] \in Entries
      BY <3>1, <3>2
    <3> QED BY <3>2, <3>3 DEF Entries
  <2>3. queue[next].new.degree \in 0 .. MaxDegree
    BY <2>2 DEF VertexData
  <2>4. ArraysOK'
    BY <2>1, <2>3, <1>0, BlockInsertEffect
  <2>5. queue' \in Seq(Entries)
    <3> DEFINE n == [queue[next].new EXCEPT !.ptr = p, !.offset = o]
               e == [queue[next] EXCEPT !.new = n]
    <3>1. n \in VertexData
      BY <2>2, CellsType DEF VertexData
    <3>2. e \in Entries
      BY <2>2, <3>1 DEF Entries
    <3>3. queue' = [queue EXCEPT ![next] = e]
      BY <2>1, <2>2 DEF Entries, VertexData
    <3>4. queue \in Seq(Entries)
      BY DEF Entries
    <3> HIDE DEF e
    <3> QED BY <2>2, <3>2, <3>3, <3>4, SequenceTypes
  <2> QED BY <1>7, <2>4, <2>5 DEF AllocBlock, ArraysOK, Entries
<1>8. CASE MoveAdjacencyLists
  <2>1. vertex' \in [Vertices -> VertexData]
    <3>1. ASSUME NEW v \in Vertices, \E k \in DOMAIN queue : queue[k].src = v
          PROVE  queue[CHOOSE k \in DOMAIN queue : queue[k].src = v].new \in VertexData
      <4>1. (CHOOSE k \in DOMAIN queue : queue[k].src = v) \in DOMAIN queue
        BY <3>1
      <4>2. queue \in Seq(Entries)
        BY DEF Entries
      <4>3. \A k \in DOMAIN queue : queue[k] \in Entries
        BY <4>2
      <4> QED BY <4>1, <4>3 DEF Entries
    <3> QED BY <1>8, <3>1 DEF MoveAdjacencyLists
  <2> QED BY <1>8, <2>1 DEF MoveAdjacencyLists
<1>9. CASE FreeBlock
  <2>1. ArraysOK'
    BY <1>9, <1>0, BlockRemoveEffect DEF FreeBlock, ArraysOK
  <2> QED BY <1>9, <2>1 DEF FreeBlock, ArraysOK
<1>10. CASE AppendBatchEdges
  BY <1>10, <1>0 DEF AppendBatchEdges, Return
<1>11. CASE Locate
  <2>1. Slots \in SUBSET DOMAIN batch
    BY DEF Slots
  <2>2. batch' \in Seq(Edges)
    BY <1>11, <2>1, PickType DEF Locate
  <2>3. locs' \in Seq(Nat)
    <3>1. PICK f \in [Slots -> 0 .. MaxDegree - 1] : locs' = Pick(f, Slots)
      BY <1>11 DEF Locate
    <3>2. Cardinality(Slots) \in Nat /\ \A n \in 1 .. Cardinality(Slots) : Nth(Slots, n) \in Slots
      BY <2>1, Positions, PickType
    <3>3. Pick(f, Slots) \in [1 .. Cardinality(Slots) -> Nat]
      BY <3>2, <1>0 DEF Pick
    <3> QED BY <3>1, <3>2, <3>3, FunctionSequence
  <2> QED BY <1>11, <2>2, <2>3 DEF Locate
<1>12. CASE LocateNothing
  BY <1>12 DEF LocateNothing
<1>13. CASE OverwriteDeletedEdges
  <2>1. Sources(batch) \in SUBSET Vertices /\ Len(batch) \in Nat
    BY SourcesType
  <2> QED BY <1>13, <2>1, <1>0 DEF OverwriteDeletedEdges, Return
<1>14. CASE OverwriteFault
  BY <1>14 DEF OverwriteFault
<1>15. CASE EraseDone
  BY <1>15, <1>0 DEF EraseDone, Return
<1>16. CASE Sort
  BY <1>16 DEF Sort
<1>17. CASE UNCHANGED vars
  BY <1>17 DEF vars
<1> QED BY <1>1, <1>2, <1>3, <1>4, <1>5, <1>6, <1>7, <1>8, <1>9, <1>10, <1>11, <1>12,
           <1>13, <1>14, <1>15, <1>16, <1>17 DEF Next, InsertStep, EraseStep

----------------------------------------------------------------------------
(* The reallocation queue and the erase slots.                             *)

\* The slots of an erase name different edges of a list, so a batch never
\* takes more edges from a list than it has.
LEMMA RequestedBound ==
    ASSUME TypeOK, NEW s \in Vertices,
           DOMAIN locs = DOMAIN batch,
           \A i \in DOMAIN batch : locs[i] < vertex[batch[i][1]].degree,
           \A i, j \in DOMAIN batch :
               i # j /\ batch[i][1] = batch[j][1] => locs[i] # locs[j]
    PROVE  Requested(batch, s) <= vertex[s].degree
<1> DEFINE A == At(batch, s)
           n == vertex[s].degree
           f == [i \in A |-> locs[i]]
<1>1. n \in Nat
  BY HornetAssumption, SizesAssumption DEF TypeOK, VertexData
<1>2. \A i \in A : i \in DOMAIN batch /\ batch[i][1] = s /\ locs[i] \in Nat
  BY DEF At, TypeOK
<1>3. f \in [A -> 0 .. n - 1]
  BY <1>1, <1>2
<1>4. f \in Injection(A, 0 .. n - 1)
  BY <1>2, <1>3 DEF Injection, IsInjective
<1>5. IsFiniteSet(0 .. n - 1) /\ Cardinality(0 .. n - 1) = n
  <2>1. ASSUME NEW m \in Nat
        PROVE  IsFiniteSet(0 .. m - 1) /\ Cardinality(0 .. m - 1) = m
    BY FS_Interval
  <2> QED BY <1>1, <2>1
<1>6. Cardinality(A) <= n
  <2> HIDE DEF f, A, n
  <2> QED BY <1>4, <1>5, FS_Injection
<1> QED BY <1>6 DEF Requested

\* locateEdgesToBeErased hands out its slots soundly.
LEMMA LocateSlots ==
    ASSUME TypeOK, Locate
    PROVE  /\ \A i \in DOMAIN batch' : locs'[i] < vertex[batch'[i][1]].degree
           /\ \A i, j \in DOMAIN batch' :
                 i # j /\ batch'[i][1] = batch'[j][1] => locs'[i] # locs'[j]
<1>1. PICK f \in [Slots -> 0 .. MaxDegree - 1] :
         /\ \A j \in Slots : f[j] \in Matches(batch[j])
         /\ \A i, j \in Slots : i # j /\ batch[i] = batch[j] => f[i] # f[j]
         /\ locs' = Pick(f, Slots)
  BY DEF Locate
<1> DEFINE n == Cardinality(Slots)
<1>2. Slots \in SUBSET DOMAIN batch /\ batch \in Seq(Edges)
  BY DEF Slots, TypeOK
<1>3. /\ DOMAIN batch' = 1 .. n
      /\ \A i \in 1 .. n : Nth(Slots, i) \in Slots /\ batch'[i] = batch[Nth(Slots, i)]
  BY <1>2, PickType DEF Locate
<1>4. \A i \in 1 .. n : locs'[i] = f[Nth(Slots, i)]
  BY <1>1 DEF Pick
<1>5. \A i, j \in 1 .. n : i # j => Nth(Slots, i) # Nth(Slots, j)
  <2>1. Slots \in SUBSET Nat /\ IsFiniteSet(Slots)
    BY <1>2, Positions
  <2> QED BY <2>1, NthDiffers
<1>6. \A e \in Edges : e = <<e[1], e[2]>>
  BY DEF Edges
<1>7. ASSUME NEW i \in 1 .. n PROVE locs'[i] < vertex[batch'[i][1]].degree
  <2>1. locs'[i] \in Matches(batch'[i])
    BY <1>1, <1>3, <1>4
  <2>2. batch'[i] \in Edges
    BY <1>2, <1>3
  <2>3. vertex[batch'[i][1]].degree \in Nat
    BY <2>2, HornetAssumption, SizesAssumption DEF TypeOK, VertexData, Edges
  <2> QED BY <2>1, <2>3 DEF Matches
<1>8. ASSUME NEW i \in 1 .. n, NEW j \in 1 .. n, i # j, batch'[i][1] = batch'[j][1]
      PROVE  locs'[i] # locs'[j]
  <2> DEFINE x == Nth(Slots, i)
             y == Nth(Slots, j)
  <2>1. x \in Slots /\ y \in Slots /\ x # y
    BY <1>3, <1>5, <1>8
  <2>2. batch[x] \in Edges /\ batch[y] \in Edges /\ batch[x][1] = batch[y][1]
    BY <2>1, <1>2, <1>3, <1>8
  <2>3. CASE batch[x] = batch[y]
    BY <2>1, <2>3, <1>1, <1>4
  <2>4. CASE batch[x] # batch[y]
    <3>1. batch[x][2] # batch[y][2]
      BY <2>2, <2>4, <1>6
    <3>2. f[x] \in Matches(batch[x]) /\ f[y] \in Matches(batch[y])
      BY <2>1, <1>1
    <3>3. f[x] # f[y]
      BY <2>2, <3>1, <3>2 DEF Matches
    <3> QED BY <3>3, <1>4
  <2> QED BY <2>3, <2>4
<1> QED BY <1>3, <1>7, <1>8

LEMMA InitQueue == Init => QueueConsistent
  BY HornetAssumption DEF Init, QueueConsistent, Vertices

LEMMA QueueStep ==
    ASSUME TypeOK, QueueConsistent, [Next]_vars, TypeOK'
    PROVE  QueueConsistent'
<1>0. queue \in Seq(Entries) /\ Len(queue) \in Nat /\ DOMAIN queue = 1 .. Len(queue)
  BY DEF TypeOK, Entries
<1>1. CASE LoadVertex
  <2>1. /\ pc = "load" /\ pc' = "load" /\ next \in Vertices /\ next' = next + 1
        /\ \A v \in Vertices : v # next => vertex'[v] = vertex[v]
    BY <1>1 DEF LoadVertex, TypeOK
  <2>2. next' \in 0 .. nV /\ \A v \in next' .. nV - 1 : vertex'[v] = NoBlock
    <3>1. nV \in Nat /\ next \in 0 .. nV - 1
      BY <2>1, HornetAssumption DEF Vertices
    <3>2. \A v \in next + 1 .. nV - 1 : v \in next .. nV - 1 /\ v \in Vertices /\ v # next
      BY <3>1 DEF Vertices
    <3> QED BY <2>1, <3>1, <3>2 DEF QueueConsistent
  <2> QED BY <1>1, <2>1, <2>2 DEF LoadVertex, QueueConsistent
<1>2. CASE LoadDone
  BY <1>2 DEF LoadDone, QueueConsistent
<1>3. ASSUME NEW b \in Batches, NEW f, NEW g, Insert(b, f, g) PROVE QueueConsistent'
  <2>1. batch' \in Seq(Edges)
    BY DEF TypeOK
  <2>2. ASSUME NEW s \in todo' PROVE NewDegree(s)' \in 0 .. MaxDegree
    <3>1. s \in Sources(batch') /\ s \in Vertices
      BY <1>3, <2>1, SourcesType DEF Insert
    <3>2. vertex[s].degree + Requested(batch', s) <= MaxDegree
      BY <1>3, <3>1 DEF Insert, Fits
    <3>3. Requested(batch', s) \in Nat
      BY <2>1, RequestedType
    <3>4. vertex[s].degree \in Nat /\ MaxDegree \in Nat
      BY <3>1, HornetAssumption, SizesAssumption DEF TypeOK, VertexData
    <3>5. NewDegree(s)' = vertex[s].degree + Requested(batch', s)
      BY <1>3 DEF Insert, NewDegree
    <3> QED BY <3>2, <3>3, <3>4, <3>5
  <2> QED BY <1>3, <2>2 DEF Insert, QueueConsistent
<1>4. ASSUME NEW b \in Batches, Erase(b) PROVE QueueConsistent'
  BY <1>4 DEF Erase, QueueConsistent
<1>5. ASSUME NEW s \in todo, QueueSource(s) PROVE QueueConsistent'
  <2>1. /\ pc = "queue" /\ pc' = "queue" /\ todo' = todo \ {s}
        /\ batch' = batch /\ call' = call
        /\ \A v \in Vertices : v # s => vertex'[v] = vertex[v]
    BY <1>5 DEF QueueSource, SetDegree, TypeOK
  <2>2. ASSUME NEW t \in todo' PROVE NewDegree(t)' = NewDegree(t)
    BY <2>1 DEF NewDegree, TypeOK
  <2>3. \A k \in DOMAIN queue : queue[k].src \in Vertices /\ queue[k].src # s
    <3>1. \A k \in DOMAIN queue : queue[k] \in Entries
      BY <1>0
    <3>2. \A k \in DOMAIN queue : queue[k].src \notin todo
      BY <2>1 DEF QueueConsistent
    <3> QED BY <3>1, <3>2 DEF Entries
  <2>4. CASE MustMove(s)
    <3> DEFINE e == [src |-> s, old |-> vertex[s],
                     new |-> [NoBlock EXCEPT !.degree = NewDegree(s)]]
    <3>1. queue' = Append(queue, e) /\ vertex' = vertex
      BY <1>5, <2>4 DEF QueueSource, SetDegree
    <3>2. /\ DOMAIN queue' = 1 .. Len(queue) + 1
          /\ \A k \in DOMAIN queue : queue'[k] = queue[k]
          /\ queue'[Len(queue) + 1] = e
      BY <1>0, <3>1
    <3>3. e.src = s /\ e.old = vertex[s]
      OBVIOUS
    <3>4. \A k \in DOMAIN queue' : k \in DOMAIN queue \/ k = Len(queue) + 1
      BY <1>0, <3>2
    <3> HIDE DEF e
    <3>5. \A k \in DOMAIN queue' : queue'[k].old = vertex'[queue'[k].src]
      BY <2>1, <3>1, <3>2, <3>3, <3>4 DEF QueueConsistent
    <3>6. \A k \in DOMAIN queue' : queue'[k].src \notin todo'
      BY <2>1, <3>2, <3>3, <3>4 DEF QueueConsistent
    <3>7. \A j, k \in DOMAIN queue' : queue'[j].src = queue'[k].src => j = k
      BY <2>1, <2>3, <3>2, <3>3, <3>4 DEF QueueConsistent
    <3> QED BY <2>1, <2>2, <3>5, <3>6, <3>7 DEF QueueConsistent
  <2>5. CASE ~MustMove(s)
    <3>1. queue' = queue
      BY <1>5, <2>5 DEF QueueSource, SetDegree
    <3> QED BY <2>1, <2>2, <2>3, <3>1 DEF QueueConsistent
  <2> QED BY <2>4, <2>5
<1>6. CASE QueueDone
  BY <1>0, <1>6 DEF QueueDone, QueueConsistent
<1>7. CASE AllocBlock
  <2>1. /\ pc = "alloc" /\ pc' = "alloc" /\ vertex' = vertex
        /\ next \in 1 .. Len(queue) /\ next' = next + 1
    BY <1>0, <1>7 DEF AllocBlock, QueueConsistent
  <2>2. PICK p, o : queue' = [queue EXCEPT ![next].new.ptr = p, ![next].new.offset = o]
    BY <1>7 DEF AllocBlock
  <2>3. /\ Len(queue') = Len(queue) /\ DOMAIN queue' = DOMAIN queue
        /\ \A k \in DOMAIN queue : queue'[k].src = queue[k].src /\ queue'[k].old = queue[k].old
    BY <1>0, <2>1, <2>2 DEF Entries
  <2> QED BY <1>0, <2>1, <2>3 DEF QueueConsistent
<1>8. CASE MoveAdjacencyLists
  BY <1>0, <1>8 DEF MoveAdjacencyLists, QueueConsistent
<1>9. CASE FreeBlock
  BY <1>0, <1>9 DEF FreeBlock, QueueConsistent
<1>10. CASE AppendBatchEdges
  BY <1>10 DEF AppendBatchEdges, Return, QueueConsistent
<1>11. CASE Locate
  <2>1. vertex' = vertex /\ pc = "locate" /\ pc' = "overwrite" /\ queue' = queue /\ call' = call
    BY <1>11 DEF Locate
  <2> QED BY <1>11, <2>1, LocateSlots DEF QueueConsistent
<1>12. CASE LocateNothing
  <2>1. /\ pc = "locate" /\ pc' = "overwrite" /\ queue' = queue /\ call' = call
        /\ locs' = <<>> /\ batch' = batch /\ vertex' = vertex
    BY <1>12 DEF LocateNothing, QueueConsistent
  <2>2. Len(locs') = Len(batch') => DOMAIN batch' = {}
    BY <2>1 DEF TypeOK
  <2> QED BY <2>1, <2>2 DEF QueueConsistent
<1>13. CASE OverwriteDeletedEdges
  <2>1. CASE batch = <<>>
    BY <1>13, <2>1 DEF OverwriteDeletedEdges, Return, QueueConsistent
  <2>2. CASE batch # <<>>
    <3>1. /\ pc = "overwrite" /\ pc' = "queue" /\ todo' = Sources(batch) /\ batch' = batch
          /\ vertex' = vertex /\ call' = call /\ queue' = queue /\ Len(locs) = Len(batch)
      BY <1>13, <2>2 DEF OverwriteDeletedEdges
    <3>2. call.op = "erase" /\ queue = <<>>
      BY <3>1 DEF QueueConsistent
    <3>3. ASSUME NEW s \in Sources(batch) PROVE NewDegree(s)' \in 0 .. MaxDegree
      <4>1. s \in Vertices /\ Requested(batch, s) \in Nat
        BY SourcesType, RequestedType DEF TypeOK
      <4>2. DOMAIN locs = DOMAIN batch
        BY <3>1 DEF TypeOK
      <4>3. Requested(batch, s) <= vertex[s].degree
        BY <3>1, <4>1, <4>2, RequestedBound DEF QueueConsistent
      <4>4. NewDegree(s)' = vertex[s].degree - Requested(batch, s)
        BY <3>1, <3>2 DEF NewDegree
      <4>5. vertex[s].degree \in 0 .. MaxDegree /\ MaxDegree \in Nat
        BY <4>1, HornetAssumption, SizesAssumption DEF TypeOK, VertexData
      <4> QED BY <4>1, <4>3, <4>4, <4>5
    <3> QED BY <3>1, <3>2, <3>3 DEF QueueConsistent
  <2> QED BY <2>1, <2>2
<1>14. CASE OverwriteFault
  BY <1>14 DEF OverwriteFault, QueueConsistent
<1>15. CASE EraseDone
  BY <1>15 DEF EraseDone, Return, QueueConsistent
<1>16. CASE Sort
  BY <1>16 DEF Sort, QueueConsistent
<1>17. CASE UNCHANGED vars
  BY <1>17 DEF vars, QueueConsistent, NewDegree
<1> QED BY <1>1, <1>2, <1>3, <1>4, <1>5, <1>6, <1>7, <1>8, <1>9, <1>10, <1>11, <1>12,
           <1>13, <1>14, <1>15, <1>16, <1>17 DEF Next, InsertStep, EraseStep

----------------------------------------------------------------------------
(* The blocks.                                                             *)

\* A step that leaves the claims, their blocks and their sizes as they are.
LEMMA SameClaims ==
    ASSUME BlockOwnership, arrays' = arrays, Claims' = Claims,
           \A c \in Claims : /\ Claimed(c)'.ptr = Claimed(c).ptr
                             /\ Claimed(c)'.offset = Claimed(c).offset
                             /\ RoundupPow2(Claimed(c)'.degree) = RoundupPow2(Claimed(c).degree)
    PROVE  BlockOwnership'
<1>1. \A c \in Claims : Block(c)' = Block(c)
  BY DEF Block
<1> QED BY <1>1 DEF BlockOwnership

\* A step after which other claimants have the same blocks: claim c has the
\* block that claim B[c] had.
LEMMA Reclaim ==
    ASSUME BlockOwnership, arrays' = arrays, NEW B,
           \A c \in Claims' : B[c] \in Claims /\ Claimed(c)' = Claimed(B[c]),
           \A c, e \in Claims' : B[c] = B[e] => c = e,
           \A e \in Claims : \E c \in Claims' : B[c] = e
    PROVE  BlockOwnership'
<1>1. \A c \in Claims' : Block(c)' = Block(B[c])
  BY DEF Block
<1>2. \A c, e \in Claims' : c # e => Block(c)' # Block(e)'
  BY <1>1 DEF BlockOwnership
<1>3. \A c \in Claims' :
         /\ Claimed(c)'.ptr \in DOMAIN arrays'
         /\ Claimed(c)'.offset \in arrays'[Claimed(c)'.ptr].used
         /\ arrays'[Claimed(c)'.ptr].size = RoundupPow2(Claimed(c)'.degree)
  BY DEF BlockOwnership
<1>4. \A p \in DOMAIN arrays' : \A o \in arrays'[p].used :
         \E c \in Claims' : Block(c)' = <<p, o>>
  BY <1>1 DEF BlockOwnership
<1> QED BY <1>2, <1>3, <1>4 DEF BlockOwnership

\* A step that adds a claim to the block an insert of the manager returned.
LEMMA AddClaim ==
    ASSUME BlockOwnership, NEW d, NEW p, NEW o, BlockInserted(d, p, o),
           NEW n, n \notin Claims, Claims' = Claims \cup {n},
           Claimed(n)'.degree = d, Claimed(n)'.ptr = p, Claimed(n)'.offset = o,
           \A c \in Claims : Claimed(c)' = Claimed(c)
    PROVE  BlockOwnership'
<1>2. /\ \A c \in Claims : Block(c)' = Block(c)
      /\ Block(n)' = <<p, o>>
  BY DEF Block
<1>3. \A c \in Claims : Block(c) # <<p, o>>
  BY DEF BlockOwnership, Block, BlockInserted
<1>4. \A c, e \in Claims' : c # e => Block(c)' # Block(e)'
  BY <1>2, <1>3 DEF BlockOwnership
<1>5. \A c \in Claims' :
         /\ Claimed(c)'.ptr \in DOMAIN arrays'
         /\ Claimed(c)'.offset \in arrays'[Claimed(c)'.ptr].used
         /\ arrays'[Claimed(c)'.ptr].size = RoundupPow2(Claimed(c)'.degree)
  <2> TAKE c \in Claims'
  <2>1. CASE c \in Claims
    BY <2>1 DEF BlockOwnership, BlockInserted
  <2>2. CASE c = n
    BY <2>2 DEF BlockInserted
  <2> QED BY <2>1, <2>2
<1>6. \A q \in DOMAIN arrays' : \A x \in arrays'[q].used :
         \E c \in Claims' : Block(c)' = <<q, x>>
  <2> TAKE q \in DOMAIN arrays'
  <2> TAKE x \in arrays'[q].used
  <2>1. CASE q \in DOMAIN arrays /\ x \in arrays[q].used
    <3>1. PICK c \in Claims : Block(c) = <<q, x>>
      BY <2>1 DEF BlockOwnership
    <3> QED BY <3>1, <1>2
  <2>2. CASE q = p /\ x = o
    BY <2>2, <1>2
  <2> QED BY <2>1, <2>2 DEF BlockInserted
<1> QED BY <1>4, <1>5, <1>6 DEF BlockOwnership

\* A step that gives a claimed block back.
LEMMA DropClaim ==
    ASSUME BlockOwnership, ArraysOK, NEW n \in Claims, Claims' = Claims \ {n},
           BlockRemove(Claimed(n).degree, Claimed(n).ptr, Claimed(n).offset),
           \A c \in Claims : Claimed(c)' = Claimed(c)
    PROVE  BlockOwnership'
<1> DEFINE p == Claimed(n).ptr
           o == Claimed(n).offset
<1>1. /\ DOMAIN arrays' = DOMAIN arrays
      /\ \A q \in DOMAIN arrays : arrays'[q].size = arrays[q].size
      /\ \A q \in DOMAIN arrays : \A x :
            x \in arrays'[q].used <=> x \in arrays[q].used /\ ~(q = p /\ x = o)
  BY BlockRemoveEffect
<1>2. \A c \in Claims : Block(c)' = Block(c)
  BY DEF Block
<1>3. Block(n) = <<p, o>>
  BY DEF Block
<1>4. \A c \in Claims' : /\ c \in Claims /\ Block(c) # <<p, o>>
                         /\ Block(c) = <<Claimed(c).ptr, Claimed(c).offset>>
  <2>1. \A c \in Claims : c # n => Block(c) # Block(n)
    BY DEF BlockOwnership
  <2> QED BY <2>1, <1>3 DEF Block
<1>5. \A c, e \in Claims' : c # e => Block(c)' # Block(e)'
  BY <1>2 DEF BlockOwnership
<1>6. \A c \in Claims' :
         /\ Claimed(c)'.ptr \in DOMAIN arrays'
         /\ Claimed(c)'.offset \in arrays'[Claimed(c)'.ptr].used
         /\ arrays'[Claimed(c)'.ptr].size = RoundupPow2(Claimed(c)'.degree)
  BY <1>1, <1>4 DEF BlockOwnership
<1>7. \A q \in DOMAIN arrays' : \A x \in arrays'[q].used :
         \E c \in Claims' : Block(c)' = <<q, x>>
  <2> TAKE q \in DOMAIN arrays'
  <2> TAKE x \in arrays'[q].used
  <2>1. q \in DOMAIN arrays /\ x \in arrays[q].used /\ <<q, x>> # <<p, o>>
    BY <1>1
  <2>2. PICK c \in Claims : Block(c) = <<q, x>>
    BY <2>1 DEF BlockOwnership
  <2>3. c # n
    BY <2>1, <2>2, <1>3
  <2> QED BY <2>2, <2>3, <1>2
<1> QED BY <1>5, <1>6, <1>7 DEF BlockOwnership

\* The claims of vertices and of queue entries.
LEMMA ClaimCases ==
    /\ \A v \in Vertices : <<"vertex", v>> \in Claims <=> vertex[v].degree # 0
    /\ \A k \in DOMAIN queue :
          /\ <<"new", k>> \in Claims <=>
                pc = "alloc" /\ k < next /\ queue[k].new.degree # 0
          /\ <<"old", k>> \in Claims <=>
                pc = "free" /\ k >= next /\ queue[k].old.degree # 0
    /\ \A c \in Claims :
          \/ \E v \in Vertices : c = <<"vertex", v>>
          \/ \E k \in DOMAIN queue : c = <<"new", k>>
          \/ \E k \in DOMAIN queue : c = <<"old", k>>
    /\ \A v : Claimed(<<"vertex", v>>) = vertex[v]
    /\ \A k : Claimed(<<"new", k>>) = queue[k].new
    /\ \A k : Claimed(<<"old", k>>) = queue[k].old
  BY DEF Claims, Claimed

\* Only the vertices have claims.
NoPending == \A k \in DOMAIN queue : /\ ~(pc = "alloc" /\ k < next)
                                     /\ ~(pc = "free" /\ k >= next)

LEMMA VertexClaims ==
    ASSUME NoPending
    PROVE  Claims = {<<"vertex", v>> : v \in {w \in Vertices : vertex[w].degree # 0}}
  BY DEF NoPending, Claims

\* A step that moves no list and neither takes nor gives back a block.
LEMMA QuietStep ==
    ASSUME BlockOwnership, NoPending, NoPending', arrays' = arrays, vertex' = vertex
    PROVE  BlockOwnership'
<1>1. /\ Claims = {<<"vertex", v>> : v \in {w \in Vertices : vertex[w].degree # 0}}
      /\ Claims' = {<<"vertex", v>> : v \in {w \in Vertices : vertex'[w].degree # 0}}
  BY VertexClaims DEF NoPending, Claims
<1>2. \A c \in Claims : Claimed(c)' = Claimed(c)
  BY <1>1 DEF Claimed
<1> QED BY <1>1, <1>2, SameClaims

LEMMA InitOwnership == Init => BlockOwnership
<1> SUFFICES ASSUME Init PROVE BlockOwnership
  OBVIOUS
<1>1. Claims = {}
  BY DEF Init, Claims, NoBlock
<1>2. DOMAIN arrays = {}
  BY DEF Init
<1> QED BY <1>1, <1>2 DEF BlockOwnership

\* A vertex that keeps its block keeps the size of it.
LEMMA StayingSize ==
    ASSUME TypeOK, QueueConsistent, NEW s \in todo, pc = "queue", ~MustMove(s)
    PROVE  /\ vertex[s].degree # 0 /\ NewDegree(s) # 0
           /\ RoundupPow2(NewDegree(s)) = RoundupPow2(vertex[s].degree)
<1> DEFINE d == vertex[s].degree
           e == NewDegree(s)
           r == Requested(batch, s)
<1>1. d \in 0 .. MaxDegree /\ e \in 0 .. MaxDegree /\ MaxDegree \in Nat
  BY HornetAssumption, SizesAssumption DEF TypeOK, VertexData, QueueConsistent
<1>2. r \in Nat /\ r # 0
  BY RequestedType DEF TypeOK, QueueConsistent
<1>3. e = d + r \/ e = d - r
  BY DEF NewDegree
<1>4. RoundupPow2(0) = 0
  BY DEF RoundupPow2
<1>5. d # 0 => /\ RoundupPow2(d) \in Nat
               /\ d <= RoundupPow2(d) /\ RoundupPow2(d) < 2 * d
  <2> SUFFICES ASSUME d # 0
               PROVE  /\ RoundupPow2(d) \in Nat
                      /\ d <= RoundupPow2(d) /\ RoundupPow2(d) < 2 * d
    OBVIOUS
  <2> HIDE DEF d
  <2>1. d \in Degrees
    BY <1>1 DEF Degrees
  <2> QED BY <2>1, RoundupType, SizesAssumption
<1>6. CASE call.op = "insert"
  <2>1. e = d + r /\ ~(e > RoundupPow2(d))
    BY <1>6 DEF NewDegree, MustMove, Limit
  <2>2. d # 0 /\ e # 0
    BY <2>1, <1>1, <1>2, <1>4
  <2>3. e <= RoundupPow2(d) /\ RoundupPow2(d) < 2 * e
    BY <2>1, <2>2, <1>1, <1>2, <1>5
  <2> QED BY <2>2, <2>3, <1>1, SameRoundup DEF Degrees
<1>7. CASE call.op # "insert"
  <2>1. e = d - r /\ ~(e <= RoundupPow2(d) \div 2)
    BY <1>7 DEF NewDegree, MustMove, Limit
  <2>2. d # 0
    BY <2>1, <1>1, <1>2
  <2>3. e # 0 /\ e <= RoundupPow2(d) /\ RoundupPow2(d) < 2 * e
    BY <2>1, <2>2, <1>1, <1>2, <1>5
  <2> QED BY <2>2, <2>3, <1>1, SameRoundup DEF Degrees
<1> QED BY <1>6, <1>7

\* After queued vertices Q have exchanged their old blocks for new ones and
\* the others, U, have kept theirs, different claims C stand for blocks that
\* different claims B stood for.
LEMMA Exchange ==
    ASSUME NEW Q, NEW U, NEW src, NEW C, NEW B,
           \A j, k \in Q : src[j] = src[k] => j = k,
           \A k \in Q : src[k] \notin U,
           \A k \in Q : <<"old", k>> \in C => B[<<"old", k>>] = <<"vertex", src[k]>>,
           \A k \in Q : <<"vertex", src[k]>> \in C =>
               B[<<"vertex", src[k]>>] = <<"new", k>>,
           \A v \in U : <<"vertex", v>> \in C => B[<<"vertex", v>>] = <<"vertex", v>>,
           \A c \in C : \/ \E k \in Q : c = <<"old", k>>
                        \/ \E k \in Q : c = <<"vertex", src[k]>>
                        \/ \E v \in U : c = <<"vertex", v>>
    PROVE  \A c, e \in C : B[c] = B[e] => c = e
<1>1. \A x, y : <<"vertex", x>> # <<"new", y>>
  OBVIOUS
<1>2. \A x, y : <<"vertex", x>> = <<"vertex", y>> => x = y
  OBVIOUS
<1>3. \A x, y : <<"new", x>> = <<"new", y>> => x = y
  OBVIOUS
<1> SUFFICES ASSUME NEW c \in C, NEW e \in C, B[c] = B[e] PROVE c = e
  OBVIOUS
<1>4. ASSUME NEW k \in Q, c = <<"old", k>> PROVE c = e
  <2>1. B[e] = <<"vertex", src[k]>>
    BY <1>4
  <2>2. CASE \E j \in Q : e = <<"old", j>>
    BY <2>1, <2>2, <1>2, <1>4
  <2>3. CASE \E j \in Q : e = <<"vertex", src[j]>>
    BY <2>1, <2>3, <1>1
  <2>4. CASE \E v \in U : e = <<"vertex", v>>
    BY <2>1, <2>4, <1>2
  <2> QED BY <2>2, <2>3, <2>4
<1>5. ASSUME NEW k \in Q, c = <<"vertex", src[k]>> PROVE c = e
  <2>1. B[e] = <<"new", k>>
    BY <1>5
  <2>2. CASE \E j \in Q : e = <<"old", j>>
    BY <2>1, <2>2, <1>1
  <2>3. CASE \E j \in Q : e = <<"vertex", src[j]>>
    BY <2>1, <2>3, <1>3, <1>5
  <2>4. CASE \E v \in U : e = <<"vertex", v>>
    BY <2>1, <2>4, <1>1
  <2> QED BY <2>2, <2>3, <2>4
<1>6. ASSUME NEW v \in U, c = <<"vertex", v>> PROVE c = e
  <2>1. B[e] = <<"vertex", v>>
    BY <1>6
  <2>2. CASE \E j \in Q : e = <<"old", j>>
    BY <2>1, <2>2, <1>2
  <2>3. CASE \E j \in Q : e = <<"vertex", src[j]>>
    BY <2>1, <2>3, <1>1
  <2>4. CASE \E w \in U : e = <<"vertex", w>>
    BY <2>1, <2>4, <1>2, <1>6
  <2> QED BY <2>2, <2>3, <2>4
<1> QED BY <1>4, <1>5, <1>6

\* move_adjacency_lists turns the old blocks over to the queue and the new
\* ones to the vertices.
LEMMA MoveStep ==
    ASSUME TypeOK, QueueConsistent, BlockOwnership, MoveAdjacencyLists
    PROVE  BlockOwnership'
<1>1. /\ queue \in Seq(Entries) /\ Len(queue) \in Nat /\ DOMAIN queue = 1 .. Len(queue)
      /\ \A k \in DOMAIN queue : queue[k].src \in Vertices
  <2>1. queue \in Seq(Entries)
    BY DEF TypeOK, Entries
  <2>2. \A k \in DOMAIN queue : queue[k] \in Entries
    BY <2>1
  <2> QED BY <2>1, <2>2 DEF Entries
<1>2. /\ pc = "alloc" /\ pc' = "free" /\ next = Len(queue) + 1 /\ next' = 1
      /\ arrays' = arrays /\ queue' = queue
      /\ \A k \in DOMAIN queue : queue[k].old = vertex[queue[k].src]
      /\ \A j, k \in DOMAIN queue : queue[j].src = queue[k].src => j = k
  BY DEF MoveAdjacencyLists, QueueConsistent
<1> DEFINE Q == DOMAIN queue
<1>3. PICK src \in [Q -> Vertices] : \A k \in Q : queue[k].src = src[k]
  <2> DEFINE f == [k \in Q |-> queue[k].src]
  <2>1. f \in [Q -> Vertices] /\ \A k \in Q : queue[k].src = f[k]
    BY <1>1
  <2> QED BY <2>1
<1> DEFINE Queued == {src[k] : k \in Q}
<1>4. \A k \in Q : vertex'[src[k]] = queue[k].new
  <2> TAKE k \in Q
  <2>1. (CHOOSE j \in Q : queue[j].src = src[k]) = k
    BY <1>3, <1>2
  <2> QED BY <2>1, <1>3, <1>1 DEF MoveAdjacencyLists
<1>5. \A v \in Vertices : v \notin Queued => vertex'[v] = vertex[v]
  BY <1>3 DEF MoveAdjacencyLists
<1>6. /\ \A j, k \in Q : src[j] = src[k] => j = k
      /\ \A k \in Q : queue[k].old = vertex[src[k]]
  BY <1>3, <1>2
<1>7. \A v \in Vertices : <<"vertex", v>> \in Claims <=> vertex[v].degree # 0
  BY ClaimCases
<1>8. \A k \in Q :
         /\ <<"new", k>> \in Claims <=> queue[k].new.degree # 0
         /\ <<"old", k>> \notin Claims
  BY <1>1, <1>2 DEF Claims
<1>9. /\ \A v \in Vertices : <<"vertex", v>> \in Claims' <=> vertex'[v].degree # 0
      /\ \A k \in Q :
            /\ <<"old", k>> \in Claims' <=> queue[k].old.degree # 0
            /\ <<"new", k>> \notin Claims'
      /\ \A c \in Claims' : \/ \E v \in Vertices : c = <<"vertex", v>>
                            \/ \E k \in Q : c = <<"old", k>>
  BY <1>1, <1>2 DEF Claims
<1>10. /\ \A v : Claimed(<<"vertex", v>>) = vertex[v] /\ Claimed(<<"vertex", v>>)' = vertex'[v]
       /\ \A k : /\ Claimed(<<"new", k>>) = queue[k].new
                 /\ Claimed(<<"old", k>>)' = queue'[k].old
  BY DEF Claimed
\* The claim, before the step, to the block that c claims after it.
<1> DEFINE B == [c \in Claims' |->
                   IF c[1] = "old" THEN <<"vertex", src[c[2]]>>
                   ELSE IF c[2] \in Queued
                        THEN <<"new", CHOOSE k \in Q : src[k] = c[2]>>
                        ELSE c]
<1>11. \A k \in Q : <<"old", k>> \in Claims' =>
         /\ B[<<"old", k>>] = <<"vertex", src[k]>>
         /\ <<"vertex", src[k]>> \in Claims
         /\ Claimed(<<"old", k>>)' = Claimed(<<"vertex", src[k]>>)
  <2> SUFFICES ASSUME NEW k \in Q, <<"old", k>> \in Claims'
               PROVE  /\ B[<<"old", k>>] = <<"vertex", src[k]>>
                      /\ <<"vertex", src[k]>> \in Claims
                      /\ Claimed(<<"old", k>>)' = Claimed(<<"vertex", src[k]>>)
    OBVIOUS
  <2>1. B[<<"old", k>>] = <<"vertex", src[k]>>
    OBVIOUS
  <2>2. queue[k].old = vertex[src[k]] /\ queue[k].old.degree # 0
    BY <1>9, <1>6
  <2> HIDE DEF B
  <2>3. <<"vertex", src[k]>> \in Claims
    BY <2>2, <1>1, <1>7, <1>6
  <2>4. Claimed(<<"old", k>>)' = Claimed(<<"vertex", src[k]>>)
    BY <2>2, <1>2, <1>10
  <2> QED BY <2>1, <2>3, <2>4
<1>12. \A k \in Q : <<"vertex", src[k]>> \in Claims' =>
         /\ B[<<"vertex", src[k]>>] = <<"new", k>>
         /\ <<"new", k>> \in Claims
         /\ Claimed(<<"vertex", src[k]>>)' = Claimed(<<"new", k>>)
  <2> SUFFICES ASSUME NEW k \in Q, <<"vertex", src[k]>> \in Claims'
               PROVE  /\ B[<<"vertex", src[k]>>] = <<"new", k>>
                      /\ <<"new", k>> \in Claims
                      /\ Claimed(<<"vertex", src[k]>>)' = Claimed(<<"new", k>>)
    OBVIOUS
  <2>1. (CHOOSE j \in Q : src[j] = src[k]) = k
    BY <1>6
  <2>2. B[<<"vertex", src[k]>>] = <<"new", k>>
    BY <2>1
  <2> HIDE DEF B
  <2>3. vertex'[src[k]] = queue[k].new /\ queue[k].new.degree # 0
    BY <1>1, <1>4, <1>9
  <2>4. <<"new", k>> \in Claims
    BY <2>3, <1>8
  <2>5. Claimed(<<"vertex", src[k]>>)' = Claimed(<<"new", k>>)
    BY <2>3, <1>10
  <2> QED BY <2>2, <2>4, <2>5
<1>13. \A v \in Vertices : v \notin Queued /\ <<"vertex", v>> \in Claims' =>
         /\ B[<<"vertex", v>>] = <<"vertex", v>>
         /\ <<"vertex", v>> \in Claims
         /\ Claimed(<<"vertex", v>>)' = Claimed(<<"vertex", v>>)
  BY <1>5, <1>7, <1>9, <1>10
<1>14. \A c \in Claims' :
         \/ \E k \in Q : c = <<"old", k>>
         \/ \E k \in Q : c = <<"vertex", src[k]>>
         \/ \E v \in Vertices : v \notin Queued /\ c = <<"vertex", v>>
  BY <1>9
<1> HIDE DEF B
<1>15. \A c \in Claims' : B[c] \in Claims /\ Claimed(c)' = Claimed(B[c])
  <2> TAKE c \in Claims'
  <2>1. CASE \E k \in Q : c = <<"old", k>>
    BY <2>1, <1>1, <1>11
  <2>2. CASE \E k \in Q : c = <<"vertex", src[k]>>
    BY <2>2, <1>1, <1>12
  <2>3. CASE \E v \in Vertices : v \notin Queued /\ c = <<"vertex", v>>
    BY <2>3, <1>13
  <2> QED BY <2>1, <2>2, <2>3, <1>14
<1>16. \A c, e \in Claims' : B[c] = B[e] => c = e
  <2> DEFINE U == Vertices \ Queued
  <2>1. \A k \in Q : src[k] \notin U
    OBVIOUS
  <2>2. \A k \in Q : <<"old", k>> \in Claims' => B[<<"old", k>>] = <<"vertex", src[k]>>
    BY <1>11
  <2>3. \A k \in Q : <<"vertex", src[k]>> \in Claims' =>
           B[<<"vertex", src[k]>>] = <<"new", k>>
    BY <1>12
  <2>4. \A v \in U : <<"vertex", v>> \in Claims' => B[<<"vertex", v>>] = <<"vertex", v>>
    BY <1>13
  <2>5. \A c \in Claims' : \/ \E k \in Q : c = <<"old", k>>
                           \/ \E k \in Q : c = <<"vertex", src[k]>>
                           \/ \E v \in U : c = <<"vertex", v>>
    BY <1>14
  <2> HIDE DEF Q, U
  <2> QED BY <1>6, <2>1, <2>2, <2>3, <2>4, <2>5, Exchange
<1>17. \A e \in Claims : \E c \in Claims' : B[c] = e
  <2> SUFFICES ASSUME NEW e \in Claims PROVE \E c \in Claims' : B[c] = e
    OBVIOUS
  <2>1. CASE \E k \in Q : e = <<"vertex", src[k]>>
    <3>1. PICK k \in Q : e = <<"vertex", src[k]>>
      BY <2>1
    <3>2. <<"old", k>> \in Claims'
      <4>1. queue[k].old.degree # 0
        BY <3>1, <1>7, <1>6
      <4> QED BY <4>1, <1>9
    <3> QED BY <3>1, <3>2, <1>11
  <2>2. CASE \E k \in Q : e = <<"new", k>>
    BY <2>2, <1>1, <1>4, <1>8, <1>9, <1>12
  <2>3. CASE \E v \in Vertices : v \notin Queued /\ e = <<"vertex", v>>
    BY <2>3, <1>5, <1>7, <1>9, <1>13
  <2>4. \/ \E v \in Vertices : e = <<"vertex", v>>
        \/ \E k \in Q : e = <<"new", k>>
    BY <1>2 DEF Claims
  <2> QED BY <2>1, <2>2, <2>3, <2>4
<1> QED BY <1>2, <1>15, <1>16, <1>17, Reclaim

LEMMA OwnershipStep ==
    ASSUME TypeOK, QueueConsistent, BlockOwnership, [Next]_vars, TypeOK', QueueConsistent'
    PROVE  BlockOwnership'
<1>0. /\ queue \in Seq(Entries) /\ Len(queue) \in Nat /\ DOMAIN queue = 1 .. Len(queue)
      /\ \A k \in DOMAIN queue : queue[k] \in Entries
      /\ ArraysOK /\ ArraysOK'
  <2>1. queue \in Seq(Entries)
    BY DEF TypeOK, Entries
  <2> QED BY <2>1 DEF TypeOK, ArraysOK
<1>1. CASE LoadVertex
  <2>1. PICK u \in Vertices : u = next
    BY <1>1 DEF LoadVertex
  <2> DEFINE n == <<"vertex", u>>
  <2>2. /\ pc = "load" /\ pc' = "load" /\ queue = <<>> /\ queue' = <<>>
        /\ vertex[u] = NoBlock
    <3>1. \A v \in Vertices : v \in Nat /\ v <= nV - 1 /\ nV \in Nat
      BY HornetAssumption DEF Vertices
    <3> QED BY <1>1, <2>1, <3>1 DEF LoadVertex, QueueConsistent
  <2>3. PICK d, p, o :
           /\ d \in 0 .. MaxDegree
           /\ BlockInsert(d, p, o)
           /\ vertex' = [vertex EXCEPT ![u] = [degree |-> d, ptr |-> p, offset |-> o]]
    <3>1. Len(call.graph[next]) \in 0 .. MaxDegree
      BY <2>1, <2>2, HornetAssumption, SizesAssumption DEF QueueConsistent
    <3> QED BY <3>1, <1>1, <2>1 DEF LoadVertex
  <2>4. /\ vertex[u].degree = 0
        /\ vertex'[u].degree = d /\ vertex'[u].ptr = p /\ vertex'[u].offset = o
        /\ \A v \in Vertices : v # u => vertex'[v] = vertex[v]
    BY <2>2, <2>3 DEF TypeOK, NoBlock
  <2>5. /\ Claims = {<<"vertex", v>> : v \in {w \in Vertices : vertex[w].degree # 0}}
        /\ Claims' = {<<"vertex", v>> : v \in {w \in Vertices : vertex'[w].degree # 0}}
    BY <2>2 DEF Claims
  <2>6. \A c \in Claims : Claimed(c)' = Claimed(c)
    BY <2>4, <2>5 DEF Claimed
  <2>7. CASE d = 0
    <3>1. arrays' = arrays
      BY <2>3, <2>7, <1>0, BlockInsertEffect
    <3>2. Claims' = Claims
      BY <2>4, <2>5, <2>7
    <3> QED BY <3>1, <3>2, <2>6, SameClaims
  <2>8. CASE d # 0
    <3>1. BlockInserted(d, p, o)
      BY <2>3, <2>8, <1>0, BlockInsertEffect
    <3>2. n \notin Claims /\ Claims' = Claims \cup {n}
      BY <2>4, <2>5, <2>8
    <3>3. Claimed(n)' = vertex'[u]
      BY DEF Claimed
    <3> QED BY <3>1, <3>2, <3>3, <2>4, <2>6, AddClaim
  <2> QED BY <2>7, <2>8
<1>2. CASE LoadDone
  BY <1>2, QuietStep DEF LoadDone, NoPending
<1>3. ASSUME NEW b \in Batches, NEW f, NEW g, Insert(b, f, g) PROVE BlockOwnership'
  BY <1>3, QuietStep DEF Insert, NoPending
<1>4. ASSUME NEW b \in Batches, Erase(b) PROVE BlockOwnership'
  BY <1>4, QuietStep DEF Erase, NoPending
<1>5. ASSUME NEW s \in todo, QueueSource(s) PROVE BlockOwnership'
  <2>1. /\ pc = "queue" /\ pc' = "queue" /\ arrays' = arrays
    BY <1>5 DEF QueueSource
  <2>2. CASE MustMove(s)
    BY <1>5, <2>2, QuietStep DEF QueueSource, SetDegree, NoPending
  <2>3. CASE ~MustMove(s)
    <3>1. /\ vertex[s].degree # 0 /\ NewDegree(s) # 0
          /\ RoundupPow2(NewDegree(s)) = RoundupPow2(vertex[s].degree)
      BY <2>1, <2>3, StayingSize
    <3>2. vertex' = [vertex EXCEPT ![s].degree = NewDegree(s)]
      BY <1>5, <2>3 DEF QueueSource, SetDegree
    <3>3. /\ s \in Vertices
          /\ vertex'[s].degree = NewDegree(s)
          /\ vertex'[s].ptr = vertex[s].ptr /\ vertex'[s].offset = vertex[s].offset
          /\ \A v \in Vertices : v # s => vertex'[v] = vertex[v]
      BY <3>2 DEF TypeOK, VertexData
    <3>4. /\ Claims = {<<"vertex", v>> : v \in {w \in Vertices : vertex[w].degree # 0}}
          /\ Claims' = {<<"vertex", v>> : v \in {w \in Vertices : vertex'[w].degree # 0}}
      BY <2>1 DEF Claims
    <3>5. Claims' = Claims
      BY <3>1, <3>3, <3>4
    <3>6. \A v : Claimed(<<"vertex", v>>) = vertex[v] /\ Claimed(<<"vertex", v>>)' = vertex'[v]
      BY DEF Claimed
    <3>7. ASSUME NEW v \in Vertices
          PROVE  /\ vertex'[v].ptr = vertex[v].ptr /\ vertex'[v].offset = vertex[v].offset
                 /\ RoundupPow2(vertex'[v].degree) = RoundupPow2(vertex[v].degree)
      BY <3>1, <3>3
    <3>8. \A c \in Claims :
             /\ Claimed(c)'.ptr = Claimed(c).ptr
             /\ Claimed(c)'.offset = Claimed(c).offset
             /\ RoundupPow2(Claimed(c)'.degree) = RoundupPow2(Claimed(c).degree)
      <4> TAKE c \in Claims
      <4>1. PICK v \in Vertices : c = <<"vertex", v>>
        BY <3>4
      <4> QED BY <4>1, <3>6, <3>7
    <3> QED BY <2>1, <3>5, <3>8, SameClaims
  <2> QED BY <2>2, <2>3
<1>6. CASE QueueDone
  BY <1>0, <1>6, QuietStep DEF QueueDone, NoPending
<1>7. CASE AllocBlock
  <2>1. PICK k \in DOMAIN queue : k = next
    BY <1>0, <1>7 DEF AllocBlock, QueueConsistent
  <2> DEFINE n == <<"new", k>>
  <2>2. /\ pc = "alloc" /\ pc' = "alloc" /\ next = k /\ next' = k + 1 /\ vertex' = vertex
    BY <1>7, <2>1 DEF AllocBlock
  <2>3. PICK d, p, o :
           /\ d \in 0 .. MaxDegree
           /\ BlockInsert(d, p, o) /\ d = queue[k].new.degree
           /\ queue' = [queue EXCEPT ![k].new.ptr = p, ![k].new.offset = o]
    <3>1. queue[k].new.degree \in 0 .. MaxDegree
      BY <1>0 DEF Entries, VertexData
    <3>2. PICK p, o : /\ BlockInsert(queue[next].new.degree, p, o)
                      /\ queue' = [queue EXCEPT ![next].new.ptr = p, ![next].new.offset = o]
      BY <1>7 DEF AllocBlock
    <3>3. BlockInsert(queue[k].new.degree, p, o)
      BY <2>1, <3>2
    <3>4. queue' = [queue EXCEPT ![k].new.ptr = p, ![k].new.offset = o]
      BY <2>1, <3>2
    <3> QED BY <3>1, <3>3, <3>4
  <2>4. /\ DOMAIN queue' = DOMAIN queue
        /\ queue'[k].new.degree = d /\ queue'[k].new.ptr = p /\ queue'[k].new.offset = o
        /\ \A j \in DOMAIN queue : j # k => queue'[j] = queue[j]
    BY <1>0, <2>3 DEF Entries, VertexData
  <2>5. /\ Claims = {<<"vertex", v>> : v \in {w \in Vertices : vertex[w].degree # 0}} \cup
                    {<<"new", j>> : j \in {i \in DOMAIN queue :
                                             i < k /\ queue[i].new.degree # 0}}
        /\ Claims' = {<<"vertex", v>> : v \in {w \in Vertices : vertex[w].degree # 0}} \cup
                     {<<"new", j>> : j \in {i \in DOMAIN queue :
                                              i < k + 1 /\ queue'[i].new.degree # 0}}
    BY <2>2, <2>4 DEF Claims
  <2>6. \A j \in DOMAIN queue : j < k + 1 <=> j < k \/ j = k
    BY <1>0
  <2>7. \A c \in Claims : Claimed(c)' = Claimed(c)
    BY <2>2, <2>4, <2>5, <1>0 DEF Claimed
  <2>8. CASE d = 0
    <3>1. arrays' = arrays
      BY <2>3, <2>8, <1>0, BlockInsertEffect
    <3>2. Claims' = Claims
      BY <2>3, <2>4, <2>5, <2>6, <2>8
    <3> QED BY <3>1, <3>2, <2>7, SameClaims
  <2>9. CASE d # 0
    <3>1. BlockInserted(d, p, o)
      BY <2>3, <2>9, <1>0, BlockInsertEffect
    <3>2. n \notin Claims
      BY <1>0, <2>5
    <3>3. Claims' = Claims \cup {n}
      BY <2>4, <2>5, <2>6, <2>9
    <3>4. Claimed(n)' = queue'[k].new
      BY DEF Claimed
    <3> QED BY <3>1, <3>2, <3>3, <3>4, <2>4, <2>7, AddClaim
  <2> QED BY <2>8, <2>9
<1>8. CASE MoveAdjacencyLists
  BY <1>8, MoveStep
<1>9. CASE FreeBlock
  <2>1. PICK k \in DOMAIN queue : k = next
    BY <1>0, <1>9 DEF FreeBlock, QueueConsistent
  <2> DEFINE n == <<"old", k>>
  <2>2. /\ pc = "free" /\ pc' = "free" /\ next = k /\ next' = k + 1
        /\ vertex' = vertex /\ queue' = queue
    BY <1>9, <2>1 DEF FreeBlock
  <2>3. /\ Claims = {<<"vertex", v>> : v \in {w \in Vertices : vertex[w].degree # 0}} \cup
                    {<<"old", j>> : j \in {i \in DOMAIN queue :
                                             i >= k /\ queue[i].old.degree # 0}}
        /\ Claims' = {<<"vertex", v>> : v \in {w \in Vertices : vertex[w].degree # 0}} \cup
                     {<<"old", j>> : j \in {i \in DOMAIN queue :
                                              i >= k + 1 /\ queue[i].old.degree # 0}}
    BY <2>2 DEF Claims
  <2>4. \A j \in DOMAIN queue : j >= k <=> j >= k + 1 \/ j = k
    BY <1>0
  <2>5. ~(k >= k + 1)
    BY <1>0
  <2>6. \A c \in Claims : Claimed(c)' = Claimed(c)
    BY <2>2 DEF Claimed
  <2>7. Claimed(n) = queue[k].old
    BY DEF Claimed
  <2>8. CASE queue[k].old.degree # 0
    <3>1. BlockRemove(Claimed(n).degree, Claimed(n).ptr, Claimed(n).offset)
      BY <1>9, <2>1, <2>7, <2>8 DEF FreeBlock
    <3>2. n \in Claims
      BY <2>3, <2>4, <2>8
    <3>3. Claims' = Claims \ {n}
      BY <2>3, <2>4, <2>5
    <3> QED BY <3>1, <3>2, <3>3, <2>6, <1>0, DropClaim
  <2>9. CASE queue[k].old.degree = 0
    <3>1. arrays' = arrays
      BY <1>9, <2>1, <2>9 DEF FreeBlock
    <3>2. Claims' = Claims
      BY <2>3, <2>4, <2>5, <2>9
    <3> QED BY <3>1, <3>2, <2>6, SameClaims
  <2> QED BY <2>8, <2>9
<1>10. CASE AppendBatchEdges
  BY <1>0, <1>10, QuietStep DEF AppendBatchEdges, Return, NoPending
<1>11. CASE Locate
  BY <1>11, QuietStep DEF Locate, NoPending
<1>12. CASE LocateNothing
  BY <1>12, QuietStep DEF LocateNothing, NoPending
<1>13. CASE OverwriteDeletedEdges
  BY <1>13, QuietStep DEF OverwriteDeletedEdges, Return, NoPending
<1>14. CASE OverwriteFault
  BY <1>14, QuietStep DEF OverwriteFault, NoPending
<1>15. CASE EraseDone
  BY <1>0, <1>15, QuietStep DEF EraseDone, Return, NoPending
<1>16. CASE Sort
  BY <1>16, QuietStep DEF Sort, NoPending
<1>17. CASE UNCHANGED vars
  <2>1. UNCHANGED <<arrays, vertex, queue, pc, next>>
    BY <1>17 DEF vars
  <2>2. Claims' = Claims
    BY <2>1 DEF Claims
  <2>3. \A c \in Claims : Claimed(c)' = Claimed(c)
    BY <2>1 DEF Claimed
  <2> QED BY <2>1, <2>2, <2>3, SameClaims
<1> QED BY <1>1, <1>2, <1>3, <1>4, <1>5, <1>6, <1>7, <1>8, <1>9, <1>10, <1>11, <1>12,
           <1>13, <1>14, <1>15, <1>16, <1>17 DEF Next, InsertStep, EraseStep

----------------------------------------------------------------------------
(* The erase plan.                                                         *)

\* The batch of an erase is in the order of its sources.
BatchInOrder == pc \in {"locate", "overwrite"} => InOrder(batch)

LEMMA InOrderStep ==
    ASSUME TypeOK, BatchInOrder, [Next]_vars
    PROVE  BatchInOrder'
<1> USE DEF BatchInOrder
<1>1. ASSUME NEW b \in Batches, Erase(b) PROVE BatchInOrder'
  <2>1. b \in Seq(Edges)
    BY HornetAssumption
  <2>2. InOrder(Sorted(b))
    BY <2>1, SortedInOrder
  <2>3. batch' = Sorted(b)
    BY <1>1 DEF Erase
  <2> QED BY <2>2, <2>3
<1>2. CASE Locate
  <2>1. batch \in Seq(Edges) /\ InOrder(batch) /\ Slots \in SUBSET DOMAIN batch
    BY <1>2 DEF Locate, TypeOK, Slots
  <2>2. InOrder(Pick(batch, Slots))
    BY <2>1, PickInOrder
  <2>3. batch' = Pick(batch, Slots)
    BY <1>2 DEF Locate
  <2> QED BY <2>2, <2>3
<1>3. CASE LocateNothing
  BY <1>3 DEF LocateNothing
<1>4. CASE OverwriteDeletedEdges
  BY <1>4 DEF OverwriteDeletedEdges, Return
<1>5. ASSUME NEW b \in Batches, NEW f, NEW g, Insert(b, f, g) PROVE BatchInOrder'
  BY <1>5 DEF Insert
<1>6. ASSUME NEW s \in todo, QueueSource(s) PROVE BatchInOrder'
  BY <1>6 DEF QueueSource
<1>7. CASE \/ LoadVertex \/ LoadDone \/ QueueDone \/ AllocBlock \/ MoveAdjacencyLists
           \/ FreeBlock \/ AppendBatchEdges \/ OverwriteFault \/ EraseDone \/ Sort
  BY <1>7 DEF LoadVertex, LoadDone, QueueDone, AllocBlock, MoveAdjacencyLists,
              FreeBlock, AppendBatchEdges, OverwriteFault, EraseDone, Sort, Return
<1>8. CASE UNCHANGED vars
  BY <1>8 DEF vars
<1> QED BY <1>1, <1>2, <1>3, <1>4, <1>5, <1>6, <1>7, <1>8 DEF Next, InsertStep, EraseStep

\* An edge of the batch that is no hole lies in the cells behind the cutoff,
\* in the place of one edge of the batch with the same source.
Target(j) == First(batch, batch[j][1]) + locs[j] - Cutoff(j)

LEMMA Targets ==
    ASSUME TypeOK, QueueConsistent, BatchInOrder, pc = "overwrite", Len(locs) = Len(batch)
    PROVE  /\ \A j \in DOMAIN batch \ Holes :
                 Target(j) \in DOMAIN batch /\ batch[Target(j)][1] = batch[j][1]
           /\ \A i, j \in DOMAIN batch \ Holes : Target(i) = Target(j) => i = j
<1>1. /\ batch \in Seq(Edges) /\ InOrder(batch) /\ locs \in Seq(Nat)
      /\ DOMAIN locs = DOMAIN batch
  BY DEF TypeOK, BatchInOrder
<1>2. ASSUME NEW j \in DOMAIN batch
      PROVE  /\ batch[j][1] \in Sources(batch) /\ batch[j][1] \in Vertices
             /\ locs[j] \in Nat
             /\ vertex[batch[j][1]].degree \in Nat
             /\ locs[j] < vertex[batch[j][1]].degree
  <2>1. batch[j] \in Edges /\ locs[j] \in Nat
    BY <1>1
  <2>2. batch[j][1] \in Vertices
    BY <2>1 DEF Edges
  <2>3. vertex[batch[j][1]].degree \in 0 .. MaxDegree
    BY <2>2 DEF TypeOK, VertexData
  <2> QED BY <2>1, <2>2, <2>3 DEF QueueConsistent, Sources
<1>3. ASSUME NEW s \in Sources(batch)
      PROVE  /\ First(batch, s) \in Nat /\ Requested(batch, s) \in Nat
             /\ At(batch, s) = First(batch, s) .. First(batch, s) + Requested(batch, s) - 1
  BY <1>1, Segment
<1>4. ASSUME NEW j \in DOMAIN batch \ Holes PROVE Target(j) \in At(batch, batch[j][1])
  <2> DEFINE s == batch[j][1]
  <2>1. ~(locs[j] < vertex[s].degree - Requested(batch, s))
    BY DEF Holes, Cutoff
  <2>2. s \in Sources(batch) /\ locs[j] \in Nat /\ vertex[s].degree \in Nat
        /\ locs[j] < vertex[s].degree
    BY <1>2
  <2>3. Target(j) = First(batch, s) + locs[j] - (vertex[s].degree - Requested(batch, s))
    BY DEF Target, Cutoff
  <2> HIDE DEF s
  <2>4. Target(j) \in First(batch, s) .. First(batch, s) + Requested(batch, s) - 1
    BY <1>3, <2>1, <2>2, <2>3
  <2> QED BY <1>3, <2>2, <2>4 DEF s
<1>5. ASSUME NEW i \in DOMAIN batch \ Holes, NEW j \in DOMAIN batch \ Holes,
             Target(i) = Target(j), i # j
      PROVE  FALSE
  <2>1. batch[i][1] = batch[j][1]
    BY <1>4, <1>5 DEF At
  <2>2. locs[i] # locs[j]
    BY <1>5, <2>1 DEF QueueConsistent
  <2> DEFINE s == batch[j][1]
  <2>3. /\ locs[i] \in Nat /\ locs[j] \in Nat /\ vertex[s].degree \in Nat
        /\ First(batch, s) \in Nat /\ Requested(batch, s) \in Nat
    BY <1>2, <1>3
  <2>4. /\ Target(i) = First(batch, s) + locs[i] - (vertex[s].degree - Requested(batch, s))
        /\ Target(j) = First(batch, s) + locs[j] - (vertex[s].degree - Requested(batch, s))
    BY <2>1 DEF Target, Cutoff
  <2> DEFINE a == First(batch, s)
             c == vertex[s].degree - Requested(batch, s)
  <2>5. a \in Int /\ c \in Int
    BY <2>3
  <2>6. a + locs[i] - c = a + locs[j] - c
    BY <2>4, <1>5
  <2> HIDE DEF a, c
  <2> QED BY <2>2, <2>3, <2>5, <2>6
<1> QED BY <1>4, <1>5 DEF At

\* Up to the ends of the edges of a source, and in all, there are as many holes
\* as survivors.
LEMMA HolesAndSurvivors ==
    ASSUME TypeOK, QueueConsistent, BatchInOrder, pc = "overwrite", Len(locs) = Len(batch)
    PROVE  /\ Cardinality(Holes) = Cardinality(Survivors)
           /\ \A s \in Sources(batch) :
                 \A e \in {First(batch, s) - 1,
                           First(batch, s) + Requested(batch, s) - 1} :
                    UpTo(Holes, e) = UpTo(Survivors, e)
<1> DEFINE D == DOMAIN batch
           N == D \ Holes
           t == [j \in N |-> Target(j)]
           n == Len(batch)
<1>1. /\ batch \in Seq(Edges) /\ InOrder(batch) /\ n \in Nat /\ D = 1 .. n
      /\ \A i \in D : i \in Nat /\ batch[i][1] \in Int
  <2>1. batch \in Seq(Edges) /\ InOrder(batch)
    BY DEF TypeOK, BatchInOrder
  <2>2. n \in Nat /\ D = 1 .. n /\ \A i \in D : batch[i] \in Edges
    BY <2>1
  <2> QED BY <2>1, <2>2, HornetAssumption DEF Edges, Vertices
<1>2. /\ N \in SUBSET (1 .. n) /\ t \in [N -> 1 .. n]
      /\ \A i, j \in N : t[i] = t[j] => i = j
      /\ \A i \in N : t[i] \in D /\ batch[t[i]][1] = batch[i][1]
  BY <1>1, Targets
<1>3. /\ Holes = D \ N
      /\ Survivors = {i \in D : \A j \in N : i # t[j]}
  BY DEF Holes, Survivors, Target
<1> HIDE DEF t, N, D, n
<1>4. ASSUME NEW e \in Nat, \A i \in N : i <= e <=> t[i] <= e
      PROVE  UpTo(Holes, e) = UpTo(Survivors, e)
  <2>1. /\ Holes = (1 .. n) \ N /\ Survivors \in SUBSET (1 .. n)
        /\ \A i \in 1 .. n : i \in Survivors <=> \A j \in N : i # t[j]
    BY <1>1, <1>3
  <2>2. /\ n \in Nat /\ N \in SUBSET (1 .. n) /\ t \in [N -> 1 .. n]
        /\ \A i, j \in N : t[i] = t[j] => i = j
    BY <1>1, <1>2
  <2>3. e \in Nat /\ \A i \in N : i <= e <=> t[i] <= e
    BY <1>4
  <2> QED BY ONLY <2>1, <2>2, <2>3, PrefixCounts
<1>5. Cardinality(Holes) = Cardinality(Survivors)
  <2>1. \A i \in D : i <= n
    BY <1>1
  <2>2. {i \in Holes : i <= n} = Holes /\ {i \in Survivors : i <= n} = Survivors
    BY <2>1, <1>3
  <2>3. \A i \in N : i <= n <=> t[i] <= n
    BY <2>1, <1>1, <1>2
  <2>4. UpTo(Holes, n) = UpTo(Survivors, n)
    BY <2>3, <1>1, <1>4
  <2> QED BY <2>2, <2>4 DEF UpTo
<1>6. ASSUME NEW s \in Sources(batch),
             NEW e \in {First(batch, s) - 1, First(batch, s) + Requested(batch, s) - 1}
      PROVE  e \in Nat /\ \A i \in N : i <= e <=> t[i] <= e
  <2> DEFINE f == First(batch, s)
             l == f + Requested(batch, s) - 1
  <2>1. /\ f \in D /\ f \in Nat \ {0} /\ l \in Nat /\ f <= l
        /\ At(batch, s) = f .. l
    <3>1. f \in D /\ Requested(batch, s) \in Nat \ {0} /\ At(batch, s) = f .. l
      BY <1>1, Segment DEF D
    <3>2. f \in Nat \ {0}
      BY <1>1, <3>1
    <3> HIDE DEF f
    <3> QED BY <3>1, <3>2
  <2>2. e \in Nat /\ (e = f - 1 \/ e = l)
    BY <2>1
  <2> HIDE DEF f, l
  <2>3. ASSUME NEW i \in D, NEW j \in D, batch[i][1] = batch[j][1], i <= e PROVE j <= e
    <3>1. i \in Nat /\ j \in Nat
      BY <1>1
    <3>2. CASE batch[j][1] = s
      <4>1. i \in f .. l /\ j \in f .. l
        BY <3>2, <2>1, <2>3 DEF At, D
      <4> QED BY <4>1, <3>1, <2>1, <2>2, <2>3
    <3>3. CASE batch[j][1] # s
      <4>1. i \notin f .. l /\ j \notin f .. l
        BY <3>3, <2>1, <2>3 DEF At, D
      <4>2. i < f
        BY <4>1, <3>1, <2>1, <2>2, <2>3
      <4>3. batch[f][1] = s
        BY <2>1 DEF At
      <4>4. ~(f <= j)
        <5>1. f <= j => batch[i][1] <= batch[f][1] /\ batch[f][1] <= batch[j][1]
          BY <1>1, <2>1, <3>1, <4>2 DEF InOrder, D
        <5>2. batch[i][1] \in Int /\ batch[j][1] \in Int /\ batch[f][1] \in Int
          BY <1>1, <2>1
        <5> QED BY <5>1, <5>2, <4>3, <3>3, <2>3
      <4> QED BY <4>4, <3>1, <2>1, <2>2
    <3> QED BY <3>2, <3>3
  <2>4. ASSUME NEW i \in N PROVE i <= e <=> t[i] <= e
    <3>1. i \in D /\ t[i] \in D /\ batch[t[i]][1] = batch[i][1]
      BY <1>1, <1>2
    <3> QED BY <3>1, <2>3
  <2> QED BY <2>2, <2>4
<1> QED BY <1>4, <1>5, <1>6

\* The plan is sound: the k-th hole and the k-th survivor fall between the same
\* ends, those of the edges of one source.
LEMMA PlanFollows ==
    ASSUME TypeOK, QueueConsistent, BatchInOrder
    PROVE  OverwritePlanSound
<1> SUFFICES ASSUME pc = "overwrite", Len(locs) = Len(batch)
             PROVE  /\ Cardinality(Holes) = Cardinality(Survivors)
                    /\ \A k \in 1 .. Cardinality(Holes) :
                          LET i == Nth(Holes, k)
                              j == Nth(Survivors, k)
                          IN  /\ batch[i][1] = batch[j][1]
                              /\ SourceOffset(j) \notin {locs[m] : m \in At(batch, batch[i][1])}
                              /\ \A m \in Holes : batch[m][1] = batch[i][1] =>
                                     locs[m] # SourceOffset(j)
  BY DEF OverwritePlanSound
<1>1. /\ batch \in Seq(Edges) /\ InOrder(batch)
      /\ Holes \in SUBSET DOMAIN batch /\ Survivors \in SUBSET DOMAIN batch
  BY DEF TypeOK, BatchInOrder, Holes, Survivors
<1>2. /\ Holes \in SUBSET Nat /\ IsFiniteSet(Holes)
      /\ Survivors \in SUBSET Nat /\ IsFiniteSet(Survivors)
  BY <1>1, Positions
<1>3. Cardinality(Holes) = Cardinality(Survivors)
  BY HolesAndSurvivors
<1> SUFFICES ASSUME NEW k \in 1 .. Cardinality(Holes)
             PROVE  LET i == Nth(Holes, k)
                        j == Nth(Survivors, k)
                    IN  /\ batch[i][1] = batch[j][1]
                        /\ SourceOffset(j) \notin {locs[m] : m \in At(batch, batch[i][1])}
                        /\ \A m \in Holes : batch[m][1] = batch[i][1] =>
                               locs[m] # SourceOffset(j)
  BY <1>3
<1> DEFINE i == Nth(Holes, k)
           j == Nth(Survivors, k)
           s == batch[i][1]
           f == First(batch, s)
           l == f + Requested(batch, s) - 1
<1>4. i \in Holes /\ j \in Survivors
  BY <1>2, <1>3, NthOf
<1>5. /\ s \in Sources(batch) /\ s \in Vertices
      /\ f \in Nat \ {0} /\ l \in Nat /\ Requested(batch, s) \in Nat
      /\ At(batch, s) = f .. l
  <2>1. i \in DOMAIN batch /\ batch[i] \in Edges
    BY <1>1, <1>4
  <2>2. s \in Sources(batch) /\ s \in Vertices
    BY <2>1 DEF Sources, Edges
  <2> HIDE DEF i, s
  <2>3. f \in DOMAIN batch /\ Requested(batch, s) \in Nat \ {0} /\ At(batch, s) = f .. l
    BY <1>1, <2>2, Segment
  <2>4. f \in Nat \ {0}
    BY <1>1, <2>3
  <2> HIDE DEF f
  <2> QED BY <2>2, <2>3, <2>4
<1>6. i \in f .. l
  <2>1. i \in At(batch, s)
    BY <1>1, <1>4 DEF At
  <2> QED BY <2>1, <1>5
<1> HIDE DEF i, f, l
<1>7. f - 1 < j /\ j <= l
  <2>0. /\ f - 1 \in Nat /\ l \in Nat
        /\ f - 1 < Nth(Holes, k) /\ Nth(Holes, k) <= l
    BY <1>5, <1>6 DEF i
  <2>1. UpTo(Holes, f - 1) < k /\ k <= UpTo(Holes, l)
    BY <2>0, <1>2, NthCounts
  <2>2. UpTo(Holes, f - 1) = UpTo(Survivors, f - 1) /\ UpTo(Holes, l) = UpTo(Survivors, l)
    BY <1>5, HolesAndSurvivors DEF f, l
  <2>3. k \in 1 .. Cardinality(Survivors)
    BY <1>3
  <2>4. UpTo(Survivors, f - 1) < k /\ k <= UpTo(Survivors, l)
    BY <2>1, <2>2
  <2> QED BY <2>0, <2>3, <2>4, <1>2, NthBetween
<1>8. j \in At(batch, s) /\ batch[j][1] = s
  <2>1. j \in Nat
    BY <1>2, <1>4
  <2> HIDE DEF j
  <2>2. j \in f .. l
    BY <2>1, <1>5, <1>7
  <2> QED BY <2>2, <1>5 DEF At
<1>9. ASSUME NEW m \in At(batch, s) PROVE locs[m] # SourceOffset(j)
  <2> DEFINE c == vertex[s].degree - Requested(batch, s)
  <2>1. m \in DOMAIN batch /\ batch[m][1] = s
    BY DEF At
  <2>2. locs[m] \in Nat /\ c \in Int /\ j \in f .. l
    <3>1. locs[m] \in Nat
      BY <2>1 DEF TypeOK
    <3>2. vertex[s].degree \in 0 .. MaxDegree
      BY <1>5 DEF TypeOK, VertexData
    <3> QED BY <3>1, <3>2, <1>5, <1>8
  <2>3. SourceOffset(j) = c + j - f
    BY <1>8 DEF SourceOffset, Cutoff, f
  <2>4. CASE m \in Holes
    <3>1. locs[m] < c
      BY <2>1, <2>4 DEF Holes, Cutoff
    <3> HIDE DEF c, j
    <3> QED BY <3>1, <2>2, <2>3, <1>5
  <2>5. CASE m \notin Holes
    <3>1. j # f + locs[m] - c
      BY <2>1, <2>5, <1>4 DEF Survivors, Cutoff, f
    <3> HIDE DEF c, j
    <3> QED BY <3>1, <2>2, <2>3, <1>5
  <2> QED BY <2>4, <2>5
<1>10. ASSUME NEW m \in Holes, batch[m][1] = s PROVE m \in At(batch, s)
  BY <1>1, <1>10 DEF At
<1> QED BY <1>8, <1>9, <1>10 DEF i

----------------------------------------------------------------------------
(* The theorems.                                                           *)

LEMMA InductiveInvariant == Spec => []IInv
<1>1. Init => IInv
  BY InitType, InitQueue, InitOwnership DEF IInv
<1>2. IInv /\ [Next]_vars => IInv'
  <2> SUFFICES ASSUME IInv, [Next]_vars PROVE IInv'
    OBVIOUS
  <2>1. TypeOK'
    BY TypeStep DEF IInv
  <2>2. QueueConsistent'
    BY <2>1, QueueStep DEF IInv
  <2>3. BlockOwnership'
    BY <2>1, <2>2, OwnershipStep DEF IInv
  <2> QED BY <2>1, <2>2, <2>3 DEF IInv
<1> QED BY <1>1, <1>2, PTL DEF Spec

\* No call and no interleaving of the threads of its kernels takes a degree,
\* a vertex record, a queue entry or a block array out of its type: degrees
\* stay between 0 and the largest size a block array exists for.
THEOREM TypesHold == Spec => []TypeOK
<1>1. IInv => TypeOK
  BY DEF IInv
<1> QED BY <1>1, InductiveInvariant, PTL

\* Between the queue kernel and the end of a reallocation the copies of the
\* vertex data in the queue stay current, no vertex is queued twice, and no
\* two slots of an erase name the same edge.
THEOREM QueueHolds == Spec => []QueueConsistent
<1>1. IInv => QueueConsistent
  BY DEF IInv
<1> QED BY <1>1, InductiveInvariant, PTL

\* insert, erase and sort never let two adjacency lists share a block, never
\* use a block that the manager thinks free or of another size, and never
\* lose one.
THEOREM OwnershipHolds == Spec => []BlockOwnership
<1>1. IInv => BlockOwnership
  BY DEF IInv
<1> QED BY <1>1, InductiveInvariant, PTL

\* overwriteDeletedEdges fills every hole of a list with an edge of the same list
\* that is not to be erased, and no cell that one of its threads writes is one that
\* a thread reads: the order of the threads does not matter.
THEOREM OverwritesAreSound == Spec => []OverwritePlanSound
<1>1. Init => BatchInOrder
  BY DEF Init, BatchInOrder
<1>2. IInv /\ BatchInOrder /\ [Next]_vars => BatchInOrder'
  BY InOrderStep DEF IInv
<1>3. IInv /\ BatchInOrder => OverwritePlanSound
  BY PlanFollows DEF IInv
<1> QED BY <1>1, <1>2, <1>3, InductiveInvariant, PTL DEF Spec

-----------------------------------------------------------------------------
(* Where blocks are: the offsets that an array hands out are multiples of  *)
(* its block size.                                                         *)

\* A larger block size is a multiple of a smaller one.
LEMMA SizesDivide ==
    ASSUME NEW p \in Sizes, NEW q \in Sizes, p <= q
    PROVE  \E k \in Nat : q = p * k
<1> DEFINE Bad == {s \in Sizes : p <= s /\ \A k \in Nat : s # p * k}
<1>1. Bad \in SUBSET Nat /\ p \in Nat \ {0} /\ q \in Nat
  BY SizesAssumption
<1>2. SUFFICES ASSUME Bad # {} PROVE FALSE
  OBVIOUS
<1>3. PICK s \in Bad : \A t \in Bad : s <= t
  <2> HIDE DEF Bad
  <2> QED BY <1>1, <1>2, LeastElement
<1>4. s \in Sizes /\ p <= s /\ s \in Nat \ {0} /\ \A k \in Nat : s # p * k
  BY <1>1, SizesAssumption
<1>5. s # p
  BY <1>1, <1>4
<1>6. 2 * p <= s
  BY <1>1, <1>4, <1>5, SizesAssumption
<1>7. s # 1
  BY <1>1, <1>6
<1>8. PICK t \in Sizes : s = 2 * t
  BY <1>4, <1>7, SizesAssumption
<1>9. t \in Nat \ {0} /\ p <= t /\ t < s
  BY <1>1, <1>6, <1>8, SizesAssumption
<1>10. t \notin Bad
  BY <1>3, <1>9, <1>4
<1>11. PICK k \in Nat : t = p * k
  BY <1>8, <1>9, <1>10
<1>12. s = p * (2 * k) /\ 2 * k \in Nat
  BY <1>1, <1>8, <1>11
<1> QED BY <1>4, <1>12

\* An offset without a remainder is a multiple.
LEMMA MultipleOf ==
    ASSUME NEW s \in Nat, s > 0, NEW o \in Nat, o % s = 0
    PROVE  \E k \in Nat : o = s * k
  OBVIOUS

\* Multiples of s that differ are at least s apart.
LEMMA MultiplesApart ==
    ASSUME NEW s \in Nat, NEW j \in Nat, NEW k \in Nat, s * j < s * k
    PROVE  s * j + s <= s * k
<1>1. j < k
  <2>1. SUFFICES ASSUME k <= j PROVE FALSE
    OBVIOUS
  <2>2. PICK m \in Nat : j = k + m
    <3>1. j - k \in Nat /\ j = k + (j - k)
      BY <2>1
    <3> QED BY <3>1
  <2>3. s * j = s * k + s * m /\ s * m \in Nat /\ s * k \in Nat
    BY <2>2
  <2> QED BY <2>3
<1>2. PICK m \in Nat : k = j + 1 + m
  <2>1. k - j - 1 \in Nat /\ k = j + 1 + (k - j - 1)
    BY <1>1
  <2> QED BY <2>1
<1>3. s * k = s * j + s + s * m /\ s * m \in Nat /\ s * j \in Nat
  BY <1>2
<1> QED BY <1>3

\* The degrees that fit in no block are larger than MaxDegree.
LEMMA RoundupBound ==
    ASSUME NEW d \in Degrees
    PROVE  RoundupPow2(d) <= MaxDegree
<1>1. RoundupPow2(d) \in Sizes /\ RoundupPow2(d) < 2 * d /\ d <= MaxDegree /\ d \in Nat
  BY RoundupType, HornetAssumption, SizesAssumption DEF Degrees
<1>2. MaxDegree \in Sizes /\ MaxDegree \in Nat /\ RoundupPow2(d) \in Nat
  BY <1>1, HornetAssumption, SizesAssumption
<1>3. MaxDegree < RoundupPow2(d) => 2 * MaxDegree <= RoundupPow2(d)
  BY <1>1, <1>2, SizesAssumption
<1> QED BY <1>1, <1>2, <1>3

\* An offset of blocks of size s is a multiple of s, and the capacity is.
LEMMA OffsetsMultiples ==
    ASSUME NEW s \in Sizes
    PROVE  /\ \E k \in Nat : Capacity(s) = s * k
           /\ \A o \in Offsets(s) : o \in Nat /\ o < Capacity(s) /\ \E k \in Nat : o = s * k
<1>1. s \in Nat \ {0} /\ MaxEdgesPerBlockArray \in Sizes /\ MaxEdgesPerBlockArray \in Nat
  BY SizesAssumption, ArrayAssumption
<1>2. \E k \in Nat : Capacity(s) = s * k
  <2>1. CASE s <= MaxEdgesPerBlockArray
    BY <2>1, <1>1, SizesDivide DEF Capacity
  <2>2. CASE ~(s <= MaxEdgesPerBlockArray)
    BY <2>2, <1>1, s = s * 1 DEF Capacity
  <2> QED BY <2>1, <2>2
<1>3. ASSUME NEW o \in Offsets(s)
      PROVE  o \in Nat /\ o < Capacity(s) /\ \E k \in Nat : o = s * k
  <2>1. Capacity(s) \in Nat
    BY OffsetsType
  <2>2. o \in Nat /\ o < Capacity(s) /\ o % s = 0
    BY <2>1 DEF Offsets
  <2>3. s \in Nat /\ s > 0
    BY <1>1
  <2>4. \E k \in Nat : o = s * k
    BY ONLY <2>2, <2>3, MultipleOf
  <2> QED BY <2>2, <2>4
<1> QED BY <1>2, <1>3

\* A block is inside its array, and apart from the other blocks of the array.
LEMMA BlocksApart ==
    ASSUME NEW s \in Sizes, NEW o \in Offsets(s)
    PROVE  /\ o + s <= Capacity(s)
           /\ \A q \in Offsets(s) : o < q => o + s <= q
<1>1. s \in Nat /\ Capacity(s) \in Nat
  BY SizesAssumption, OffsetsType
<1>2. PICK k \in Nat : o = s * k
  BY OffsetsMultiples
<1>3. o + s <= Capacity(s)
  <2>1. PICK m \in Nat : Capacity(s) = s * m
    BY OffsetsMultiples
  <2>2. s * k < s * m
    BY <1>2, <2>1, OffsetsMultiples
  <2>3. s * k + s <= s * m
    BY <1>1, <2>2, MultiplesApart
  <2> QED BY <1>2, <2>1, <2>3
<1>4. ASSUME NEW q \in Offsets(s), o < q PROVE o + s <= q
  <2>1. PICK m \in Nat : q = s * m
    BY OffsetsMultiples
  <2>2. s * k < s * m
    BY <1>2, <1>4, <2>1
  <2>3. s * k + s <= s * m
    BY <1>1, <2>2, MultiplesApart
  <2> QED BY <1>2, <2>1, <2>3
<1> QED BY <1>3, <1>4

\* The cells of an array of small blocks are cells that the model has.
LEMMA CapacityBound ==
    ASSUME NEW s \in Sizes, s <= MaxDegree
    PROVE  Capacity(s) <= Capacity(MaxDegree)
  BY SizesAssumption, HornetAssumption, ArrayAssumption DEF Capacity

-----------------------------------------------------------------------------
(* The blocks of two claims share no cell.                                 *)

\* A queue entry has a source and two pieces of vertex data.
LEMMA QueueEntries ==
    ASSUME TypeOK
    PROVE  /\ queue \in Seq(Entries) /\ Len(queue) \in Nat /\ DOMAIN queue = 1 .. Len(queue)
           /\ \A k \in DOMAIN queue : /\ queue[k] \in Entries
                                      /\ queue[k].src \in Vertices
                                      /\ queue[k].old \in VertexData
                                      /\ queue[k].new \in VertexData
<1>1. queue \in Seq(Entries)
  BY DEF TypeOK, Entries
<1>2. \A k \in DOMAIN queue : queue[k] \in Entries
  BY <1>1
<1> QED BY <1>1, <1>2 DEF Entries

\* The blocks in use are blocks of their array.
Placed == \A p \in DOMAIN arrays : arrays[p].used \subseteq Offsets(arrays[p].size)

\* A block that the manager hands out is at a multiple of its size.
LEMMA InsertPlaced ==
    ASSUME ArraysOK, Placed, NEW d \in 0 .. MaxDegree, NEW p, NEW o, BlockInsert(d, p, o)
    PROVE  Placed'
<1>1. CASE d = 0
  BY <1>1, BlockInsertEffect DEF Placed
<1>2. CASE d # 0
  <2>1. BlockInserted(d, p, o)
    BY <1>2, BlockInsertEffect
  <2>2. ASSUME NEW q \in DOMAIN arrays', NEW x \in arrays'[q].used
        PROVE  x \in Offsets(arrays'[q].size)
    <3>1. CASE q \in DOMAIN arrays /\ x \in arrays[q].used
      BY <2>1, <3>1 DEF BlockInserted, Placed
    <3>2. CASE q = p /\ x = o
      BY <2>1, <3>2 DEF BlockInserted
    <3> QED BY <2>1, <2>2, <3>1, <3>2 DEF BlockInserted
  <2> QED BY <2>2 DEF Placed
<1> QED BY <1>1, <1>2

\* No step leaves a block in use anywhere else.
LEMMA PlacedStep ==
    ASSUME TypeOK, QueueConsistent, Placed, [Next]_vars
    PROVE  Placed'
<1>1. ArraysOK /\ MaxDegree \in Nat
  BY HornetAssumption, SizesAssumption DEF TypeOK, ArraysOK
<1>2. CASE LoadVertex
  <2>1. PICK p \in Ptr \cup {NullPtr}, o \in Cells : BlockInsert(Len(call.graph[next]), p, o)
    BY <1>2 DEF LoadVertex
  <2>2. Len(call.graph[next]) \in 0 .. MaxDegree
    <3>1. call.graph \in Graphs /\ next \in Vertices
      BY <1>2 DEF LoadVertex, QueueConsistent
    <3>2. call.graph[next] \in Seq(Vertices) /\ Len(call.graph[next]) <= MaxDegree
      BY <3>1, HornetAssumption
    <3> QED BY <3>2, <1>1
  <2> QED BY <1>1, <2>1, <2>2, InsertPlaced
<1>3. CASE AllocBlock
  <2>1. PICK p \in Ptr \cup {NullPtr}, o \in Cells : BlockInsert(queue[next].new.degree, p, o)
    BY <1>3 DEF AllocBlock
  <2>2. queue[next].new.degree \in 0 .. MaxDegree
    <3>1. next \in DOMAIN queue
      BY <1>3 DEF AllocBlock, QueueConsistent, TypeOK
    <3> QED BY <3>1, QueueEntries DEF VertexData
  <2> QED BY <1>1, <2>1, <2>2, InsertPlaced
<1>4. CASE FreeBlock
  <2>1. CASE queue[next].old.degree # 0
    <3>1. BlockRemove(queue[next].old.degree, queue[next].old.ptr, queue[next].old.offset)
      BY <1>4, <2>1 DEF FreeBlock
    <3> QED BY <3>1, <1>1, BlockRemoveEffect DEF Placed
  <2>2. CASE ~(queue[next].old.degree # 0)
    BY <1>4, <2>2 DEF FreeBlock, Placed
  <2> QED BY <2>1, <2>2
<1>5. CASE arrays' = arrays
  BY <1>5 DEF Placed
<1>6. ASSUME NEW b \in Batches, NEW f, NEW g, Insert(b, f, g) PROVE Placed'
  BY <1>5, <1>6 DEF Insert
<1>7. ASSUME NEW b \in Batches, Erase(b) PROVE Placed'
  BY <1>5, <1>7 DEF Erase
<1>8. ASSUME NEW s \in todo, QueueSource(s) PROVE Placed'
  BY <1>5, <1>8 DEF QueueSource
<1>9. CASE OverwriteDeletedEdges
  BY <1>5, <1>9 DEF OverwriteDeletedEdges
<1>10. CASE \/ LoadDone \/ QueueDone \/ MoveAdjacencyLists \/ AppendBatchEdges \/ Locate
            \/ LocateNothing \/ OverwriteFault \/ EraseDone \/ Sort
  BY <1>5, <1>10 DEF LoadDone, QueueDone, MoveAdjacencyLists, AppendBatchEdges, Locate,
                     LocateNothing, OverwriteFault, EraseDone, Sort
<1>11. CASE UNCHANGED vars
  BY <1>5, <1>11 DEF vars
<1> QED BY <1>2, <1>3, <1>4, <1>6, <1>7, <1>8, <1>9, <1>10, <1>11 DEF Next, InsertStep, EraseStep

\* The cells of the block of vertex data x.
Area(x) == x.offset .. x.offset + RoundupPow2(x.degree) - 1

\* The block of a claim lies inside the memory, and no two of them share a
\* cell.
Apart == /\ \A c \in Claims : /\ Claimed(c).ptr \in Ptr
                              /\ Claimed(c).offset \in Nat
                              /\ Claimed(c).degree \in Degrees
                              /\ Area(Claimed(c)) \subseteq Cells
         /\ \A c, d \in Claims :
               c # d /\ Claimed(c).ptr = Claimed(d).ptr =>
                   Area(Claimed(c)) \cap Area(Claimed(d)) = {}

\* A claim names vertex data.
LEMMA ClaimTypes ==
    ASSUME TypeOK, NEW c \in Claims
    PROVE  Claimed(c) \in VertexData /\ Claimed(c).degree # 0
<1>2. CASE \E v \in Vertices : c = <<"vertex", v>>
  BY <1>2, ClaimCases DEF TypeOK
<1>3. CASE \E k \in DOMAIN queue : c = <<"new", k>>
  <2>1. PICK k \in DOMAIN queue : c = <<"new", k>>
    BY <1>3
  <2>2. Claimed(c) = queue[k].new /\ queue[k].new.degree # 0
    BY <2>1, ClaimCases
  <2> QED BY <2>2, QueueEntries
<1>4. CASE \E k \in DOMAIN queue : c = <<"old", k>>
  <2>1. PICK k \in DOMAIN queue : c = <<"old", k>>
    BY <1>4
  <2>2. Claimed(c) = queue[k].old /\ queue[k].old.degree # 0
    BY <2>1, ClaimCases
  <2> QED BY <2>2, QueueEntries
<1> QED BY <1>2, <1>3, <1>4, ClaimCases

\* Blocks that differ and are well placed have no cell in common.
LEMMA ApartHolds == TypeOK /\ BlockOwnership /\ Placed => Apart
<1> SUFFICES ASSUME TypeOK, BlockOwnership, Placed PROVE Apart
  OBVIOUS
<1>1. ASSUME NEW c \in Claims
      PROVE  /\ Claimed(c).ptr \in Ptr /\ Claimed(c).offset \in Nat
             /\ Claimed(c).degree \in Degrees
             /\ arrays[Claimed(c).ptr].size = RoundupPow2(Claimed(c).degree)
             /\ RoundupPow2(Claimed(c).degree) \in Sizes
             /\ Claimed(c).offset \in Offsets(RoundupPow2(Claimed(c).degree))
  <2>1. Claimed(c).ptr \in DOMAIN arrays /\ DOMAIN arrays \subseteq Ptr
    BY DEF BlockOwnership, TypeOK
  <2>2. Claimed(c).degree \in Degrees /\ Claimed(c).offset \in Nat
    BY ClaimTypes, HornetAssumption, SizesAssumption DEF VertexData, Degrees
  <2>3. RoundupPow2(Claimed(c).degree) \in Sizes
    BY <2>2, RoundupType
  <2>4. /\ Claimed(c).offset \in arrays[Claimed(c).ptr].used
        /\ arrays[Claimed(c).ptr].size = RoundupPow2(Claimed(c).degree)
    BY DEF BlockOwnership
  <2> QED BY <2>1, <2>2, <2>3, <2>4 DEF Placed
<1>2. ASSUME NEW c \in Claims PROVE Area(Claimed(c)) \subseteq Cells
  <2> DEFINE s == RoundupPow2(Claimed(c).degree)
             o == Claimed(c).offset
  <2>1. s \in Sizes /\ s \in Nat /\ o \in Offsets(s) /\ o \in Nat /\ s <= MaxDegree
    BY <1>1, RoundupBound, SizesAssumption
  <2> HIDE DEF s
  <2>2. o + s <= Capacity(s) /\ Capacity(s) <= Capacity(MaxDegree)
    BY <2>1, BlocksApart, CapacityBound
  <2>3. Capacity(s) \in Nat /\ Capacity(MaxDegree) \in Nat
    BY <2>1, OffsetsType, HornetAssumption
  <2>4. o .. o + s - 1 \subseteq Cells
    BY <2>1, <2>2, <2>3 DEF Cells
  <2> QED BY <2>4 DEF s, Area
<1>3. ASSUME NEW c \in Claims, NEW d \in Claims, c # d, Claimed(c).ptr = Claimed(d).ptr
      PROVE  Area(Claimed(c)) \cap Area(Claimed(d)) = {}
  <2> DEFINE s == RoundupPow2(Claimed(c).degree)
             o == Claimed(c).offset
             q == Claimed(d).offset
  <2>1. RoundupPow2(Claimed(d).degree) = s
    BY <1>1, <1>3
  <2>2. o \in Offsets(s) /\ q \in Offsets(s) /\ s \in Sizes /\ o \in Nat /\ q \in Nat /\ s \in Nat
    BY <1>1, <2>1, SizesAssumption
  <2>3. o # q
    BY <1>3 DEF BlockOwnership, Block
  <2> HIDE DEF s, o, q
  <2>4. o < q => o + s <= q
    BY <2>2, BlocksApart
  <2>5. q < o => q + s <= o
    BY <2>2, BlocksApart
  <2>6. (o .. o + s - 1) \cap (q .. q + s - 1) = {}
    BY <2>2, <2>3, <2>4, <2>5
  <2> QED BY <2>1, <2>6 DEF s, o, q, Area
<1> QED BY <1>1, <1>2, <1>3 DEF Apart

-----------------------------------------------------------------------------
(* The cells of the lists.                                                 *)

\* What the proofs of ownership establish.
Base == TypeOK /\ QueueConsistent /\ BlockOwnership /\ BatchInOrder /\ Placed

\* What the proofs of ownership establish, and that blocks are well placed.
LEMMA BaseHolds == Spec => []Base
<1>1. Init => BatchInOrder /\ Placed
  BY DEF Init, BatchInOrder, Placed
<1>2. IInv /\ BatchInOrder /\ Placed /\ [Next]_vars => BatchInOrder' /\ Placed'
  BY InOrderStep, PlacedStep DEF IInv
<1> QED BY <1>1, <1>2, InductiveInvariant, PTL DEF Spec, IInv, Base

\* Where the i-th edge of the list of vertex data x is.
Cell(x, i) == <<x.ptr, x.offset + i - 1>>

\* No cell is a cell of two lists, nor of a list and of a new block of the
\* queue, nor of a list and of an old block of the queue.
CellsApart ==
    /\ \A v \in Vertices : \A i \in 1 .. vertex[v].degree :
          Cell(vertex[v], i) \in Ptr \X Cells
    /\ \A u, v \in Vertices :
          \A i \in 1 .. vertex[u].degree, j \in 1 .. vertex[v].degree :
              Cell(vertex[u], i) = Cell(vertex[v], j) => u = v /\ i = j
    /\ pc = "alloc" => \A k \in DOMAIN queue, i \in Nat \ {0} :
          k < next /\ i <= queue[k].new.degree =>
             /\ Cell(queue[k].new, i) \in Ptr \X Cells
             /\ \A v \in Vertices : \A j \in 1 .. vertex[v].degree :
                   Cell(queue[k].new, i) # Cell(vertex[v], j)
             /\ \A l \in DOMAIN queue, j \in Nat \ {0} :
                   /\ l < next /\ j <= queue[l].new.degree
                   /\ Cell(queue[k].new, i) = Cell(queue[l].new, j)
                   => k = l /\ i = j
    /\ pc = "free" => \A k \in DOMAIN queue, i \in Nat \ {0} :
          k >= next /\ queue[k].old.degree # 0 /\ i <= RoundupPow2(queue[k].old.degree) =>
             \A v \in Vertices : \A j \in 1 .. vertex[v].degree :
                 Cell(queue[k].old, i) # Cell(vertex[v], j)

\* Since no block has two claimants.
LEMMA CellsAreApart == Base => CellsApart
<1> SUFFICES ASSUME Base PROVE CellsApart
  OBVIOUS
<1>1. Apart /\ TypeOK
  BY ApartHolds DEF Base
<1>2. ASSUME NEW c \in Claims, NEW i \in Nat \ {0}, i <= RoundupPow2(Claimed(c).degree)
      PROVE  /\ Cell(Claimed(c), i) \in Ptr \X Cells
             /\ Claimed(c).offset + i - 1 \in Area(Claimed(c))
             /\ Claimed(c).offset \in Nat
  <2>1. Claimed(c).offset \in Nat /\ RoundupPow2(Claimed(c).degree) \in Nat
    BY <1>1, RoundupType, SizesAssumption DEF Apart
  <2>2. Claimed(c).offset + i - 1 \in Area(Claimed(c))
    BY <1>2, <2>1 DEF Area
  <2> QED BY <1>1, <2>1, <2>2 DEF Apart, Cell
<1>3. ASSUME NEW c \in Claims, NEW i \in Nat \ {0}, i <= Claimed(c).degree
      PROVE  i <= RoundupPow2(Claimed(c).degree)
  <2>1. Claimed(c).degree \in Degrees /\ Claimed(c).degree <= RoundupPow2(Claimed(c).degree)
    BY <1>1, RoundupType DEF Apart
  <2>2. Claimed(c).degree \in Nat /\ RoundupPow2(Claimed(c).degree) \in Nat
    <3>1. RoundupPow2(Claimed(c).degree) \in Sizes /\ MaxDegree \in Nat
      BY <2>1, RoundupType, SizesAssumption, HornetAssumption
    <3>2. Claimed(c).degree \in 1 .. MaxDegree
      BY <2>1 DEF Degrees
    <3>3. RoundupPow2(Claimed(c).degree) \in Nat
      BY <3>1, SizesAssumption
    <3> QED BY <3>1, <3>2, <3>3
  <2> QED BY <1>3, <2>1, <2>2
<1>4. ASSUME NEW c \in Claims, NEW i \in Nat \ {0}, i <= RoundupPow2(Claimed(c).degree),
             NEW d \in Claims, NEW j \in Nat \ {0}, j <= RoundupPow2(Claimed(d).degree),
             Cell(Claimed(c), i) = Cell(Claimed(d), j)
      PROVE  c = d /\ i = j
  <2>1. /\ Claimed(c).ptr = Claimed(d).ptr
        /\ Claimed(c).offset + i - 1 = Claimed(d).offset + j - 1
    BY <1>4 DEF Cell
  <2>2. /\ Claimed(c).offset + i - 1 \in Area(Claimed(c))
        /\ Claimed(d).offset + j - 1 \in Area(Claimed(d))
        /\ Claimed(c).offset \in Nat /\ Claimed(d).offset \in Nat
    BY <1>2, <1>4
  <2>3. c = d
    BY <1>1, <2>1, <2>2 DEF Apart
  <2> QED BY <2>1, <2>2, <2>3
<1>5. ASSUME NEW v \in Vertices, NEW i \in 1 .. vertex[v].degree
      PROVE  /\ <<"vertex", v>> \in Claims /\ Claimed(<<"vertex", v>>) = vertex[v]
             /\ i \in Nat \ {0} /\ i <= RoundupPow2(Claimed(<<"vertex", v>>).degree)
  <2>1. vertex[v].degree \in Nat
    BY <1>1, SizesAssumption, HornetAssumption DEF TypeOK, VertexData
  <2>2. vertex[v].degree # 0 /\ i \in Nat \ {0} /\ i <= vertex[v].degree
    BY <2>1
  <2>3. <<"vertex", v>> \in Claims /\ Claimed(<<"vertex", v>>) = vertex[v]
    BY <2>2, ClaimCases
  <2> QED BY <1>3, <2>2, <2>3
<1>6. ASSUME NEW v \in Vertices, NEW i \in 1 .. vertex[v].degree
      PROVE  Cell(vertex[v], i) \in Ptr \X Cells
  BY <1>2, <1>5
<1>7. ASSUME NEW u \in Vertices, NEW v \in Vertices,
             NEW i \in 1 .. vertex[u].degree, NEW j \in 1 .. vertex[v].degree,
             Cell(vertex[u], i) = Cell(vertex[v], j)
      PROVE  u = v /\ i = j
  <2> DEFINE c == <<"vertex", u>>
             d == <<"vertex", v>>
  <2>1. /\ c \in Claims /\ Claimed(c) = vertex[u]
        /\ i \in Nat \ {0} /\ i <= RoundupPow2(Claimed(c).degree)
        /\ d \in Claims /\ Claimed(d) = vertex[v]
        /\ j \in Nat \ {0} /\ j <= RoundupPow2(Claimed(d).degree)
    BY <1>5
  <2>2. Cell(Claimed(c), i) = Cell(Claimed(d), j)
    BY <2>1, <1>7
  <2>4. c = d => u = v
    OBVIOUS
  <2> HIDE DEF c, d
  <2> QED BY <2>1, <2>2, <2>4, <1>4
<1>8. ASSUME pc = "alloc", NEW k \in DOMAIN queue, NEW i \in Nat \ {0},
             k < next, i <= queue[k].new.degree
      PROVE  /\ <<"new", k>> \in Claims /\ Claimed(<<"new", k>>) = queue[k].new
             /\ i <= RoundupPow2(queue[k].new.degree)
  <2>1. queue[k].new.degree \in Nat
    BY <1>1, QueueEntries, SizesAssumption, HornetAssumption DEF VertexData
  <2>2. queue[k].new.degree # 0
    BY <1>8, <2>1
  <2>3. <<"new", k>> \in Claims /\ Claimed(<<"new", k>>) = queue[k].new
    BY <1>8, <2>2, ClaimCases
  <2> QED BY <1>3, <1>8, <2>3
<1>9. ASSUME pc = "alloc", NEW k \in DOMAIN queue, NEW i \in Nat \ {0},
             k < next, i <= queue[k].new.degree
      PROVE  /\ Cell(queue[k].new, i) \in Ptr \X Cells
             /\ \A v \in Vertices : \A j \in 1 .. vertex[v].degree :
                   Cell(queue[k].new, i) # Cell(vertex[v], j)
             /\ \A l \in DOMAIN queue, j \in Nat \ {0} :
                   /\ l < next /\ j <= queue[l].new.degree
                   /\ Cell(queue[k].new, i) = Cell(queue[l].new, j)
                   => k = l /\ i = j
  <2>1. /\ <<"new", k>> \in Claims /\ Claimed(<<"new", k>>) = queue[k].new
        /\ i <= RoundupPow2(queue[k].new.degree)
    BY <1>8, <1>9
  <2>2. Cell(queue[k].new, i) \in Ptr \X Cells
    BY <1>2, <2>1
  <2>3. ASSUME NEW v \in Vertices, NEW j \in 1 .. vertex[v].degree,
               Cell(queue[k].new, i) = Cell(vertex[v], j)
        PROVE  FALSE
    <3> DEFINE c == <<"new", k>>
               d == <<"vertex", v>>
    <3>1. /\ c \in Claims /\ Claimed(c) = queue[k].new
          /\ i <= RoundupPow2(Claimed(c).degree)
          /\ d \in Claims /\ Claimed(d) = vertex[v]
          /\ j \in Nat \ {0} /\ j <= RoundupPow2(Claimed(d).degree)
      BY <1>5, <2>1
    <3>2. Cell(Claimed(c), i) = Cell(Claimed(d), j)
      BY <3>1, <2>3
    <3>3. c # d
      OBVIOUS
    <3> HIDE DEF c, d
    <3> QED BY <3>1, <3>2, <3>3, <1>4
  <2>4. ASSUME NEW l \in DOMAIN queue, NEW j \in Nat \ {0},
               l < next, j <= queue[l].new.degree,
               Cell(queue[k].new, i) = Cell(queue[l].new, j)
        PROVE  k = l /\ i = j
    <3>1. /\ <<"new", l>> \in Claims /\ Claimed(<<"new", l>>) = queue[l].new
          /\ j <= RoundupPow2(queue[l].new.degree)
      BY <1>8, <1>9, <2>4
    <3>2. <<"new", k>> = <<"new", l>> /\ i = j
      BY <1>4, <2>1, <2>4, <3>1
    <3> QED BY <3>2
  <2> QED BY <2>2, <2>3, <2>4
<1>10. ASSUME pc = "free", NEW k \in DOMAIN queue, NEW i \in Nat \ {0},
              k >= next, queue[k].old.degree # 0,
              i <= RoundupPow2(queue[k].old.degree),
              NEW v \in Vertices, NEW j \in 1 .. vertex[v].degree,
              Cell(queue[k].old, i) = Cell(vertex[v], j)
       PROVE  FALSE
  <2> DEFINE c == <<"old", k>>
             d == <<"vertex", v>>
  <2>1. c \in Claims /\ Claimed(c) = queue[k].old
    BY <1>10, ClaimCases
  <2>2. /\ d \in Claims /\ Claimed(d) = vertex[v]
        /\ j \in Nat \ {0} /\ j <= RoundupPow2(Claimed(d).degree)
    BY <1>5
  <2>3. /\ i <= RoundupPow2(Claimed(c).degree)
        /\ Cell(Claimed(c), i) = Cell(Claimed(d), j)
    BY <1>10, <2>1, <2>2
  <2>4. c # d
    OBVIOUS
  <2> HIDE DEF c, d
  <2> QED BY <2>1, <2>2, <2>3, <2>4, <1>4
<1> QED BY <1>6, <1>7, <1>9, <1>10 DEF CellsApart

-----------------------------------------------------------------------------
(* Graphs, and what is equal about two of them.                            *)

\* Adjacency lists of a graph.
IsGraph(l) == /\ l \in [Vertices -> Seq(Vertices)]
              /\ \A v \in Vertices : Len(l[v]) <= MaxDegree

\* How many copies of each edge adjacency lists l have.
CopiesOf(l) == [e \in Edges |-> Times(l[e[1]], e[2])]

\* The copies are numbers.
LEMMA CopiesType ==
    ASSUME NEW l, IsGraph(l)
    PROVE  /\ CopiesOf(l) \in [Edges -> Nat]
           /\ \A e \in Edges : CopiesOf(l)[e] = Times(l[e[1]], e[2])
<1>1. ASSUME NEW e \in Edges PROVE Times(l[e[1]], e[2]) \in Nat
  <2>1. l[e[1]] \in Seq(Vertices)
    BY DEF IsGraph, Edges
  <2> QED BY <2>1, TimesType
<1> QED BY <1>1 DEF CopiesOf

\* The edges that the lists have are the copies of all edges.
LEMMA EdgesAreCopies ==
    ASSUME NEW l, IsGraph(l)
    PROVE  EdgeCount(l) = Cardinality(Filled(Edges, CopiesOf(l)))
<1> DEFINE D   == {x \in Vertices \X (1 .. MaxDegree) : x[2] <= Len(l[x[1]])}
           key == [x \in D |-> <<x[1], l[x[1]][x[2]]>>]
<1>1. nV \in Nat /\ MaxDegree \in Nat
  BY HornetAssumption, SizesAssumption
<1>2. ASSUME NEW v \in Vertices
      PROVE  /\ l[v] \in Seq(Vertices) /\ Len(l[v]) \in Nat /\ Len(l[v]) <= MaxDegree
             /\ DOMAIN l[v] = 1 .. Len(l[v])
             /\ \A i \in DOMAIN l[v] : l[v][i] \in Vertices
  BY DEF IsGraph
<1>3. \A x : x \in D <=> \E v \in Vertices : \E i \in DOMAIN l[v] : x = <<v, i>>
  <2>1. ASSUME NEW x \in D PROVE \E v \in Vertices : \E i \in DOMAIN l[v] : x = <<v, i>>
    <3>1. x = <<x[1], x[2]>> /\ x[1] \in Vertices /\ x[2] \in 1 .. MaxDegree /\ x[2] <= Len(l[x[1]])
      OBVIOUS
    <3>2. x[2] \in DOMAIN l[x[1]]
      BY <3>1, <1>1, <1>2
    <3> QED BY <3>1, <3>2
  <2>2. ASSUME NEW v \in Vertices, NEW i \in DOMAIN l[v] PROVE <<v, i>> \in D
    <3>1. i \in 1 .. MaxDegree /\ i <= Len(l[v])
      BY <1>1, <1>2
    <3> QED BY <3>1
  <2> QED BY <2>1, <2>2
<1>4. IsFiniteSet(D)
  <2>1. IsFiniteSet(0 .. nV - 1) /\ IsFiniteSet(1 .. MaxDegree)
    BY <1>1, FS_Interval
  <2>2. IsFiniteSet(Vertices \X (1 .. MaxDegree))
    BY <2>1, FS_Product DEF Vertices
  <2> QED BY <2>2, FS_Subset
<1>5. ASSUME NEW x \in D PROVE key[x] \in Edges
  <2>1. PICK v \in Vertices : \E i \in DOMAIN l[v] : x = <<v, i>>
    BY <1>3
  <2>2. PICK i \in DOMAIN l[v] : x = <<v, i>>
    BY <2>1
  <2> QED BY <2>2, <1>2 DEF Edges
<1>6. ASSUME NEW e \in Edges PROVE CopiesOf(l)[e] = Cardinality(WithKey(D, key, e))
  <2> DEFINE v == e[1]
             W == WithKey(D, key, e)
             f == [x \in W |-> x[2]]
  <2>1. v \in Vertices /\ e[2] \in Vertices /\ e = <<v, e[2]>>
    BY DEF Edges
  <2>2. ASSUME NEW x \in W
        PROVE  f[x] \in Where(l[v], e[2]) /\ x = <<v, f[x]>>
    <3>1. x \in D /\ key[x] = e
      BY DEF WithKey
    <3>6. PICK u \in Vertices : \E i \in DOMAIN l[u] : x = <<u, i>>
      BY <3>1, <1>3
    <3>2. PICK i \in DOMAIN l[u] : x = <<u, i>>
      BY <3>6
    <3>3. key[x] = <<u, l[u][i]>>
      BY <3>1, <3>2
    <3>4. u = v /\ l[u][i] = e[2]
      BY <3>1, <3>3, <2>1
    <3>5. f[x] = i
      BY <3>2
    <3> QED BY <3>2, <3>4, <3>5 DEF Where
  <2>3. ASSUME NEW i \in Where(l[v], e[2]) PROVE <<v, i>> \in W /\ f[<<v, i>>] = i
    <3>1. i \in DOMAIN l[v] /\ l[v][i] = e[2]
      BY DEF Where
    <3>2. <<v, i>> \in D
      BY <3>1, <2>1, <1>3
    <3>3. key[<<v, i>>] = <<v, l[v][i]>>
      BY <3>2
    <3>4. <<v, i>> \in W
      BY <3>1, <3>2, <3>3, <2>1 DEF WithKey
    <3> QED BY <3>4
  <2>4. f \in [W -> Where(l[v], e[2])]
    BY <2>2
  <2>5. f \in Bijection(W, Where(l[v], e[2]))
    <3> HIDE DEF f, W
    <3>1. \A x, y \in W : f[x] = f[y] => x = y
      BY <2>2
    <3>2. \A i \in Where(l[v], e[2]) : \E x \in W : f[x] = i
      BY <2>3
    <3> QED BY <2>4, <3>1, <3>2 DEF Bijection, Injection, Surjection, IsInjective
  <2>6. IsFiniteSet(Where(l[v], e[2]))
    BY <1>2, <2>1, TimesType
  <2>7. Cardinality(W) = Times(l[v], e[2])
    BY <2>5, <2>6, SameCount DEF Times
  <2> QED BY <2>7, CopiesType
<1>7. key \in [D -> Edges]
  BY <1>5
<1>8. CopiesOf(l) \in [Edges -> Nat]
  BY CopiesType
<1> HIDE DEF key, D
<1>9. Cardinality(Filled(Edges, CopiesOf(l))) = Cardinality(D)
  BY <1>4, <1>6, <1>7, <1>8, BagOfKeys
<1> QED BY <1>9 DEF D, EdgeCount

\* With the edges of a batch, lists have as many edges more as the batch.
LEMMA EdgesGrow ==
    ASSUME NEW l, IsGraph(l), NEW m, IsGraph(m), NEW b \in Seq(Edges),
           \A e \in Edges : Times(m[e[1]], e[2]) = Times(l[e[1]], e[2]) + Times(b, e)
    PROVE  EdgeCount(m) = EdgeCount(l) + Len(b)
<1>1. nV \in Nat
  BY HornetAssumption
<1>2. IsFiniteSet(Edges)
  <2>1. IsFiniteSet(Vertices)
    BY <1>1, FS_Interval DEF Vertices
  <2> QED BY <2>1, FS_Product DEF Edges
<1>3. Len(b) \in Nat /\ b \in [1 .. Len(b) -> Edges]
  OBVIOUS
<1>4. CopiesOf(l) \in [Edges -> Nat] /\ CopiesOf(m) \in [Edges -> Nat]
  BY CopiesType
<1>5. ASSUME NEW e \in Edges
      PROVE  CopiesOf(m)[e] = CopiesOf(l)[e] + Cardinality(WithKey(1 .. Len(b), b, e))
  <2>1. WithKey(1 .. Len(b), b, e) = Where(b, e)
    BY <1>3 DEF WithKey, Where
  <2>2. CopiesOf(m)[e] = Times(m[e[1]], e[2]) /\ CopiesOf(l)[e] = Times(l[e[1]], e[2])
    BY CopiesType
  <2> QED BY <2>1, <2>2 DEF Times
<1>6. Cardinality(Filled(Edges, CopiesOf(m))) = Cardinality(Filled(Edges, CopiesOf(l))) + Len(b)
  BY <1>2, <1>3, <1>4, <1>5, BagGrows
<1> QED BY <1>6, EdgesAreCopies

\* A vertex that is not a source of a batch has no edge in it.
LEMMA NotRequested ==
    ASSUME NEW b \in Seq(Edges), NEW v, v \notin Sources(b)
    PROVE  Requested(b, v) = 0 /\ At(b, v) = {}
<1>1. At(b, v) = {}
  BY DEF At, Sources
<1> QED BY <1>1, FS_EmptySet DEF Requested

\* A batch with no more of any edge than another one has no other sources.
LEMMA FewerSources ==
    ASSUME NEW b \in Seq(Edges), NEW c \in Seq(Edges),
           \A e \in Edges : Times(b, e) <= Times(c, e)
    PROVE  Sources(b) \subseteq Sources(c)
<1> SUFFICES ASSUME NEW i \in DOMAIN b PROVE b[i][1] \in Sources(c)
  BY DEF Sources
<1>1. b[i] \in Edges
  OBVIOUS
<1>2. Times(b, b[i]) # 0 /\ Times(b, b[i]) \in Nat
  BY TimesType
<1>3. Times(c, b[i]) # 0 /\ Times(c, b[i]) \in Nat
  BY <1>1, <1>2, TimesType
<1>4. \E j \in DOMAIN c : c[j] = b[i]
  BY <1>3, TimesType
<1> QED BY <1>4 DEF Sources

-----------------------------------------------------------------------------
(* The invariant: how the phases of a call change the lists.               *)

\* The batch is being applied to the lists, by an insert or by an erase; the plan
\* of an erase is made.
Applying  == pc \in {"queue", "alloc", "free"}
Inserting == Applying /\ call.op = "insert"
Erasing   == Applying /\ call.op = "erase"
Planned   == pc = "overwrite" /\ Len(locs) = Len(batch)

\* What is in progress: a graph is loaded, or insert or erase called.
CallKnown ==
    /\ pc = "load" => call.op = "load" /\ call.graph = stable
    /\ pc \notin {"load", "idle"} =>
          /\ call.op \in {"insert", "erase"}
          /\ call.edges \in Batches
          /\ call.op = "insert" => call.options \in Graph!Options
    /\ pc \in {"locate", "overwrite", "fault"} => call.op = "erase"

\* How the batch relates to the batch of the caller and to the graph.
BatchCounted ==
    /\ pc = "locate" => batch = Sorted(call.edges)
    /\ Applying => InOrder(batch)
    /\ Inserting => \A e \in Edges :
          /\ Times(batch, e) <= Wanted(call.edges, call.options.batchDuplicates, e)
          /\ ~call.options.graphDuplicates =>
                Times(batch, e) = Wanted(call.edges, call.options.batchDuplicates, e)
    /\ Erasing \/ Planned => \A e \in Edges :
          Times(batch, e) = Graph!Least(Times(stable[e[1]], e[2]), Times(call.edges, e))
    /\ Planned => \A i \in DOMAIN batch : locs[i] \in Matches(batch[i])

\* The degree that the call gives to a vertex, and whether the vertex has it.
Final(v)   == IF call.op = "insert" THEN Len(stable[v]) + Requested(batch, v)
                                    ELSE Len(stable[v]) - Requested(batch, v)
Settled(v) == \/ pc = "free"
              \/ v \notin todo /\ \A k \in DOMAIN queue : queue[k].src # v

\* Which degrees the vertices have in each phase.
DegreesFollow ==
    /\ pc # "load" => \A v \in Vertices :
          vertex[v].degree = IF Applying /\ Settled(v) THEN Final(v) ELSE Len(stable[v])
    /\ Applying => \A v \in Vertices : Final(v) \in 0 .. MaxDegree
    /\ Inserting => \A s \in Sources(batch) \ todo : oldDegree[s] = Len(stable[s])
    /\ pc \in {"queue", "alloc"} =>
          \A k \in DOMAIN queue : queue[k].new.degree = Final(queue[k].src)
    /\ pc \in {"alloc", "free"} => todo = {}

\* The i-th cell of the block of a vertex; the cells that hold what the call
\* leaves of the list that the vertex had.
Value(v, i)   == mem[vertex[v].ptr][vertex[v].offset + i - 1]
KeptLength(v) == IF Erasing THEN Final(v) ELSE Len(stable[v])
Kept(v)       == [i \in 1 .. KeptLength(v) |-> Value(v, i)]

\* What the blocks hold in each phase.
ListsFollow ==
    /\ pc = "load" => \A v \in Vertices : v < next =>
          /\ vertex[v].degree = Len(stable[v])
          /\ \A i \in 1 .. Len(stable[v]) : Value(v, i) = stable[v][i]
    /\ pc # "load" => \A v \in Vertices :
          IF Erasing /\ v \in Sources(batch)
          THEN /\ Kept(v) \in Seq(Vertices)
               /\ \A d \in Vertices :
                     Times(stable[v], d) = Times(Kept(v), d) + Times(batch, <<v, d>>)
          ELSE \A i \in 1 .. Len(stable[v]) : Value(v, i) = stable[v][i]

\* nE() has changed as soon as the batch is known.
EdgesCounted ==
    nE = IF Inserting THEN EdgeCount(stable) + Len(batch)
         ELSE IF Erasing THEN EdgeCount(stable) - Len(batch)
         ELSE EdgeCount(stable)

\* The graph of the last return, the call, the batch and the lists agree.
GraphFollows == /\ IsGraph(stable)
                /\ CallKnown
                /\ BatchCounted
                /\ DegreesFollow
                /\ ListsFollow
                /\ EdgesCounted

\* The graph that is to be loaded.
LEMMA InitFollows == Init => GraphFollows
<1> SUFFICES ASSUME Init PROVE GraphFollows
  OBVIOUS
<1>1. PICK g \in Graphs : /\ call = [op |-> "load", graph |-> g]
                          /\ nE = EdgeCount(g)
                          /\ stable = g
                          /\ pc = "load"
                          /\ next = 0
  BY DEF Init
<1>2. IsGraph(stable)
  BY <1>1, HornetAssumption DEF IsGraph
<1>3. \A v \in Vertices : ~(v < next)
  BY <1>1 DEF Vertices
<1>4. ~Applying /\ ~Planned
  BY <1>1 DEF Applying, Planned
<1>5. CallKnown /\ EdgesCounted
  BY <1>1, <1>4 DEF CallKnown, EdgesCounted, Inserting, Erasing
<1>6. BatchCounted
  BY <1>1, <1>4 DEF BatchCounted, Inserting, Erasing
<1>7. DegreesFollow /\ ListsFollow
  BY <1>1, <1>3, <1>4 DEF DegreesFollow, ListsFollow, Inserting
<1> QED BY <1>2, <1>5, <1>6, <1>7 DEF GraphFollows

\* The lengths of the lists and the degrees are numbers.
LEMMA LengthTypes ==
    ASSUME TypeOK, GraphFollows, NEW v \in Vertices
    PROVE  /\ stable[v] \in Seq(Vertices) /\ Len(stable[v]) \in 0 .. MaxDegree
           /\ DOMAIN stable[v] = 1 .. Len(stable[v])
           /\ vertex[v] \in VertexData /\ vertex[v].degree \in 0 .. MaxDegree
           /\ Requested(batch, v) \in Nat
           /\ MaxDegree \in Nat
<1>1. MaxDegree \in Nat
  BY HornetAssumption, SizesAssumption
<1>2. stable[v] \in Seq(Vertices) /\ Len(stable[v]) <= MaxDegree
  BY DEF GraphFollows, IsGraph
<1>3. Len(stable[v]) \in Nat /\ DOMAIN stable[v] = 1 .. Len(stable[v])
  BY <1>2
<1>4. vertex[v] \in VertexData
  BY DEF TypeOK
<1>5. Requested(batch, v) \in Nat
  BY RequestedType DEF TypeOK
<1> QED BY <1>1, <1>2, <1>3, <1>4, <1>5 DEF VertexData

\* Between the phases that change lists, the lists are those of the last return.
LEMMA QuietLists ==
    ASSUME TypeOK, GraphFollows, ~Applying, pc # "load"
    PROVE  /\ Adjacency = stable
           /\ \A v \in Vertices : vertex[v].degree = Len(stable[v])
<1>1. ASSUME NEW v \in Vertices PROVE /\ vertex[v].degree = Len(stable[v])
                                      /\ Adjacency[v] = stable[v]
  <2>1. vertex[v].degree = Len(stable[v])
    BY DEF GraphFollows, DegreesFollow
  <2>2. \A i \in 1 .. Len(stable[v]) : Value(v, i) = stable[v][i]
    BY DEF GraphFollows, ListsFollow, Erasing
  <2>3. stable[v] \in Seq(Vertices)
    BY LengthTypes
  <2>4. Adjacency[v] = [i \in 1 .. Len(stable[v]) |-> Value(v, i)]
    BY <2>1 DEF Adjacency, List, Value
  <2>5. Adjacency[v] = [i \in 1 .. Len(stable[v]) |-> stable[v][i]]
    BY <2>2, <2>4
  <2> QED BY <2>1, <2>3, <2>5
<1>2. stable \in [Vertices -> Seq(Vertices)]
  BY DEF GraphFollows, IsGraph
<1>3. Adjacency = [v \in Vertices |-> stable[v]]
  BY <1>1 DEF Adjacency
<1> QED BY <1>1, <1>2, <1>3

\* When a call returns, the lists are a graph of which the edges are counted.
LEMMA ReturnFollows ==
    ASSUME TypeOK', pc' = "idle", stable' = Adjacency',
           IsGraph(stable'), nE' = EdgeCount(stable')
    PROVE  GraphFollows'
<1>1. ~Applying' /\ ~Planned'
  BY DEF Applying, Planned
<1>2. CallKnown' /\ EdgesCounted'
  BY <1>1 DEF CallKnown, EdgesCounted, Inserting, Erasing
<1>3. BatchCounted'
  BY <1>1 DEF BatchCounted, Inserting, Erasing
<1>4. ASSUME NEW v \in Vertices
      PROVE  /\ vertex'[v].degree = Len(stable'[v])
             /\ \A i \in 1 .. Len(stable'[v]) : Value(v, i)' = stable'[v][i]
  <2>1. vertex'[v].degree \in Nat
    BY HornetAssumption, SizesAssumption DEF TypeOK, VertexData
  <2>2. stable'[v] = [i \in 1 .. vertex'[v].degree |-> Value(v, i)']
    BY DEF Adjacency, List, Value
  <2>3. Len(stable'[v]) = vertex'[v].degree
    BY <2>1, <2>2
  <2> QED BY <2>2, <2>3
<1>5. DegreesFollow'
  BY <1>1, <1>4 DEF DegreesFollow, Inserting
<1>6. ListsFollow'
  BY <1>1, <1>4 DEF ListsFollow, Erasing
<1> QED BY <1>2, <1>3, <1>5, <1>6 DEF GraphFollows, IsGraph

\* Lists keep what they hold in a step that changes neither the cells that the
\* call leaves of them nor how many these are.
LEMMA KeptFollows ==
    ASSUME TypeOK, GraphFollows, pc # "load", pc' # "load",
           stable' = stable, batch' = batch, call' = call, Applying' = Applying,
           \A v \in Vertices : \A i \in 1 .. KeptLength(v) : Value(v, i)' = Value(v, i)
    PROVE  ListsFollow'
<1>1. Erasing' = Erasing /\ Sources(batch)' = Sources(batch)
  BY DEF Erasing
<1>2. \A v \in Vertices : KeptLength(v)' = KeptLength(v)
  BY <1>1 DEF KeptLength, Final
<1>3. ASSUME NEW v \in Vertices, Erasing, v \in Sources(batch)
      PROVE  /\ Kept(v)' \in Seq(Vertices)
             /\ \A d \in Vertices :
                   Times(stable'[v], d) = Times(Kept(v)', d) + Times(batch', <<v, d>>)
  <2>1. Kept(v)' = Kept(v)
    BY <1>2 DEF Kept
  <2>2. /\ Kept(v) \in Seq(Vertices)
        /\ \A d \in Vertices :
              Times(stable[v], d) = Times(Kept(v), d) + Times(batch, <<v, d>>)
    BY <1>3 DEF GraphFollows, ListsFollow
  <2> QED BY <2>1, <2>2
<1>4. ASSUME NEW v \in Vertices, ~(Erasing /\ v \in Sources(batch)),
             NEW i \in 1 .. Len(stable[v])
      PROVE  Value(v, i)' = stable'[v][i]
  <2>1. KeptLength(v) = Len(stable[v])
    <3>1. CASE Erasing
      <4>1. Requested(batch, v) = 0
        BY <1>4, <3>1, NotRequested DEF TypeOK
      <4> QED BY <3>1, <4>1, LengthTypes DEF KeptLength, Final, Erasing
    <3>2. CASE ~Erasing
      BY <3>2 DEF KeptLength
    <3> QED BY <3>1, <3>2
  <2>2. Value(v, i) = stable[v][i]
    BY <1>4 DEF GraphFollows, ListsFollow
  <2> QED BY <2>1, <2>2
<1> QED BY <1>1, <1>3, <1>4 DEF ListsFollow

-----------------------------------------------------------------------------
(* Loading a graph, and the calls.                                         *)

\* A cell of a list is a cell that the model has.
LEMMA ListCell ==
    ASSUME CellsApart, NEW v \in Vertices, NEW i \in 1 .. vertex[v].degree
    PROVE  vertex[v].ptr \in Ptr /\ vertex[v].offset + i - 1 \in Cells
<1>1. Cell(vertex[v], i) \in Ptr \X Cells
  BY DEF CellsApart
<1> QED BY <1>1 DEF Cell

\* The list of the next vertex is put where no other list is.
LEMMA LoadVertexFollows ==
    ASSUME Base, Base', CellsApart', GraphFollows, LoadVertex
    PROVE  GraphFollows'
<1>1. PICK p \in Ptr \cup {NullPtr}, o \in Cells :
         /\ vertex' = [vertex EXCEPT ![next] =
                          [degree |-> Len(call.graph[next]), ptr |-> p, offset |-> o]]
         /\ mem' = Write(mem, p, o, call.graph[next])
  BY DEF LoadVertex
<1>2. /\ pc = "load" /\ pc' = "load" /\ next \in Vertices /\ next' = next + 1
      /\ call' = call /\ stable' = stable /\ nE' = nE
      /\ call.graph = stable /\ call.op = "load" /\ IsGraph(stable)
  BY DEF LoadVertex, GraphFollows, CallKnown
<1>3. ~Applying' /\ ~Planned' /\ ~Applying
  BY <1>2 DEF Applying, Planned
<1>4. CallKnown' /\ BatchCounted' /\ DegreesFollow'
  BY <1>2, <1>3 DEF CallKnown, BatchCounted, DegreesFollow, Inserting, Erasing
<1>5. EdgesCounted'
  BY <1>2, <1>3 DEF GraphFollows, EdgesCounted, Inserting, Erasing
<1>14. PICK u \in Vertices : u = next
  BY <1>2
<1>15. PICK s : s = stable[u]
  OBVIOUS
<1>13. /\ s \in Seq(Vertices) /\ Len(s) \in Nat /\ DOMAIN s = 1 .. Len(s)
       /\ vertex \in [Vertices -> VertexData] /\ o \in Nat
  <2>1. s \in Seq(Vertices)
    BY <1>2, <1>14, <1>15 DEF IsGraph
  <2>2. o \in Nat
    BY CellsType
  <2> QED BY <2>1, <2>2 DEF Base, TypeOK
<1>6. /\ s \in Seq(Vertices) /\ Len(s) \in Nat /\ DOMAIN s = 1 .. Len(s)
      /\ vertex'[u].degree = Len(s) /\ vertex'[u].ptr = p /\ vertex'[u].offset = o
      /\ o \in Nat
      /\ \A v \in Vertices : v # u => vertex'[v] = vertex[v]
  BY <1>1, <1>2, <1>13, <1>14, <1>15
<1>7. ASSUME NEW q \in Ptr, NEW c \in Cells
      PROVE  mem'[q][c] = IF q = p /\ c \in o .. o + Len(s) - 1 THEN s[c - o + 1] ELSE mem[q][c]
  BY <1>1, <1>2, <1>14, <1>15 DEF Write
<1>8. ASSUME NEW i \in 1 .. Len(s) PROVE Value(u, i)' = s[i]
  <2>1. p \in Ptr /\ o + i - 1 \in Cells
    <3>1. Cell(vertex'[u], i) \in Ptr \X Cells
      BY <1>2, <1>6 DEF CellsApart
    <3> QED BY <3>1, <1>6 DEF Cell
  <2>2. o + i - 1 \in o .. o + Len(s) - 1 /\ (o + i - 1) - o + 1 = i
    BY <1>6
  <2>3. Value(u, i)' = mem'[p][o + i - 1]
    <3>1. Value(u, i)' = mem'[vertex'[u].ptr][vertex'[u].offset + i - 1]
      BY DEF Value
    <3> QED BY <3>1, <1>6
  <2> QED BY <2>1, <2>2, <2>3, <1>7
<1>9. ASSUME NEW v \in Vertices, v < next, NEW i \in 1 .. Len(stable[v])
      PROVE  vertex'[v].degree = Len(stable[v]) /\ Value(v, i)' = stable[v][i]
  <2>1. /\ v # u /\ vertex'[v] = vertex[v] /\ vertex[v].degree = Len(stable[v])
        /\ Value(v, i) = stable[v][i]
        /\ vertex[v].offset \in Nat
    <3>1. v # u
      BY <1>2, <1>9, <1>14, <1>15 DEF Vertices
    <3>2. vertex[v].degree = Len(stable[v]) /\ Value(v, i) = stable[v][i]
      BY <1>2, <1>9 DEF GraphFollows, ListsFollow
    <3>3. vertex[v].offset \in Nat
      BY DEF Base, TypeOK, VertexData
    <3> QED BY <3>1, <3>2, <3>3, <1>6
  <2>2. vertex[v].ptr \in Ptr /\ vertex[v].offset + i - 1 \in Cells
    <3>1. Cell(vertex'[v], i) \in Ptr \X Cells
      BY <2>1 DEF CellsApart
    <3> QED BY <3>1, <2>1 DEF Cell
  <2>3. ASSUME vertex[v].ptr = p, vertex[v].offset + i - 1 \in o .. o + Len(s) - 1
        PROVE  FALSE
    <3> DEFINE j == vertex[v].offset + i - o
    <3>1. j \in 1 .. Len(s) /\ o + j - 1 = vertex[v].offset + i - 1
      <4>1. i \in Int /\ vertex[v].offset \in Int /\ o \in Int /\ Len(s) \in Int
        BY <2>1, <1>6
      <4>2. /\ o <= vertex[v].offset + i - 1
            /\ vertex[v].offset + i - 1 <= o + Len(s) - 1
        BY <2>3, <4>1
      <4> QED BY <4>1, <4>2
    <3>2. Cell(vertex'[v], i) = Cell(vertex'[u], j)
      BY <2>1, <2>3, <3>1, <1>6 DEF Cell
    <3>3. j \in 1 .. vertex'[u].degree /\ i \in 1 .. vertex'[v].degree
      BY <3>1, <2>1, <1>6
    <3> HIDE DEF j
    <3> QED BY <3>2, <3>3, <2>1, <1>2 DEF CellsApart
  <2>4. mem'[vertex[v].ptr][vertex[v].offset + i - 1] = mem[vertex[v].ptr][vertex[v].offset + i - 1]
    <3> QED BY <2>2, <2>3, <1>7
  <2> QED BY <2>1, <2>4 DEF Value
<1>10. ASSUME NEW v \in Vertices, v < next PROVE vertex'[v].degree = Len(stable[v])
  <2>1. v # u
    BY <1>2, <1>10, <1>14, <1>15 DEF Vertices
  <2>2. vertex[v].degree = Len(stable[v])
    BY <1>2, <1>10 DEF GraphFollows, ListsFollow
  <2> QED BY <2>1, <2>2, <1>6
<1>11. \A v \in Vertices : v < next' => v < next \/ v = u
  BY <1>2, <1>14, <1>15 DEF Vertices
<1>12. ListsFollow'
  <2>1. ASSUME NEW v \in Vertices, v < next', NEW i \in 1 .. Len(stable[v])
        PROVE  Value(v, i)' = stable[v][i]
    <3>1. CASE v = u
      BY <2>1, <3>1, <1>8, <1>14, <1>15
    <3>2. CASE v < next
      BY <2>1, <3>2, <1>9
    <3> QED BY <2>1, <3>1, <3>2, <1>11
  <2>2. ASSUME NEW v \in Vertices, v < next' PROVE vertex'[v].degree = Len(stable[v])
    <3>1. CASE v = u
      BY <3>1, <1>6, <1>14, <1>15
    <3>2. CASE v < next
      BY <3>2, <1>10
    <3> QED BY <2>2, <3>1, <3>2, <1>11
  <2> QED BY <2>1, <2>2, <1>2 DEF ListsFollow
<1> QED BY <1>2, <1>4, <1>5, <1>12 DEF GraphFollows

\* Then all lists are loaded.
LEMMA LoadDoneFollows ==
    ASSUME Base, GraphFollows, LoadDone
    PROVE  GraphFollows'
<1>1. /\ pc = "load" /\ pc' = "idle" /\ next = nV /\ vertex' = vertex /\ mem' = mem
      /\ stable' = stable /\ nE' = nE
  BY DEF LoadDone
<1>2. \A v \in Vertices : v < next
  BY <1>1, HornetAssumption DEF Vertices
<1>3. ~Applying' /\ ~Planned' /\ ~Applying
  BY <1>1 DEF Applying, Planned
<1>4. CallKnown' /\ BatchCounted'
  BY <1>1, <1>3 DEF CallKnown, BatchCounted, Inserting, Erasing
<1>5. DegreesFollow' /\ ListsFollow'
  BY <1>1, <1>2, <1>3
     DEF GraphFollows, DegreesFollow, ListsFollow, Inserting, Erasing, Value
<1>6. EdgesCounted'
  BY <1>1, <1>3 DEF GraphFollows, EdgesCounted, Inserting, Erasing
<1> QED BY <1>1, <1>4, <1>5, <1>6 DEF GraphFollows

\* An insert begins with a batch that has no more of any edge than is wanted.
LEMMA InsertFollows ==
    ASSUME Base, Base', GraphFollows, NEW b \in Batches, NEW f \in BOOLEAN, NEW g \in BOOLEAN,
           ~(f /\ g), Insert(b, f, g)
    PROVE  GraphFollows'
<1>1. /\ pc = "idle" /\ pc' = "queue" /\ queue' = queue /\ queue = <<>>
      /\ call' = [op |-> "insert", edges |-> b,
                  options |-> [batchDuplicates |-> f, graphDuplicates |-> g]]
      /\ batch' = Preprocess(b, f, g) /\ todo' = Sources(batch')
      /\ nE' = nE + Len(batch')
      /\ stable' = stable /\ vertex' = vertex /\ mem' = mem
  BY DEF Insert, Base, QueueConsistent
<1>2. /\ call'.op = "insert" /\ call'.edges = b
      /\ call'.options = [batchDuplicates |-> f, graphDuplicates |-> g]
      /\ call'.options.batchDuplicates = f /\ call'.options.graphDuplicates = g
  BY <1>1
<1>3. b \in Seq(Edges) /\ b # <<>> /\ batch' \in Seq(Edges)
  BY HornetAssumption DEF Base, TypeOK
<1>4. Applying' /\ Inserting' /\ ~Erasing' /\ ~Planned' /\ ~Applying
  BY <1>1, <1>2 DEF Applying, Inserting, Erasing, Planned
<1>5. CallKnown'
  BY <1>1, <1>2 DEF CallKnown, Graph!Options
<1>6. /\ InOrder(batch')
      /\ \A e \in Edges : /\ Times(batch', e) <= Wanted(b, f, e)
                          /\ ~g => Times(batch', e) = Wanted(b, f, e)
  BY <1>1, <1>3, PreprocessTimes
<1>7. BatchCounted'
  BY <1>1, <1>2, <1>4, <1>6 DEF BatchCounted
<1>8. ASSUME NEW v \in Vertices
      PROVE  /\ vertex'[v].degree = Len(stable[v])
             /\ Requested(batch', v) \in Nat
             /\ v \notin Sources(batch') => Requested(batch', v) = 0
             /\ Len(stable[v]) \in 0 .. MaxDegree
             /\ MaxDegree \in Nat
  BY <1>1, <1>3, <1>4, QuietLists, LengthTypes, RequestedType, NotRequested DEF Base
<1>9. ASSUME NEW v \in Vertices
      PROVE  /\ Final(v)' = Len(stable[v]) + Requested(batch', v)
             /\ Final(v)' \in 0 .. MaxDegree
             /\ v \notin Sources(batch') => Final(v)' = Len(stable[v])
  <2>1. Final(v)' = Len(stable[v]) + Requested(batch', v)
    BY <1>1, <1>2 DEF Final
  <2>2. v \in Sources(batch') => Len(stable[v]) + Requested(batch', v) <= MaxDegree
    <3>1. Fits(batch')
      BY DEF Insert
    <3> QED BY <3>1, <1>1, <1>8 DEF Fits
  <2> QED BY <2>1, <2>2, <1>8
<1>10. DegreesFollow'
  <2>1. \A v \in Vertices : vertex'[v].degree = IF Settled(v)' THEN Final(v)' ELSE Len(stable'[v])
    BY <1>1, <1>8, <1>9 DEF Settled
  <2>2. Sources(batch)' \ todo' = {} /\ DOMAIN queue' = {}
    BY <1>1
  <2> QED BY <2>1, <2>2, <1>1, <1>4, <1>9 DEF DegreesFollow
<1>11. ListsFollow'
  BY <1>1, <1>4 DEF GraphFollows, ListsFollow, Erasing, Value
<1>12. EdgesCounted'
  BY <1>1, <1>4 DEF GraphFollows, EdgesCounted, Inserting, Erasing
<1> QED BY <1>1, <1>5, <1>7, <1>10, <1>11, <1>12 DEF GraphFollows

\* An erase begins with the sorted batch of the caller.
LEMMA EraseFollows ==
    ASSUME Base, GraphFollows, NEW b \in Batches, Erase(b)
    PROVE  GraphFollows'
<1>1. /\ pc = "idle" /\ pc' = "locate" /\ call' = [op |-> "erase", edges |-> b]
      /\ batch' = Sorted(b) /\ nE' = nE
      /\ stable' = stable /\ vertex' = vertex /\ mem' = mem
  BY DEF Erase
<1>2. ~Applying' /\ ~Planned' /\ ~Applying
  BY <1>1 DEF Applying, Planned
<1>3. CallKnown' /\ BatchCounted'
  BY <1>1, <1>2 DEF CallKnown, BatchCounted, Inserting, Erasing
<1>4. DegreesFollow' /\ ListsFollow' /\ EdgesCounted'
  BY <1>1, <1>2 DEF GraphFollows, DegreesFollow, ListsFollow, EdgesCounted, Inserting,
                    Erasing, Value
<1> QED BY <1>1, <1>3, <1>4 DEF GraphFollows

-----------------------------------------------------------------------------
(* The queue of the vertices that move, and their new blocks.              *)

\* While a call is applied, its batch and what the lists are to become stay.
LEMMA ApplyingKeeps ==
    ASSUME GraphFollows, Applying, Applying', call' = call, batch' = batch,
           stable' = stable, nE' = nE
    PROVE  /\ CallKnown' /\ BatchCounted' /\ EdgesCounted'
           /\ Inserting' = Inserting /\ Erasing' = Erasing
           /\ \A v : Final(v)' = Final(v) /\ KeptLength(v)' = KeptLength(v)
<1>1. pc \in {"queue", "alloc", "free"} /\ pc' \in {"queue", "alloc", "free"}
  BY DEF Applying
<1>2. Inserting' = Inserting /\ Erasing' = Erasing /\ ~Planned'
  BY <1>1 DEF Inserting, Erasing, Planned
<1>3. CallKnown'
  BY <1>1 DEF GraphFollows, CallKnown
<1>4. BatchCounted'
  BY <1>1, <1>2 DEF GraphFollows, BatchCounted
<1>5. EdgesCounted'
  BY <1>2 DEF GraphFollows, EdgesCounted
<1>6. \A v : Final(v)' = Final(v)
  BY DEF Final
<1>7. \A v : KeptLength(v)' = KeptLength(v)
  BY <1>2, <1>6 DEF KeptLength
<1> QED BY <1>2, <1>3, <1>4, <1>5, <1>6, <1>7

\* The thread of a source computes the degree that the call gives to it.
LEMMA NewDegreeIsFinal ==
    ASSUME TypeOK, QueueConsistent, GraphFollows, pc = "queue", NEW s \in todo
    PROVE  /\ s \in Vertices /\ s \in Sources(batch) /\ ~Settled(s)
           /\ vertex[s].degree = Len(stable[s]) /\ NewDegree(s) = Final(s)
           /\ \A k \in DOMAIN queue : queue[k].src # s
<1>1. s \in Vertices /\ s \in Sources(batch) /\ \A k \in DOMAIN queue : queue[k].src # s
  BY DEF TypeOK, QueueConsistent
<1>2. ~Settled(s)
  BY DEF Settled
<1>3. vertex[s].degree = Len(stable[s])
  BY <1>1, <1>2 DEF GraphFollows, DegreesFollow
<1> QED BY <1>1, <1>2, <1>3 DEF NewDegree, Final

\* A source gets its degree, or a queue entry with it.
LEMMA QueueSourceFollows ==
    ASSUME Base, Base', GraphFollows, NEW s \in todo, QueueSource(s)
    PROVE  GraphFollows'
<1>1. /\ pc = "queue" /\ pc' = "queue" /\ todo' = todo \ {s}
      /\ nE' = nE /\ mem' = mem /\ call' = call /\ batch' = batch /\ stable' = stable
      /\ SetDegree(s) /\ RecordDegree(s)
  BY DEF QueueSource
<1>2. Applying /\ Applying'
  BY <1>1 DEF Applying
<1>3. /\ CallKnown' /\ BatchCounted' /\ EdgesCounted'
      /\ Inserting' = Inserting /\ Erasing' = Erasing
      /\ \A v : Final(v)' = Final(v) /\ KeptLength(v)' = KeptLength(v)
  BY <1>1, <1>2, ApplyingKeeps
<1>4. /\ s \in Vertices /\ s \in Sources(batch) /\ ~Settled(s)
      /\ vertex[s].degree = Len(stable[s]) /\ NewDegree(s) = Final(s)
      /\ \A k \in DOMAIN queue : queue[k].src # s
  BY <1>1, NewDegreeIsFinal DEF Base
<1>5. vertex \in [Vertices -> VertexData] /\ oldDegree \in [Vertices -> 0 .. MaxDegree]
  BY DEF Base, TypeOK
<1>6. ASSUME NEW v \in Vertices
      PROVE  /\ vertex'[v].ptr = vertex[v].ptr /\ vertex'[v].offset = vertex[v].offset
             /\ vertex'[v].degree = IF v = s /\ ~MustMove(s) THEN Final(s) ELSE vertex[v].degree
  <2>1. CASE MustMove(s)
    BY <2>1, <1>1 DEF SetDegree
  <2>2. CASE ~MustMove(s)
    <3>1. vertex' = [vertex EXCEPT ![s].degree = Final(s)]
      BY <2>2, <1>1, <1>4 DEF SetDegree
    <3>2. vertex[v] \in VertexData /\ vertex[s] \in VertexData
      BY <1>4, <1>5
    <3>3. vertex'[v] = IF v = s THEN [vertex[s] EXCEPT !.degree = Final(s)] ELSE vertex[v]
      BY <3>1, <1>4, <1>5
    <3> QED BY <3>2, <3>3, <2>2 DEF VertexData
  <2> QED BY <2>1, <2>2
<1>7. /\ queue \in Seq(Entries) /\ Len(queue) \in Nat /\ DOMAIN queue = 1 .. Len(queue)
      /\ \A k \in DOMAIN queue : queue[k] \in Entries
  BY QueueEntries DEF Base
<1>8. ASSUME MustMove(s)
      PROVE  /\ \A v \in Vertices :
                   vertex'[v].degree = IF Settled(v)' THEN Final(v)' ELSE Len(stable'[v])
             /\ \A k \in DOMAIN queue' : queue'[k].new.degree = Final(queue[k].src)'
  <2> DEFINE e == [src |-> s, old |-> vertex[s], new |-> [NoBlock EXCEPT !.degree = NewDegree(s)]]
  <2>1. queue' = Append(queue, e)
    BY <1>8 DEF QueueSource
  <2>2. e.src = s /\ e.new.degree = Final(s)
    BY <1>4 DEF NoBlock
  <2> HIDE DEF e
  <2>3. /\ DOMAIN queue' = 1 .. Len(queue) + 1 /\ queue'[Len(queue) + 1] = e
        /\ \A k \in DOMAIN queue : queue'[k] = queue[k]
    BY <2>1, <1>7
  <2>4. \A k \in DOMAIN queue' : k \in DOMAIN queue \/ k = Len(queue) + 1
    BY <2>3, <1>7
  <2>5. \A k \in DOMAIN queue : k \in DOMAIN queue'
    BY <2>3, <1>7
  <2>6. ASSUME NEW v \in Vertices PROVE Settled(v)' <=> Settled(v)
    <3>1. CASE v = s
      <4>1. Len(queue) + 1 \in DOMAIN queue'
        BY <2>3, <1>7
      <4>2. ~Settled(v)'
        BY <3>1, <4>1, <2>2, <2>3, <1>1 DEF Settled
      <4> QED BY <4>2, <3>1, <1>4
    <3>2. CASE v # s
      BY <3>2, <2>2, <2>3, <2>4, <2>5, <1>1 DEF Settled
    <3> QED BY <3>1, <3>2
  <2>7. \A v \in Vertices : vertex'[v].degree = IF Settled(v)' THEN Final(v)' ELSE Len(stable'[v])
    BY <1>1, <1>2, <1>3, <1>6, <1>8, <2>6 DEF GraphFollows, DegreesFollow
  <2>8. \A k \in DOMAIN queue' : queue'[k].new.degree = Final(queue[k].src)'
    <3>1. \A k \in DOMAIN queue : queue[k].new.degree = Final(queue[k].src)
      BY <1>1 DEF GraphFollows, DegreesFollow
    <3> QED BY <3>1, <1>1, <2>2, <2>3, <2>4 DEF Final
  <2> QED BY <2>7, <2>8
<1>9. ASSUME ~MustMove(s)
      PROVE  /\ \A v \in Vertices :
                   vertex'[v].degree = IF Settled(v)' THEN Final(v)' ELSE Len(stable'[v])
             /\ \A k \in DOMAIN queue' : queue'[k].new.degree = Final(queue[k].src)'
  <2>1. queue' = queue
    BY <1>9 DEF QueueSource
  <2>2. ASSUME NEW v \in Vertices PROVE Settled(v)' <=> Settled(v) \/ v = s
    BY <2>1, <1>1, <1>4 DEF Settled
  <2>3. \A v \in Vertices : vertex'[v].degree = IF Settled(v)' THEN Final(v)' ELSE Len(stable'[v])
    BY <1>1, <1>2, <1>3, <1>6, <1>9, <2>2 DEF GraphFollows, DegreesFollow
  <2>4. \A k \in DOMAIN queue' : queue'[k].new.degree = Final(queue[k].src)'
    <3>1. \A k \in DOMAIN queue : queue[k].new.degree = Final(queue[k].src)
      BY <1>1 DEF GraphFollows, DegreesFollow
    <3> QED BY <3>1, <1>1, <2>1 DEF Final
  <2> QED BY <2>3, <2>4
<1>10. Inserting => \A v \in Sources(batch) \ todo' : oldDegree'[v] = Len(stable[v])
  <2> SUFFICES ASSUME Inserting, NEW v \in Sources(batch) \ todo'
               PROVE  oldDegree'[v] = Len(stable[v])
    OBVIOUS
  <2>1. oldDegree' = [oldDegree EXCEPT ![s] = vertex[s].degree]
    BY <1>1 DEF RecordDegree, Inserting
  <2>2. CASE v = s
    BY <2>1, <2>2, <1>4, <1>5
  <2>3. CASE v # s
    <3>1. oldDegree[v] = Len(stable[v])
      BY <2>3, <1>1 DEF GraphFollows, DegreesFollow
    <3> QED BY <3>1, <2>1, <2>3, <1>5
  <2> QED BY <2>2, <2>3
<1>11. \A v \in Vertices : Final(v)' \in 0 .. MaxDegree
  BY <1>2, <1>3 DEF GraphFollows, DegreesFollow
<1>12. DegreesFollow'
  BY <1>1, <1>2, <1>3, <1>8, <1>9, <1>10, <1>11 DEF DegreesFollow
<1>13. ListsFollow'
  <2>1. \A v \in Vertices : \A i \in 1 .. KeptLength(v) : Value(v, i)' = Value(v, i)
    BY <1>1, <1>6 DEF Value
  <2> QED BY <2>1, <1>1, <1>2, KeptFollows DEF Base
<1> QED BY <1>1, <1>3, <1>12, <1>13 DEF GraphFollows

\* Every source has one or the other.
LEMMA QueueDoneFollows ==
    ASSUME Base, GraphFollows, QueueDone
    PROVE  GraphFollows'
<1>1. /\ pc = "queue" /\ pc' = "alloc" /\ todo = {} /\ todo' = todo /\ queue' = queue
      /\ nE' = nE /\ mem' = mem /\ call' = call /\ batch' = batch /\ stable' = stable
      /\ vertex' = vertex /\ oldDegree' = oldDegree
  BY DEF QueueDone
<1>2. Applying /\ Applying'
  BY <1>1 DEF Applying
<1>3. /\ CallKnown' /\ BatchCounted' /\ EdgesCounted'
      /\ Inserting' = Inserting /\ Erasing' = Erasing
      /\ \A v : Final(v)' = Final(v) /\ KeptLength(v)' = KeptLength(v)
  BY <1>1, <1>2, ApplyingKeeps
<1>4. \A v : Settled(v)' <=> Settled(v)
  BY <1>1 DEF Settled
<1>5. DegreesFollow'
  BY <1>1, <1>2, <1>3, <1>4 DEF GraphFollows, DegreesFollow
<1>6. \A v \in Vertices : \A i \in 1 .. KeptLength(v) : Value(v, i)' = Value(v, i)
  BY <1>1 DEF Value
<1>7. ListsFollow'
  BY <1>6, <1>1, <1>2, KeptFollows DEF Base
<1> QED BY <1>1, <1>3, <1>5, <1>7 DEF GraphFollows

\* A new block for the next entry of the queue: the entry keeps its source,
\* its old vertex data and the degree of its new data.
LEMMA AllocKeepsEntries ==
    ASSUME TypeOK, QueueConsistent, AllocBlock
    PROVE  /\ DOMAIN queue' = DOMAIN queue
           /\ \A k \in DOMAIN queue : /\ queue'[k].src = queue[k].src
                                      /\ queue'[k].old = queue[k].old
                                      /\ queue'[k].new.degree = queue[k].new.degree
<1>1. PICK p \in Ptr \cup {NullPtr}, o \in Cells :
         queue' = [queue EXCEPT ![next].new.ptr = p, ![next].new.offset = o]
  BY DEF AllocBlock
<1>2. /\ queue \in Seq(Entries) /\ DOMAIN queue = 1 .. Len(queue) /\ Len(queue) \in Nat
      /\ \A k \in DOMAIN queue : queue[k] \in Entries /\ queue[k].new \in VertexData
  BY QueueEntries
<1>3. next \in DOMAIN queue
  BY <1>2 DEF AllocBlock, QueueConsistent
<1>4. DOMAIN queue' = DOMAIN queue
  BY <1>1, <1>2, <1>3
<1>5. ASSUME NEW k \in DOMAIN queue
      PROVE  /\ queue'[k].src = queue[k].src /\ queue'[k].old = queue[k].old
             /\ queue'[k].new.degree = queue[k].new.degree
  <2>1. CASE k = next
    <3>1. queue'[k] = [queue[k] EXCEPT !.new = [queue[k].new EXCEPT !.ptr = p, !.offset = o]]
      BY <1>1, <1>2, <1>3, <2>1 DEF Entries
    <3> QED BY <3>1, <1>2 DEF Entries, VertexData
  <2>2. CASE k # next
    BY <1>1, <1>2, <1>3, <2>2
  <2> QED BY <2>1, <2>2
<1> QED BY <1>4, <1>5

\* A new block changes neither degrees nor lists.
LEMMA AllocBlockFollows ==
    ASSUME Base, GraphFollows, AllocBlock
    PROVE  GraphFollows'
<1>1. /\ pc = "alloc" /\ pc' = "alloc" /\ todo' = todo
      /\ nE' = nE /\ mem' = mem /\ call' = call /\ batch' = batch /\ stable' = stable
      /\ vertex' = vertex /\ oldDegree' = oldDegree
  BY DEF AllocBlock
<1>2. Applying /\ Applying'
  BY <1>1 DEF Applying
<1>3. /\ CallKnown' /\ BatchCounted' /\ EdgesCounted'
      /\ Inserting' = Inserting /\ Erasing' = Erasing
      /\ \A v : Final(v)' = Final(v) /\ KeptLength(v)' = KeptLength(v)
  BY <1>1, <1>2, ApplyingKeeps
<1>4. /\ DOMAIN queue' = DOMAIN queue
      /\ \A k \in DOMAIN queue : /\ queue'[k].src = queue[k].src
                                 /\ queue'[k].new.degree = queue[k].new.degree
  BY AllocKeepsEntries DEF Base
<1>5. \A v : Settled(v)' <=> Settled(v)
  BY <1>1, <1>4 DEF Settled
<1>6. \A k \in DOMAIN queue' : queue'[k].new.degree = Final(queue[k].src)'
  <2>1. \A k \in DOMAIN queue : queue[k].new.degree = Final(queue[k].src)
    BY <1>1 DEF GraphFollows, DegreesFollow
  <2> QED BY <2>1, <1>1, <1>4 DEF Final
<1>7. DegreesFollow'
  BY <1>1, <1>2, <1>3, <1>5, <1>6 DEF GraphFollows, DegreesFollow
<1>8. \A v \in Vertices : \A i \in 1 .. KeptLength(v) : Value(v, i)' = Value(v, i)
  BY <1>1 DEF Value
<1>9. ListsFollow'
  BY <1>8, <1>1, <1>2, KeptFollows DEF Base
<1> QED BY <1>1, <1>3, <1>7, <1>9 DEF GraphFollows

-----------------------------------------------------------------------------
(* The lists are moved, and the old blocks given back.                     *)

\* What a call leaves of a list fits the degree before and after the call, and so
\* the degree at any time.
LEMMA KeptBounds ==
    ASSUME TypeOK, GraphFollows, Applying, NEW v \in Vertices
    PROVE  /\ KeptLength(v) \in Nat /\ Final(v) \in 0 .. MaxDegree /\ Len(stable[v]) \in Nat
           /\ KeptLength(v) <= Final(v) /\ KeptLength(v) <= Len(stable[v])
           /\ vertex[v].degree \in Nat /\ KeptLength(v) <= vertex[v].degree
<1>1. /\ Len(stable[v]) \in Nat /\ MaxDegree \in Nat /\ Requested(batch, v) \in Nat
      /\ vertex[v].degree \in Nat
  BY LengthTypes
<1>2. Final(v) \in 0 .. MaxDegree
  BY DEF GraphFollows, DegreesFollow
<1>3. call.op \in {"insert", "erase"}
  BY DEF GraphFollows, CallKnown, Applying
<1>4. KeptLength(v) \in Nat /\ KeptLength(v) <= Final(v) /\ KeptLength(v) <= Len(stable[v])
  <2>1. CASE call.op = "insert"
    BY <2>1, <1>1 DEF KeptLength, Final, Erasing
  <2>2. CASE call.op = "erase"
    <3>1. KeptLength(v) = Final(v) /\ Final(v) = Len(stable[v]) - Requested(batch, v)
      BY <2>2 DEF KeptLength, Final, Erasing
    <3> QED BY <3>1, <1>1, <1>2
  <2> QED BY <2>1, <2>2, <1>3
<1>5. vertex[v].degree = Final(v) \/ vertex[v].degree = Len(stable[v])
  BY DEF GraphFollows, DegreesFollow, Applying
<1> QED BY <1>1, <1>2, <1>4, <1>5

\* A list that moves is written where nothing is read, so it arrives as it was.
LEMMA MoveFollows ==
    ASSUME Base, CellsApart, GraphFollows, MoveAdjacencyLists
    PROVE  GraphFollows'
<1>1. /\ pc = "alloc" /\ pc' = "free" /\ next = Len(queue) + 1 /\ todo' = todo
      /\ nE' = nE /\ call' = call /\ batch' = batch /\ stable' = stable
      /\ oldDegree' = oldDegree /\ queue' = queue
  BY DEF MoveAdjacencyLists
<1>2. Applying /\ Applying'
  BY <1>1 DEF Applying
<1>3. /\ CallKnown' /\ BatchCounted' /\ EdgesCounted'
      /\ Inserting' = Inserting /\ Erasing' = Erasing
      /\ \A v : Final(v)' = Final(v) /\ KeptLength(v)' = KeptLength(v)
  BY <1>1, <1>2, ApplyingKeeps
<1>4. /\ Len(queue) \in Nat /\ DOMAIN queue = 1 .. Len(queue)
      /\ \A k \in DOMAIN queue : /\ queue[k].src \in Vertices
                                 /\ queue[k].old \in VertexData
                                 /\ queue[k].new \in VertexData
  BY QueueEntries DEF Base
<1>5. /\ \A k \in DOMAIN queue : queue[k].old = vertex[queue[k].src]
      /\ \A j, k \in DOMAIN queue : queue[j].src = queue[k].src => j = k
      /\ \A k \in DOMAIN queue : queue[k].new.degree = Final(queue[k].src)
      /\ todo = {}
      /\ \A k \in DOMAIN queue : k < next
  <2>1. \A k \in DOMAIN queue : k < next
    BY <1>1, <1>4
  <2> QED BY <2>1, <1>1, <1>2 DEF Base, QueueConsistent, GraphFollows, DegreesFollow
<1>6. ASSUME NEW k \in DOMAIN queue PROVE vertex'[queue[k].src] = queue[k].new
  <2>1. queue[CHOOSE l \in DOMAIN queue : queue[l].src = queue[k].src].src = queue[k].src
    OBVIOUS
  <2>2. (CHOOSE l \in DOMAIN queue : queue[l].src = queue[k].src) = k
    BY <2>1, <1>5
  <2> QED BY <2>2, <1>4 DEF MoveAdjacencyLists
<1>7. ASSUME NEW v \in Vertices, \A k \in DOMAIN queue : queue[k].src # v
      PROVE  vertex'[v] = vertex[v] /\ Settled(v)
  BY <1>5, <1>7 DEF MoveAdjacencyLists, Settled
<1>8. ASSUME NEW v \in Vertices PROVE vertex'[v].degree = Final(v)
  <2>1. CASE \E k \in DOMAIN queue : queue[k].src = v
    BY <2>1, <1>5, <1>6
  <2>2. CASE \A k \in DOMAIN queue : queue[k].src # v
    <3>1. vertex'[v] = vertex[v] /\ Settled(v)
      BY <2>2, <1>7
    <3>2. vertex[v].degree = Final(v)
      BY <3>1, <1>1, <1>2 DEF GraphFollows, DegreesFollow
    <3> QED BY <3>1, <3>2
  <2> QED BY <2>1, <2>2
<1>9. DegreesFollow'
  <2>1. \A v : Settled(v)'
    BY <1>1 DEF Settled
  <2> QED BY <2>1, <1>1, <1>2, <1>3, <1>5, <1>8 DEF GraphFollows, DegreesFollow
<1>10. ASSUME NEW k \in DOMAIN queue
       PROVE  /\ Moved(k) = KeptLength(queue[k].src) /\ Moved(k) \in Nat
              /\ Moved(k) <= queue[k].new.degree
              /\ queue[k].new.degree \in Nat /\ queue[k].new.offset \in Nat
              /\ queue[k].old.offset \in Nat
  <2> DEFINE v == queue[k].src
  <2>1. v \in Vertices /\ v \notin todo /\ ~Settled(v)
    BY <1>1, <1>4, <1>5 DEF Settled
  <2>2. vertex[v].degree = Len(stable[v])
    BY <2>1, <1>1, <1>2 DEF GraphFollows, DegreesFollow
  <2>3. Moved(k) = KeptLength(v)
    <3>1. call.op \in {"insert", "erase"}
      BY <1>1 DEF GraphFollows, CallKnown
    <3> QED BY <3>1, <2>2, <1>2, <1>5 DEF Moved, KeptLength, Erasing
  <2>4. KeptLength(v) \in Nat /\ KeptLength(v) <= Final(v)
    BY <2>1, <1>2, KeptBounds DEF Base
  <2>5. queue[k].new.degree \in Nat
    BY <1>4, HornetAssumption, SizesAssumption DEF VertexData
  <2>6. queue[k].new.offset \in Nat /\ queue[k].old.offset \in Nat
    BY <1>4 DEF VertexData
  <2> QED BY <2>3, <2>4, <2>5, <2>6, <1>5
<1>11. ASSUME NEW k \in DOMAIN queue, NEW p \in Ptr, NEW c \in Cells, MovedTo(k, p, c)
       PROVE  \E j \in Nat \ {0} : j <= queue[k].new.degree /\ Cell(queue[k].new, j) = <<p, c>>
  <2>1. c \in Nat
    BY CellsType
  <2> DEFINE j == c - queue[k].new.offset + 1
  <2>2. p = queue[k].new.ptr
        /\ c \in queue[k].new.offset .. queue[k].new.offset + Moved(k) - 1
    BY <1>11 DEF MovedTo
  <2>3. j \in Nat \ {0} /\ j <= queue[k].new.degree /\ queue[k].new.offset + j - 1 = c
    <3>1. /\ queue[k].new.offset <= c /\ c <= queue[k].new.offset + Moved(k) - 1
      BY <2>1, <2>2, <1>10
    <3> QED BY <3>1, <2>1, <1>10
  <2> HIDE DEF j
  <2> QED BY <2>2, <2>3 DEF Cell
<1>12. ASSUME NEW k \in DOMAIN queue, NEW i \in 1 .. Moved(k)
       PROVE  mem'[queue[k].new.ptr][queue[k].new.offset + i - 1]
                 = mem[queue[k].old.ptr][queue[k].old.offset + i - 1]
  <2> DEFINE p == queue[k].new.ptr
             c == queue[k].new.offset + i - 1
  <2>1. i \in Nat \ {0} /\ i <= queue[k].new.degree
    BY <1>10
  <2>2. Cell(queue[k].new, i) = <<p, c>>
    BY DEF Cell
  <2>3. p \in Ptr /\ c \in Cells
    <3>1. Cell(queue[k].new, i) \in Ptr \X Cells
      BY <2>1, <1>1, <1>5 DEF CellsApart
    <3> QED BY <3>1, <2>2
  <2>4. MovedTo(k, p, c)
    BY <1>10 DEF MovedTo
  <2>5. ASSUME NEW l \in DOMAIN queue, MovedTo(l, p, c) PROVE l = k
    <3>1. PICK j \in Nat \ {0} : j <= queue[l].new.degree /\ Cell(queue[l].new, j) = <<p, c>>
      BY <2>3, <2>5, <1>11
    <3> QED BY <3>1, <2>1, <2>2, <1>1, <1>5 DEF CellsApart
  <2>6. (CHOOSE l \in DOMAIN queue : MovedTo(l, p, c)) = k
    BY <2>4, <2>5
  <2>7. mem'[p][c] = mem[queue[k].old.ptr][queue[k].old.offset + c - queue[k].new.offset]
    <3> HIDE DEF p, c
    <3> QED BY <2>3, <2>4, <2>6 DEF MoveAdjacencyLists
  <2>8. queue[k].old.offset + c - queue[k].new.offset = queue[k].old.offset + i - 1
    BY <1>10
  <2> QED BY <2>7, <2>8
<1>13. ASSUME NEW v \in Vertices, NEW i \in 1 .. KeptLength(v),
              \A k \in DOMAIN queue : queue[k].src # v
       PROVE  mem'[vertex[v].ptr][vertex[v].offset + i - 1]
                 = mem[vertex[v].ptr][vertex[v].offset + i - 1]
  <2> DEFINE p == vertex[v].ptr
             c == vertex[v].offset + i - 1
  <2>1. i \in 1 .. vertex[v].degree
    BY <1>2, KeptBounds DEF Base
  <2>2. Cell(vertex[v], i) = <<p, c>>
    BY DEF Cell
  <2>3. p \in Ptr /\ c \in Cells
    <3>1. Cell(vertex[v], i) \in Ptr \X Cells
      BY <2>1 DEF CellsApart
    <3> QED BY <3>1, <2>2
  <2>4. ASSUME NEW l \in DOMAIN queue, MovedTo(l, p, c) PROVE FALSE
    <3>1. PICK j \in Nat \ {0} : j <= queue[l].new.degree /\ Cell(queue[l].new, j) = <<p, c>>
      BY <2>3, <2>4, <1>11
    <3> QED BY <3>1, <2>1, <2>2, <1>1, <1>5 DEF CellsApart
  <2> HIDE DEF p, c
  <2>5. mem'[p][c] = mem[p][c]
    BY <2>3, <2>4 DEF MoveAdjacencyLists
  <2> QED BY <2>5 DEF p, c
<1>14. ASSUME NEW v \in Vertices, NEW i \in 1 .. KeptLength(v) PROVE Value(v, i)' = Value(v, i)
  <2>1. CASE \E k \in DOMAIN queue : queue[k].src = v
    <3>1. PICK k \in DOMAIN queue : queue[k].src = v
      BY <2>1
    <3>2. i \in 1 .. Moved(k)
      BY <3>1, <1>10
    <3>3. vertex'[v] = queue[k].new /\ vertex[v] = queue[k].old
      BY <3>1, <1>5, <1>6
    <3> QED BY <3>2, <3>3, <1>12 DEF Value
  <2>2. CASE \A k \in DOMAIN queue : queue[k].src # v
    <3>1. vertex'[v] = vertex[v]
      BY <2>2, <1>7
    <3> QED BY <3>1, <2>2, <1>13 DEF Value
  <2> QED BY <2>1, <2>2
<1>15. ListsFollow'
  BY <1>14, <1>1, <1>2, KeptFollows DEF Base
<1> QED BY <1>1, <1>3, <1>9, <1>15 DEF GraphFollows

\* The old block of a vertex holds no edge of a list any more.
LEMMA FreeBlockFollows ==
    ASSUME Base, CellsApart, GraphFollows, FreeBlock
    PROVE  GraphFollows'
<1>1. /\ pc = "free" /\ pc' = "free" /\ next <= Len(queue) /\ todo' = todo
      /\ nE' = nE /\ call' = call /\ batch' = batch /\ stable' = stable
      /\ oldDegree' = oldDegree /\ queue' = queue /\ vertex' = vertex
  BY DEF FreeBlock
<1>2. Applying /\ Applying'
  BY <1>1 DEF Applying
<1>3. /\ CallKnown' /\ BatchCounted' /\ EdgesCounted'
      /\ Inserting' = Inserting /\ Erasing' = Erasing
      /\ \A v : Final(v)' = Final(v) /\ KeptLength(v)' = KeptLength(v)
  BY <1>1, <1>2, ApplyingKeeps
<1>4. DegreesFollow'
  <2>1. \A v : Settled(v)' /\ Settled(v)
    BY <1>1 DEF Settled
  <2> QED BY <2>1, <1>1, <1>2, <1>3 DEF GraphFollows, DegreesFollow
<1>5. ASSUME NEW v \in Vertices, NEW i \in 1 .. KeptLength(v) PROVE Value(v, i)' = Value(v, i)
  <2> DEFINE x == queue[next].old
             n == RoundupPow2(x.degree)
             p == vertex[v].ptr
             c == vertex[v].offset + i - 1
  <2>1. next \in DOMAIN queue /\ x \in VertexData
    <3>1. next \in DOMAIN queue
      BY <1>1, QueueEntries DEF Base, QueueConsistent
    <3> QED BY <3>1, QueueEntries DEF Base
  <2>2. i \in 1 .. vertex[v].degree
    BY <1>2, KeptBounds DEF Base
  <2>3. Cell(vertex[v], i) = <<p, c>>
    BY DEF Cell
  <2>4. p \in Ptr /\ c \in Cells
    <3>1. Cell(vertex[v], i) \in Ptr \X Cells
      BY <2>2 DEF CellsApart
    <3> QED BY <3>1, <2>3
  <2>5. mem'[p][c] = mem[p][c]
    <3>1. CASE x.degree = 0
      BY <3>1 DEF FreeBlock
    <3>2. CASE x.degree # 0
      <4>1. n \in Nat /\ x.offset \in Nat
        <5>1. x.degree \in Degrees
          BY <2>1, <3>2, HornetAssumption, SizesAssumption DEF VertexData, Degrees
        <5>2. n \in Sizes
          BY <5>1, RoundupType
        <5> QED BY <5>2, <2>1, SizesAssumption DEF VertexData
      <4>2. mem' = Forget(mem, x.ptr, x.offset, n)
        BY <3>2 DEF FreeBlock
      <4>3. ASSUME p = x.ptr, c \in x.offset .. x.offset + n - 1 PROVE FALSE
        <5> DEFINE j == c - x.offset + 1
        <5>1. c \in Nat
          BY <2>4, CellsType
        <5>2. x.offset <= c /\ c <= x.offset + n - 1
          BY <4>1, <4>3, <5>1
        <5>3. j \in Nat \ {0} /\ j <= n /\ x.offset + j - 1 = c
          <6> HIDE DEF n, x, c
          <6> QED BY <5>1, <5>2, <4>1
        <5> HIDE DEF j
        <5>4. Cell(x, j) = Cell(vertex[v], i)
          BY <5>3, <4>3, <2>3 DEF Cell
        <5>5. next >= next
          BY DEF Base, TypeOK
        <5>6. \A u \in Vertices : \A m \in 1 .. vertex[u].degree : Cell(x, j) # Cell(vertex[u], m)
          <6>1. \A k \in DOMAIN queue, h \in Nat \ {0} :
                   k >= next /\ queue[k].old.degree # 0 /\ h <= RoundupPow2(queue[k].old.degree) =>
                      \A u \in Vertices : \A m \in 1 .. vertex[u].degree :
                          Cell(queue[k].old, h) # Cell(vertex[u], m)
            BY <1>1 DEF CellsApart
          <6> QED BY <6>1, <5>3, <5>5, <2>1, <3>2
        <5> QED BY <5>4, <5>6, <2>2
      <4>4. Len([k \in 1 .. n |-> NoId]) = n
        <5> HIDE DEF n
        <5> QED BY <4>1
      <4> HIDE DEF p, c, n, x
      <4> QED BY <4>2, <4>3, <4>4, <2>4 DEF Forget, Write
    <3> QED BY <3>1, <3>2
  <2>6. Value(v, i)' = mem'[p][c]
    BY <1>1 DEF Value
  <2> QED BY <2>5, <2>6 DEF Value
<1>6. ListsFollow'
  BY <1>5, <1>1, <1>2, KeptFollows DEF Base
<1> QED BY <1>1, <1>3, <1>4, <1>6 DEF GraphFollows

-----------------------------------------------------------------------------
(* The end of an erase.                                                    *)

\* The number of edges of a graph is one.
LEMMA EdgeCountType ==
    ASSUME NEW l, IsGraph(l)
    PROVE  EdgeCount(l) \in Nat
<1>1. nV \in Nat
  BY HornetAssumption
<1>2. IsFiniteSet(Edges)
  <2>1. IsFiniteSet(Vertices)
    BY <1>1, FS_Interval DEF Vertices
  <2> QED BY <2>1, FS_Product DEF Edges
<1>3. CopiesOf(l) \in [Edges -> Nat]
  BY CopiesType
<1>4. Cardinality(Filled(Edges, CopiesOf(l))) \in Nat
  BY <1>2, <1>3, FilledIsZero
<1> QED BY <1>4, EdgesAreCopies

\* A batch that has none of the edges of a source has no copy of its edges.
LEMMA NoTimes ==
    ASSUME NEW b \in Seq(Edges), NEW v, v \notin Sources(b), NEW d
    PROVE  Times(b, <<v, d>>) = 0 /\ Where(b, <<v, d>>) = {}
<1>1. \A i \in DOMAIN b : b[i] # <<v, d>>
  BY DEF Sources
<1> QED BY <1>1, TimesType DEF Where

\* What an erase leaves of the lists: each edge has as many copies less as the
\* batch has.
LEMMA EraseDoneEffect ==
    ASSUME Base, Base', GraphFollows, EraseDone
    PROVE  /\ pc' = "idle" /\ IsGraph(stable') /\ nE' = EdgeCount(stable') /\ Erasing
           /\ \A e \in Edges : Times(stable[e[1]], e[2]) = Times(stable'[e[1]], e[2]) + Times(batch, e)
           /\ GraphFollows'
<1>1. /\ pc = "free" /\ pc' = "idle" /\ call.op = "erase" /\ nE' = nE /\ vertex' = vertex
      /\ mem' = mem /\ stable' = Adjacency'
  BY DEF EraseDone, Return
<1>2. Applying /\ Erasing /\ ~Inserting
  BY <1>1 DEF Applying, Erasing, Inserting
<1>3. IsGraph(stable) /\ batch \in Seq(Edges)
  BY DEF GraphFollows, Base, TypeOK
<1>4. ASSUME NEW v \in Vertices
      PROVE  /\ stable'[v] \in Seq(Vertices) /\ Len(stable'[v]) <= MaxDegree
             /\ \A d \in Vertices :
                   Times(stable[v], d) = Times(stable'[v], d) + Times(batch, <<v, d>>)
  <2>1. Settled(v)
    BY <1>1 DEF Settled
  <2>2. vertex[v].degree = Final(v) /\ Final(v) \in 0 .. MaxDegree /\ MaxDegree \in Nat
    BY <2>1, <1>1, <1>2, HornetAssumption, SizesAssumption DEF GraphFollows, DegreesFollow
  <2>3. KeptLength(v) = Final(v)
    BY <1>2 DEF KeptLength
  <2>4. stable'[v] = Kept(v)
    BY <1>1, <2>2, <2>3 DEF Adjacency, List, Kept, Value
  <2>5. Len(Kept(v)) = Final(v)
    BY <2>2, <2>3 DEF Kept
  <2>6. CASE v \in Sources(batch)
    <3>1. /\ Kept(v) \in Seq(Vertices)
          /\ \A d \in Vertices :
                Times(stable[v], d) = Times(Kept(v), d) + Times(batch, <<v, d>>)
      BY <2>6, <1>1, <1>2 DEF GraphFollows, ListsFollow
    <3> QED BY <3>1, <2>2, <2>4, <2>5
  <2>7. CASE v \notin Sources(batch)
    <3>1. stable[v] \in Seq(Vertices)
      BY <1>3 DEF IsGraph
    <3>2. Requested(batch, v) = 0
      BY <2>7, <1>3, NotRequested
    <3>3. Final(v) = Len(stable[v])
      BY <3>1, <3>2, <1>1 DEF Final
    <3>4. \A i \in 1 .. Len(stable[v]) : Value(v, i) = stable[v][i]
      BY <2>7, <1>1, <1>2 DEF GraphFollows, ListsFollow
    <3>5. Kept(v) = stable[v]
      BY <3>1, <3>3, <3>4, <2>3 DEF Kept
    <3>6. \A d \in Vertices : Times(batch, <<v, d>>) = 0 /\ Times(stable[v], d) \in Nat
      BY <2>7, <3>1, <1>3, NoTimes, TimesType
    <3> QED BY <3>1, <3>5, <3>6, <2>2, <2>4, <2>5
  <2> QED BY <2>6, <2>7
<1>5. stable' \in [Vertices -> Seq(Vertices)]
  <2>1. stable' = [v \in Vertices |-> stable'[v]]
    BY <1>1 DEF Adjacency
  <2> QED BY <2>1, <1>4
<1>6. IsGraph(stable')
  BY <1>4, <1>5 DEF IsGraph
<1>7. \A e \in Edges : Times(stable[e[1]], e[2]) = Times(stable'[e[1]], e[2]) + Times(batch, e)
  <2> SUFFICES ASSUME NEW e \in Edges
               PROVE  Times(stable[e[1]], e[2]) = Times(stable'[e[1]], e[2]) + Times(batch, e)
    OBVIOUS
  <2>1. e[1] \in Vertices /\ e[2] \in Vertices /\ e = <<e[1], e[2]>>
    BY DEF Edges
  <2>2. Times(stable[e[1]], e[2]) = Times(stable'[e[1]], e[2]) + Times(batch, <<e[1], e[2]>>)
    BY <2>1, <1>4
  <2> QED BY <2>1, <2>2
<1>8. nE' = EdgeCount(stable')
  <2>1. EdgeCount(stable) = EdgeCount(stable') + Len(batch)
    BY <1>3, <1>6, <1>7, EdgesGrow
  <2>2. nE = EdgeCount(stable) - Len(batch)
    BY <1>2 DEF GraphFollows, EdgesCounted
  <2>3. EdgeCount(stable') \in Nat /\ Len(batch) \in Nat
    BY <1>3, <1>6, EdgeCountType
  <2> QED BY <2>1, <2>2, <2>3, <1>1
<1>9. GraphFollows'
  BY <1>1, <1>6, <1>8, ReturnFollows DEF Base
<1> QED BY <1>1, <1>2, <1>6, <1>7, <1>8, <1>9

\* List t is list s with r more behind it, of which those that are d are at the
\* places where batch b has edge e, all of them between f and f + r - 1.
Grown(s, t, b, e, d, f, r) ==
    /\ Len(t) = Len(s) + r
    /\ \A i \in 1 .. Len(s) : t[i] = s[i]
    /\ \A i \in 1 .. r : t[Len(s) + i] = d <=> b[f + i - 1] = e
    /\ Where(b, e) \subseteq f .. f + r - 1
    /\ f .. f + r - 1 \subseteq DOMAIN b

\* A list with the destinations of a batch behind has the copies of both.
LEMMA GrownTimes ==
    ASSUME NEW s \in Seq(Vertices), NEW t \in Seq(Vertices), NEW b \in Seq(Edges),
           NEW e, NEW d, NEW r \in Nat, NEW f \in Nat, Grown(s, t, b, e, d, f, r)
    PROVE  Times(t, d) = Times(s, d) + Times(b, e)
<1> DEFINE n == Len(s)
           V == {i \in Where(t, d) : i > n}
           g == [i \in V |-> f + i - n - 1]
<1>1. /\ n \in Nat /\ DOMAIN s = 1 .. n /\ DOMAIN t = 1 .. n + r
  BY DEF Grown
<1>2. /\ IsFiniteSet(Where(s, d)) /\ IsFiniteSet(Where(t, d)) /\ IsFiniteSet(Where(b, e))
      /\ Where(s, d) \subseteq DOMAIN s /\ Where(t, d) \subseteq DOMAIN t
      /\ Where(b, e) \subseteq DOMAIN b
      /\ Times(s, d) \in Nat
  BY TimesType
<1>3. Where(t, d) = Where(s, d) \cup V /\ Where(s, d) \cap V = {}
  <2>1. \A i \in 1 .. n : i \in Where(t, d) <=> i \in Where(s, d)
    BY <1>1 DEF Where, Grown
  <2>2. \A i \in Where(t, d) : i > n \/ i \in 1 .. n
    BY <1>1, <1>2
  <2>3. \A i \in Where(s, d) : i \in 1 .. n /\ ~(i > n)
    BY <1>1, <1>2
  <2> QED BY <2>1, <2>2, <2>3
<1>4. \A i \in V : i - n \in 1 .. r /\ i = n + (i - n) /\ t[i] = d
  BY <1>1, <1>2 DEF Where
<1>5. \A i \in V : g[i] \in Where(b, e)
  <2> SUFFICES ASSUME NEW i \in V PROVE g[i] \in Where(b, e)
    OBVIOUS
  <2>1. i - n \in 1 .. r /\ t[n + (i - n)] = d
    BY <1>4
  <2>2. b[f + (i - n) - 1] = e /\ f + (i - n) - 1 \in f .. f + r - 1
    BY <2>1 DEF Grown
  <2>3. g[i] = f + (i - n) - 1
    BY <1>1, <1>4
  <2> QED BY <2>2, <2>3 DEF Where, Grown
<1>6. \A i, j \in V : g[i] = g[j] => i = j
  BY <1>1, <1>4
<1>7. \A k \in Where(b, e) : \E i \in V : g[i] = k
  <2> SUFFICES ASSUME NEW k \in Where(b, e) PROVE \E i \in V : g[i] = k
    OBVIOUS
  <2>1. k \in f .. f + r - 1 /\ b[k] = e
    BY DEF Where, Grown
  <2>2. k - f + 1 \in 1 .. r /\ f + (k - f + 1) - 1 = k
    BY <2>1
  <2>3. t[n + (k - f + 1)] = d
    BY <2>1, <2>2 DEF Grown
  <2>4. n + (k - f + 1) \in V
    <3> DEFINE h == k - f + 1
    <3>1. h \in 1 .. r
      BY <2>2
    <3> HIDE DEF h
    <3>2. n + h \in 1 .. n + r /\ n + h > n
      BY <3>1, <1>1
    <3>3. n + h \in V
      BY <3>2, <2>3, <1>1 DEF Where, h
    <3> QED BY <3>3 DEF h
  <2>5. g[n + (k - f + 1)] = k
    BY <2>1, <2>4, <1>1
  <2> QED BY <2>4, <2>5
<1>8. g \in Bijection(V, Where(b, e))
  <2>1. g \in [V -> Where(b, e)]
    BY <1>5
  <2> HIDE DEF g, V
  <2> QED BY <2>1, <1>6, <1>7 DEF Bijection, Injection, Surjection, IsInjective
<1> HIDE DEF g, V
<1>9. IsFiniteSet(V) /\ Cardinality(V) = Times(b, e)
  BY <1>2, <1>8, SameCount DEF Times
<1>10. Cardinality(Where(t, d)) = Cardinality(Where(s, d)) + Cardinality(V) - Cardinality(Where(s, d) \cap V)
  BY <1>2, <1>3, <1>9, FS_Union
<1>11. Cardinality(Where(s, d) \cap V) = 0
  BY <1>3, FS_EmptySet
<1>12. Times(b, e) \in Nat
  BY TimesType
<1> QED BY <1>2, <1>9, <1>10, <1>11, <1>12 DEF Times

-----------------------------------------------------------------------------
(* The end of an insert.                                                   *)

\* appendBatchEdges leaves every list as it was and puts the destinations that the
\* batch has for it behind, in the order of the batch.
LEMMA AppendedLists ==
    ASSUME Base, CellsApart, GraphFollows, AppendBatchEdges
    PROVE  /\ pc' = "idle" /\ nE' = nE /\ stable' = Adjacency' /\ Inserting /\ InOrder(batch)
           /\ \A v \in Vertices :
                 /\ Len(stable'[v]) = Len(stable[v]) + Requested(batch, v)
                 /\ Len(stable'[v]) \in 0 .. MaxDegree
                 /\ DOMAIN stable'[v] = 1 .. Len(stable'[v])
                 /\ \A i \in 1 .. Len(stable[v]) : stable'[v][i] = stable[v][i]
                 /\ \A i \in 1 .. Requested(batch, v) :
                       stable'[v][Len(stable[v]) + i] = batch[First(batch, v) + i - 1][2]
<1>1. /\ pc = "free" /\ pc' = "idle" /\ call.op = "insert" /\ nE' = nE /\ vertex' = vertex
      /\ stable' = Adjacency' /\ batch \in Seq(Edges)
      /\ mem' = [p \in Ptr |-> [c \in Cells |->
                  IF \E i \in DOMAIN batch : AppendedAt(i, p, c)
                  THEN batch[CHOOSE i \in DOMAIN batch : AppendedAt(i, p, c)][2]
                  ELSE mem[p][c]]]
  BY DEF AppendBatchEdges, Return, Base, TypeOK
<1>2. Applying /\ Inserting /\ ~Erasing
  BY <1>1 DEF Applying, Erasing, Inserting
<1>3. InOrder(batch)
  BY <1>2 DEF GraphFollows, BatchCounted
<1>4. todo = {}
  BY <1>1 DEF GraphFollows, DegreesFollow
<1>5. ASSUME NEW v \in Vertices
      PROVE  /\ vertex[v].degree = Len(stable[v]) + Requested(batch, v)
             /\ Len(stable[v]) \in Nat /\ Requested(batch, v) \in Nat
             /\ vertex[v].degree \in 0 .. MaxDegree /\ vertex[v].offset \in Nat
             /\ MaxDegree \in Nat
  <2>1. Settled(v)
    BY <1>1 DEF Settled
  <2>2. vertex[v].degree = Final(v)
    BY <2>1, <1>1, <1>2 DEF GraphFollows, DegreesFollow
  <2>3. Final(v) = Len(stable[v]) + Requested(batch, v)
    BY <1>1 DEF Final
  <2>4. /\ Len(stable[v]) \in Nat /\ Requested(batch, v) \in Nat /\ vertex[v] \in VertexData
        /\ MaxDegree \in Nat
    BY LengthTypes DEF Base
  <2> QED BY <2>2, <2>3, <2>4 DEF VertexData
<1> DEFINE Place(i) == Len(stable[batch[i][1]]) + i - First(batch, batch[i][1]) + 1
<1>6. ASSUME NEW i \in DOMAIN batch
      PROVE  /\ batch[i][1] \in Vertices /\ batch[i][1] \in Sources(batch)
             /\ oldDegree[batch[i][1]] = Len(stable[batch[i][1]])
             /\ i \in Int /\ First(batch, batch[i][1]) \in Int
             /\ Place(i) \in Len(stable[batch[i][1]]) + 1 .. vertex[batch[i][1]].degree
             /\ \A p, c : AppendedAt(i, p, c) <=> Cell(vertex[batch[i][1]], Place(i)) = <<p, c>>
  <2> DEFINE s == batch[i][1]
             n == Len(stable[s])
             r == Requested(batch, s)
             f == First(batch, s)
  <2>1. batch[i] \in Edges /\ s \in Vertices /\ s \in Sources(batch)
    BY <1>1 DEF Edges, Sources
  <2>2. oldDegree[s] = n
    BY <2>1, <1>2, <1>4 DEF GraphFollows, DegreesFollow
  <2>3. f \in DOMAIN batch /\ r \in Nat /\ At(batch, s) = f .. f + r - 1
    BY <2>1, <1>1, <1>3, Segment
  <2>4. i \in f .. f + r - 1 /\ f \in Int /\ i \in Int
    <3>1. i \in At(batch, s) /\ DOMAIN batch = 1 .. Len(batch)
      BY <1>1 DEF At
    <3> QED BY <3>1, <2>3
  <2>5. n \in Nat /\ vertex[s].degree = n + r /\ vertex[s].offset \in Nat
    BY <2>1, <1>5
  <2>6. Place(i) \in n + 1 .. vertex[s].degree
    <3>1. Place(i) = n + i - f + 1
      OBVIOUS
    <3> HIDE DEF Place, s, n, r, f
    <3> QED BY <3>1, <2>3, <2>4, <2>5
  <2>7. ASSUME NEW p, NEW c
        PROVE  AppendedAt(i, p, c) <=> Cell(vertex[s], Place(i)) = <<p, c>>
    <3>1. AppendedAt(i, p, c) <=> p = vertex[s].ptr /\ c = vertex[s].offset + n + i - f
      BY <2>2 DEF AppendedAt
    <3>2. vertex[s].offset + n + i - f = vertex[s].offset + Place(i) - 1
      <4>1. Place(i) = n + i - f + 1
        OBVIOUS
      <4> HIDE DEF Place, s, n, r, f
      <4> QED BY <4>1, <2>4, <2>5
    <3> HIDE DEF Place, s, n, r, f
    <3> QED BY <3>1, <3>2 DEF Cell
  <2> QED BY <2>1, <2>2, <2>4, <2>6, <2>7
<1>7. ASSUME NEW v \in Vertices, NEW j \in 1 .. Len(stable[v])
      PROVE  Value(v, j)' = stable[v][j]
  <2> DEFINE p == vertex[v].ptr
             c == vertex[v].offset + j - 1
  <2>1. j \in 1 .. vertex[v].degree /\ Cell(vertex[v], j) = <<p, c>>
    BY <1>5 DEF Cell
  <2>2. p \in Ptr /\ c \in Cells
    <3>1. Cell(vertex[v], j) \in Ptr \X Cells
      BY <2>1 DEF CellsApart
    <3> QED BY <3>1, <2>1
  <2>3. ASSUME NEW i \in DOMAIN batch, AppendedAt(i, p, c) PROVE FALSE
    <3>1. /\ Cell(vertex[batch[i][1]], Place(i)) = Cell(vertex[v], j)
          /\ Place(i) \in Len(stable[batch[i][1]]) + 1 .. vertex[batch[i][1]].degree
          /\ batch[i][1] \in Vertices
      BY <2>1, <2>3, <1>6
    <3>2. Len(stable[batch[i][1]]) \in Nat
      BY <3>1, <1>5
    <3> HIDE DEF Place, p, c
    <3>3. Place(i) \in 1 .. vertex[batch[i][1]].degree
      BY <3>1, <3>2
    <3>4. batch[i][1] = v /\ Place(i) = j
      BY <3>1, <3>3, <2>1 DEF CellsApart
    <3> QED BY <3>1, <3>2, <3>4
  <2>4. mem'[p][c] = mem[p][c]
    <3> HIDE DEF p, c
    <3> QED BY <2>2, <2>3, <1>1
  <2>5. Value(v, j)' = mem'[p][c] /\ Value(v, j) = mem[p][c]
    BY <1>1 DEF Value
  <2>6. Value(v, j) = stable[v][j]
    BY <1>1, <1>2 DEF GraphFollows, ListsFollow
  <2> QED BY <2>4, <2>5, <2>6
<1>8. ASSUME NEW v \in Vertices, NEW m \in 1 .. Requested(batch, v),
             NEW n, n = Len(stable[v])
      PROVE  Value(v, n + m)' = batch[First(batch, v) + m - 1][2]
  <2>0. n \in Nat
    BY <1>5, <1>8
  <2> DEFINE f == First(batch, v)
             i == f + m - 1
             p == vertex[v].ptr
             c == vertex[v].offset + (n + m) - 1
  <2>1. v \in Sources(batch)
    <3>1. v \notin Sources(batch) => Requested(batch, v) = 0
      BY <1>1, NotRequested
    <3> QED BY <3>1, <1>5
  <2>2. f \in DOMAIN batch /\ At(batch, v) = f .. f + Requested(batch, v) - 1
    BY <2>1, <1>1, <1>3, Segment
  <2>3. i \in At(batch, v) /\ i \in DOMAIN batch /\ batch[i][1] = v /\ f \in Int
    <3>1. f \in Int
      BY <2>2, <1>1
    <3>2. i \in f .. f + Requested(batch, v) - 1
      <4> HIDE DEF f
      <4> QED BY <3>1, <1>5
    <3> HIDE DEF i
    <3> QED BY <3>1, <3>2, <2>2 DEF At
  <2>4. Place(i) = n + m
    <3>1. Place(i) = n + i - f + 1
      BY <2>3, <1>8
    <3> HIDE DEF f, Place
    <3> QED BY <3>1, <2>0, <2>3, <1>5
  <2>5. n + m \in 1 .. vertex[v].degree /\ Cell(vertex[v], n + m) = <<p, c>>
    BY <1>5, <1>8 DEF Cell
  <2>6. p \in Ptr /\ c \in Cells
    <3>1. Cell(vertex[v], n + m) \in Ptr \X Cells
      BY <2>5 DEF CellsApart
    <3> QED BY <3>1, <2>5
  <2> HIDE DEF i, p, c, Place, f
  <2>7. AppendedAt(i, p, c)
    BY <2>3, <2>4, <2>5, <1>6
  <2>8. ASSUME NEW j \in DOMAIN batch, AppendedAt(j, p, c) PROVE j = i
    <3>1. /\ Cell(vertex[batch[j][1]], Place(j)) = <<p, c>>
          /\ Place(j) \in Len(stable[batch[j][1]]) + 1 .. vertex[batch[j][1]].degree
          /\ batch[j][1] \in Vertices
      BY <2>8, <1>6
    <3>2. Len(stable[batch[j][1]]) \in Nat
      BY <3>1, <1>5
    <3>3. Place(j) \in 1 .. vertex[batch[j][1]].degree
      BY <3>1, <3>2
    <3>4. batch[j][1] = v /\ Place(j) = n + m
      BY <3>1, <3>3, <2>5 DEF CellsApart
    <3>5. n + j - f + 1 = n + i - f + 1
      BY <3>4, <2>3, <2>4, <1>8 DEF Place, f
    <3>6. j \in Int /\ i \in Int
      BY <1>6, <2>3
    <3> QED BY <3>5, <3>6, <2>0, <2>3
  <2>9. (CHOOSE j \in DOMAIN batch : AppendedAt(j, p, c)) = i
    BY <2>3, <2>7, <2>8
  <2>10. mem'[p][c] = batch[i][2]
    BY <2>3, <2>6, <2>7, <2>9, <1>1
  <2>11. Value(v, n + m)' = mem'[p][c]
    BY <1>1 DEF Value, p, c
  <2> QED BY <2>10, <2>11 DEF i, f
<1>9. ASSUME NEW v \in Vertices
      PROVE  /\ Len(stable'[v]) = Len(stable[v]) + Requested(batch, v)
             /\ Len(stable'[v]) \in 0 .. MaxDegree
             /\ DOMAIN stable'[v] = 1 .. Len(stable'[v])
             /\ \A i \in 1 .. Len(stable[v]) : stable'[v][i] = stable[v][i]
             /\ \A i \in 1 .. Requested(batch, v) :
                   stable'[v][Len(stable[v]) + i] = batch[First(batch, v) + i - 1][2]
  <2>1. stable'[v] = [i \in 1 .. vertex[v].degree |-> Value(v, i)']
    BY <1>1 DEF Adjacency, List, Value
  <2>2. PICK n : n = Len(stable[v])
    OBVIOUS
  <2>3. \A i \in 1 .. Requested(batch, v) : Value(v, n + i)' = batch[First(batch, v) + i - 1][2]
    BY <2>2, <1>8
  <2>4. \A i \in 1 .. n : Value(v, i)' = stable[v][i]
    BY <2>2, <1>7
  <2>5. /\ n \in Nat /\ Requested(batch, v) \in Nat
        /\ vertex[v].degree = n + Requested(batch, v) /\ vertex[v].degree \in 0 .. MaxDegree
        /\ MaxDegree \in Nat
    BY <2>2, <1>5
  <2>6. /\ Len(stable'[v]) = n + Requested(batch, v) /\ Len(stable'[v]) = vertex[v].degree
        /\ DOMAIN stable'[v] = 1 .. Len(stable'[v])
    BY <2>1, <2>5
  <2>7. \A i \in 1 .. vertex[v].degree : stable'[v][i] = Value(v, i)'
    BY <2>1
  <2>8. \A i \in 1 .. n : stable'[v][i] = stable[v][i]
    BY <2>4, <2>5, <2>7
  <2>9. \A i \in 1 .. Requested(batch, v) : stable'[v][n + i] = Value(v, n + i)'
    <3> SUFFICES ASSUME NEW i \in 1 .. Requested(batch, v)
                 PROVE  stable'[v][n + i] = Value(v, n + i)'
      OBVIOUS
    <3>1. n + i \in 1 .. vertex[v].degree
      BY <2>5
    <3> QED BY <3>1, <2>7
  <2> QED BY <2>2, <2>3, <2>5, <2>6, <2>8, <2>9
<1> QED BY <1>1, <1>2, <1>3, <1>9

\* What an insert leaves of the lists: each edge has as many copies more as the
\* batch has.
LEMMA AppendEffect ==
    ASSUME Base, Base', CellsApart, GraphFollows, AppendBatchEdges
    PROVE  /\ pc' = "idle" /\ IsGraph(stable') /\ nE' = EdgeCount(stable') /\ Inserting
           /\ \A e \in Edges : Times(stable'[e[1]], e[2]) = Times(stable[e[1]], e[2]) + Times(batch, e)
           /\ GraphFollows'
<1>1. /\ pc' = "idle" /\ nE' = nE /\ stable' = Adjacency' /\ Inserting /\ InOrder(batch)
      /\ batch \in Seq(Edges) /\ IsGraph(stable)
  BY AppendedLists DEF Base, TypeOK, GraphFollows
<1>2. ASSUME NEW v \in Vertices
      PROVE  /\ Len(stable'[v]) = Len(stable[v]) + Requested(batch, v)
             /\ Len(stable'[v]) \in 0 .. MaxDegree
             /\ DOMAIN stable'[v] = 1 .. Len(stable'[v])
             /\ \A i \in 1 .. Len(stable[v]) : stable'[v][i] = stable[v][i]
             /\ \A i \in 1 .. Requested(batch, v) :
                   stable'[v][Len(stable[v]) + i] = batch[First(batch, v) + i - 1][2]
  BY AppendedLists
<1>3. ASSUME NEW v \in Vertices
      PROVE  /\ stable[v] \in Seq(Vertices) /\ Len(stable[v]) \in Nat
             /\ DOMAIN stable[v] = 1 .. Len(stable[v])
             /\ Requested(batch, v) \in Nat /\ MaxDegree \in Nat
  BY LengthTypes DEF Base
\* The batch positions of the edges of a vertex.
<1>4. ASSUME NEW v \in Vertices
      PROVE  \E f \in Nat :
                /\ f .. f + Requested(batch, v) - 1 \subseteq DOMAIN batch
                /\ At(batch, v) = f .. f + Requested(batch, v) - 1
                /\ \A i \in 1 .. Requested(batch, v) :
                      stable'[v][Len(stable[v]) + i] = batch[f + i - 1][2]
  <2>1. CASE v \in Sources(batch)
    <3> DEFINE f == First(batch, v)
    <3>1. f \in DOMAIN batch /\ At(batch, v) = f .. f + Requested(batch, v) - 1
      BY <2>1, <1>1, Segment
    <3>2. f \in Nat /\ At(batch, v) \subseteq DOMAIN batch
      BY <3>1, <1>1 DEF At
    <3>3. \A i \in 1 .. Requested(batch, v) :
             stable'[v][Len(stable[v]) + i] = batch[f + i - 1][2]
      BY <1>2
    <3> HIDE DEF f
    <3> QED BY <3>1, <3>2, <3>3
  <2>2. CASE v \notin Sources(batch)
    <3>1. Requested(batch, v) = 0 /\ At(batch, v) = {}
      BY <2>2, <1>1, NotRequested
    <3>2. 1 .. 1 + Requested(batch, v) - 1 = {} /\ 1 .. Requested(batch, v) = {}
      BY <3>1
    <3>3. WITNESS 1 \in Nat
    <3> QED BY <3>1, <3>2
  <2> QED BY <2>1, <2>2
<1>5. ASSUME NEW v \in Vertices, NEW j \in DOMAIN stable'[v] PROVE stable'[v][j] \in Vertices
  <2>1. CASE j \in 1 .. Len(stable[v])
    <3>1. stable[v][j] \in Vertices
      BY <2>1, <1>3
    <3>2. stable'[v][j] = stable[v][j]
      BY <2>1, <1>2
    <3> QED BY <3>1, <3>2
  <2>2. CASE j \notin 1 .. Len(stable[v])
    <3>1. PICK i \in 1 .. Requested(batch, v) : j = Len(stable[v]) + i
      <4>1. j \in 1 .. Len(stable[v]) + Requested(batch, v)
        BY <1>2
      <4>2. j - Len(stable[v]) \in 1 .. Requested(batch, v)
            /\ j = Len(stable[v]) + (j - Len(stable[v]))
        BY <4>1, <2>2, <1>3
      <4> QED BY <4>2
    <3>2. PICK f \in Nat :
             /\ f .. f + Requested(batch, v) - 1 \subseteq DOMAIN batch
             /\ stable'[v][Len(stable[v]) + i] = batch[f + i - 1][2]
      BY <1>4
    <3>3. f + i - 1 \in DOMAIN batch
      <4>1. f + i - 1 \in f .. f + Requested(batch, v) - 1
        BY <1>3
      <4> QED BY <4>1, <3>2
    <3>4. batch[f + i - 1] \in Edges
      BY <3>3, <1>1
    <3> QED BY <3>1, <3>2, <3>4 DEF Edges
  <2> QED BY <2>1, <2>2
<1>6. ASSUME NEW v \in Vertices PROVE stable'[v] \in Seq(Vertices)
  <2>1. stable'[v] = [j \in 1 .. vertex'[v].degree |-> Value(v, j)']
    BY <1>1 DEF Adjacency, List, Value
  <2>2. stable'[v] = [j \in DOMAIN stable'[v] |-> stable'[v][j]]
    BY <2>1
  <2>3. stable'[v] \in [1 .. Len(stable'[v]) -> Vertices]
    BY <2>2, <1>2, <1>5
  <2>4. Len(stable'[v]) \in Nat
    BY <1>2, <1>3
  <2> QED BY <2>3, <2>4, FunctionSequence
<1>7. IsGraph(stable')
  <2>1. stable' = [v \in Vertices |-> stable'[v]]
    BY <1>1 DEF Adjacency
  <2>2. \A v \in Vertices : Len(stable'[v]) <= MaxDegree
    BY <1>2, <1>3
  <2> QED BY <2>1, <2>2, <1>6 DEF IsGraph
<1>8. ASSUME NEW v \in Vertices, NEW d \in Vertices
      PROVE  Times(stable'[v], d) = Times(stable[v], d) + Times(batch, <<v, d>>)
  <2>1. PICK f \in Nat :
           /\ f .. f + Requested(batch, v) - 1 \subseteq DOMAIN batch
           /\ At(batch, v) = f .. f + Requested(batch, v) - 1
           /\ \A i \in 1 .. Requested(batch, v) :
                 stable'[v][Len(stable[v]) + i] = batch[f + i - 1][2]
    BY <1>4
  <2> DEFINE e == <<v, d>>
  <2>2. Where(batch, e) \subseteq f .. f + Requested(batch, v) - 1
    BY <2>1 DEF Where, At
  <2>3. ASSUME NEW i \in 1 .. Requested(batch, v)
        PROVE  stable'[v][Len(stable[v]) + i] = d <=> batch[f + i - 1] = e
    <3>1. f + i - 1 \in f .. f + Requested(batch, v) - 1
      BY <1>3
    <3>2. f + i - 1 \in DOMAIN batch /\ batch[f + i - 1][1] = v
      BY <3>1, <2>1 DEF At
    <3>3. batch[f + i - 1] \in Edges
      BY <3>2, <1>1
    <3> QED BY <3>2, <3>3, <2>1 DEF Edges
  <2> HIDE DEF e
  <2>4. Times(stable'[v], d) = Times(stable[v], d) + Times(batch, e)
    <3>1. PICK s, t, r : s = stable[v] /\ t = stable'[v] /\ r = Requested(batch, v)
      OBVIOUS
    <3>2. /\ s \in Seq(Vertices) /\ t \in Seq(Vertices) /\ r \in Nat /\ Len(t) = Len(s) + r
          /\ \A i \in 1 .. Len(s) : t[i] = s[i]
      BY <3>1, <1>2, <1>3, <1>6
    <3>3. /\ \A i \in 1 .. r : t[Len(s) + i] = d <=> batch[f + i - 1] = e
          /\ Where(batch, e) \subseteq f .. f + r - 1
          /\ f .. f + r - 1 \subseteq DOMAIN batch
      BY <3>1, <2>1, <2>2, <2>3
    <3>4. batch \in Seq(Edges) /\ f \in Nat
      BY <1>1
    <3>5. Grown(s, t, batch, e, d, f, r)
      BY <3>2, <3>3 DEF Grown
    <3>6. Times(t, d) = Times(s, d) + Times(batch, e)
      BY <3>2, <3>4, <3>5, GrownTimes
    <3> QED BY <3>1, <3>6
  <2> QED BY <2>4 DEF e
<1>9. \A e \in Edges : Times(stable'[e[1]], e[2]) = Times(stable[e[1]], e[2]) + Times(batch, e)
  <2> SUFFICES ASSUME NEW e \in Edges
               PROVE  Times(stable'[e[1]], e[2]) = Times(stable[e[1]], e[2]) + Times(batch, e)
    OBVIOUS
  <2>1. e[1] \in Vertices /\ e[2] \in Vertices /\ e = <<e[1], e[2]>>
    BY DEF Edges
  <2>2. Times(stable'[e[1]], e[2]) = Times(stable[e[1]], e[2]) + Times(batch, <<e[1], e[2]>>)
    BY <2>1, <1>8
  <2> QED BY <2>1, <2>2
<1>10. nE' = EdgeCount(stable')
  <2>1. EdgeCount(stable') = EdgeCount(stable) + Len(batch)
    BY <1>1, <1>7, <1>9, EdgesGrow
  <2>2. nE = EdgeCount(stable) + Len(batch)
    BY <1>1 DEF GraphFollows, EdgesCounted
  <2> QED BY <2>1, <2>2, <1>1
<1>11. GraphFollows'
  BY <1>1, <1>7, <1>10, ReturnFollows DEF Base
<1> QED BY <1>1, <1>7, <1>9, <1>10, <1>11

-----------------------------------------------------------------------------
(* Where the edges to erase are.                                           *)

\* The matches of an edge between calls are its copies in the graph.
LEMMA MatchesAreCopies ==
    ASSUME TypeOK, GraphFollows, ~Applying, pc # "load", NEW e \in Edges
    PROVE  IsFiniteSet(Matches(e)) /\ Cardinality(Matches(e)) = Times(stable[e[1]], e[2])
<1> DEFINE s == stable[e[1]]
           g == [o \in Matches(e) |-> o + 1]
<1>1. e[1] \in Vertices
  BY DEF Edges
<1>2. Adjacency = stable /\ vertex[e[1]].degree = Len(s)
  BY <1>1, QuietLists
<1>3. s \in Seq(Vertices) /\ Len(s) \in Nat /\ DOMAIN s = 1 .. Len(s)
  BY <1>1, LengthTypes
<1>4. Matches(e) = {o \in 0 .. Len(s) - 1 : s[o + 1] = e[2]}
  BY <1>2 DEF Matches
<1> HIDE DEF s
<1>5. \A o \in Matches(e) : g[o] \in Where(s, e[2])
  BY <1>3, <1>4 DEF Where
<1>6. \A o, q \in Matches(e) : g[o] = g[q] => o = q
  BY <1>3, <1>4
<1>7. ASSUME NEW k \in Where(s, e[2]) PROVE \E o \in Matches(e) : g[o] = k
  <2>1. k \in 1 .. Len(s) /\ s[k] = e[2]
    BY <1>3 DEF Where
  <2>2. k - 1 \in 0 .. Len(s) - 1 /\ (k - 1) + 1 = k
    BY <2>1, <1>3
  <2>3. k - 1 \in Matches(e)
    BY <2>1, <2>2, <1>4
  <2>4. g[k - 1] = k
    BY <2>2, <2>3
  <2> QED BY <2>3, <2>4
<1>8. g \in Bijection(Matches(e), Where(s, e[2]))
  <2>1. g \in [Matches(e) -> Where(s, e[2])]
    BY <1>5
  <2> HIDE DEF g
  <2> QED BY <2>1, <1>6, <1>7 DEF Bijection, Injection, Surjection, IsInjective
<1>9. IsFiniteSet(Where(s, e[2]))
  BY <1>3, TimesType
<1> HIDE DEF g
<1>10. IsFiniteSet(Matches(e)) /\ Cardinality(Matches(e)) = Cardinality(Where(s, e[2]))
  BY <1>8, <1>9, SameCount
<1> QED BY <1>10 DEF Times, s

\* The slots of a batch edge are as many as the batch has copies of it, and no
\* more than the graph has.
LEMMA SlotsOf ==
    ASSUME TypeOK, GraphFollows, pc = "locate", NEW e \in Edges
    PROVE  Cardinality(Slots \cap Where(batch, e))
             = Graph!Least(Times(stable[e[1]], e[2]), Times(call.edges, e))
<1> DEFINE J == Where(batch, e)
           m == Times(stable[e[1]], e[2])
           T == {j \in J : Cardinality({i \in J : i >= j}) <= m}
<1>1. ~Applying /\ batch \in Seq(Edges) /\ DOMAIN batch \in SUBSET Nat
  BY DEF Applying, TypeOK
<1>2. /\ batch = Sorted(call.edges) /\ call.edges \in Seq(Edges)
  BY HornetAssumption DEF GraphFollows, BatchCounted, CallKnown
<1>3. Cardinality(J) = Times(call.edges, e) /\ Cardinality(J) \in Nat
  <2>1. Times(batch, e) = Times(call.edges, e)
    BY <1>2, SortedTimes
  <2>2. Times(batch, e) \in Nat
    BY <1>1, TimesType
  <2> QED BY <2>1, <2>2 DEF Times
<1>4. J \in SUBSET Nat /\ IsFiniteSet(J) /\ J \subseteq DOMAIN batch
  <2>1. J \in SUBSET DOMAIN batch /\ IsFiniteSet(J)
    BY <1>1, TimesType
  <2> QED BY <2>1, <1>1
<1>5. m \in Nat /\ Cardinality(Matches(e)) = m
  <2>1. e[1] \in Vertices
    BY DEF Edges
  <2>2. stable[e[1]] \in Seq(Vertices)
    BY <2>1, LengthTypes
  <2> QED BY <2>2, <1>1, MatchesAreCopies, TimesType
<1>6. Slots \cap J = T
  <2>1. ASSUME NEW j \in J
        PROVE  j \in Slots <=> Cardinality({i \in J : i >= j}) <= m
    <3>1. batch[j] = e /\ j \in DOMAIN batch
      BY DEF Where
    <3>2. {i \in DOMAIN batch : i >= j /\ batch[i] = batch[j]} = {i \in J : i >= j}
      BY <3>1 DEF Where
    <3>3. j \in Slots <=> Cardinality({i \in DOMAIN batch : i >= j /\ batch[i] = batch[j]})
                             <= Cardinality(Matches(batch[j]))
      BY <3>1 DEF Slots
    <3> QED BY <3>1, <3>2, <3>3, <1>5
  <2> QED BY <2>1
<1> HIDE DEF J, m
<1>7. Cardinality(T) = IF Cardinality(J) <= m THEN Cardinality(J) ELSE m
  BY <1>4, <1>5, LastOnes
<1> HIDE DEF T
<1>8. Cardinality(Slots \cap J) = Graph!Least(m, Cardinality(J))
  BY <1>3, <1>5, <1>6, <1>7 DEF Graph!Least
<1> QED BY <1>3, <1>8 DEF J, m

\* What is left of the batch is what there is of it in the graph.
LEMMA LocateFollows ==
    ASSUME Base, Base', GraphFollows, Locate
    PROVE  GraphFollows'
<1>1. PICK f \in [Slots -> 0 .. MaxDegree - 1] :
         /\ \A j \in Slots : f[j] \in Matches(batch[j])
         /\ locs' = Pick(f, Slots)
  BY DEF Locate
<1>2. /\ pc = "locate" /\ pc' = "overwrite" /\ batch' = Pick(batch, Slots)
      /\ nE' = nE /\ vertex' = vertex /\ mem' = mem /\ call' = call /\ stable' = stable
  BY DEF Locate
<1>3. batch \in Seq(Edges) /\ Slots \in SUBSET DOMAIN batch
  BY DEF Base, TypeOK, Slots
<1>4. /\ Len(batch') = Cardinality(Slots) /\ DOMAIN batch' = 1 .. Cardinality(Slots)
      /\ Cardinality(Slots) \in Nat
      /\ \A n \in 1 .. Cardinality(Slots) :
            Nth(Slots, n) \in Slots /\ batch'[n] = batch[Nth(Slots, n)]
  BY <1>2, <1>3, PickType, Positions
<1>5. /\ Len(locs') = Cardinality(Slots)
      /\ \A n \in 1 .. Cardinality(Slots) : locs'[n] = f[Nth(Slots, n)]
  BY <1>1, <1>4 DEF Pick
<1>6. ~Applying' /\ ~Applying /\ Planned'
  BY <1>2, <1>4, <1>5 DEF Applying, Planned
<1>7. \A e : Matches(e)' = Matches(e)
  BY <1>2 DEF Matches, Adjacency, List
<1>8. \A n \in DOMAIN batch' : locs'[n] \in Matches(batch[n])'
  <2> SUFFICES ASSUME NEW n \in DOMAIN batch' PROVE locs'[n] \in Matches(batch[n])'
    OBVIOUS
  <2>1. locs'[n] \in Matches(batch'[n])
    BY <1>1, <1>4, <1>5
  <2>2. Matches(batch[n])' = Matches(batch'[n])
    BY <1>2 DEF Matches, Adjacency, List
  <2> QED BY <2>1, <2>2
<1>9. \A e \in Edges :
         Times(batch', e) = Graph!Least(Times(stable[e[1]], e[2]), Times(call.edges, e))
  <2> SUFFICES ASSUME NEW e \in Edges
               PROVE  Times(batch', e) = Graph!Least(Times(stable[e[1]], e[2]), Times(call.edges, e))
    OBVIOUS
  <2>1. Times(batch', e) = Cardinality(Slots \cap Where(batch, e))
    BY <1>2, <1>3, PickTimes
  <2> QED BY <2>1, <1>2, SlotsOf DEF Base
<1>10. BatchCounted'
  BY <1>2, <1>6, <1>8, <1>9 DEF BatchCounted, Inserting, Erasing
<1>11. CallKnown'
  BY <1>2 DEF GraphFollows, CallKnown
<1>12. DegreesFollow' /\ ListsFollow' /\ EdgesCounted'
  BY <1>2, <1>6 DEF GraphFollows, DegreesFollow, ListsFollow, EdgesCounted, Inserting,
                    Erasing, Value
<1> QED BY <1>2, <1>10, <1>11, <1>12 DEF GraphFollows

\* The early return leaves batch and graph as they are.
LEMMA LocateNothingFollows ==
    ASSUME Base, GraphFollows, LocateNothing
    PROVE  GraphFollows'
<1>1. /\ pc = "locate" /\ pc' = "overwrite" /\ batch' = batch /\ locs' = locs
      /\ nE' = nE /\ vertex' = vertex /\ mem' = mem /\ call' = call /\ stable' = stable
  BY DEF LocateNothing
<1>2. Len(locs) = 0 /\ Len(batch) # 0
  <2>1. locs = <<>>
    BY <1>1 DEF Base, QueueConsistent
  <2>2. batch = Sorted(call.edges) /\ call.edges \in Seq(Edges) /\ call.edges # <<>>
    BY <1>1, HornetAssumption DEF GraphFollows, BatchCounted, CallKnown
  <2>3. Len(batch) = Len(call.edges)
    BY <2>2, SortedType
  <2> QED BY <2>1, <2>2, <2>3
<1>3. ~Applying' /\ ~Applying /\ ~Planned'
  BY <1>1, <1>2 DEF Applying, Planned
<1>4. CallKnown' /\ BatchCounted'
  BY <1>1, <1>3 DEF GraphFollows, CallKnown, BatchCounted, Inserting, Erasing
<1>5. DegreesFollow' /\ ListsFollow' /\ EdgesCounted'
  BY <1>1, <1>3 DEF GraphFollows, DegreesFollow, ListsFollow, EdgesCounted, Inserting,
                    Erasing, Value
<1> QED BY <1>1, <1>4, <1>5 DEF GraphFollows

\* So does the launch that fails.
LEMMA OverwriteFaultFollows ==
    ASSUME Base, GraphFollows, OverwriteFault
    PROVE  GraphFollows'
<1>1. /\ pc = "overwrite" /\ pc' = "fault" /\ batch' = batch
      /\ nE' = nE /\ vertex' = vertex /\ mem' = mem /\ call' = call /\ stable' = stable
  BY DEF OverwriteFault
<1>2. ~Applying' /\ ~Applying /\ ~Planned'
  BY <1>1 DEF Applying, Planned
<1>3. CallKnown' /\ BatchCounted'
  BY <1>1, <1>2 DEF GraphFollows, CallKnown, BatchCounted, Inserting, Erasing
<1>4. DegreesFollow' /\ ListsFollow' /\ EdgesCounted'
  BY <1>1, <1>2 DEF GraphFollows, DegreesFollow, ListsFollow, EdgesCounted, Inserting,
                    Erasing, Value
<1> QED BY <1>1, <1>3, <1>4 DEF GraphFollows

-----------------------------------------------------------------------------
(* The threads of overwriteDeletedEdges.                                   *)

\* Thread k of overwriteDeletedEdges fills position x of the list of v.
Fills(k, v, x) == batch[Nth(Holes, k)][1] = v /\ locs[Nth(Holes, k)] = x - 1

\* The position from which it takes the edge.
From(k) == SourceOffset(Nth(Survivors, k)) + 1

\* How many edges an erase leaves of the list of v.
Left(v) == Len(stable[v]) - Requested(batch, v)

\* The types of the plan of an erase, and what is left of each list.
LEMMA PlanTypes ==
    ASSUME Base, GraphFollows, Planned
    PROVE  /\ batch \in Seq(Edges) /\ DOMAIN batch = 1 .. Len(batch) /\ Len(batch) \in Nat
           /\ DOMAIN locs = DOMAIN batch /\ InOrder(batch) /\ ~Applying
           /\ Holes \in SUBSET DOMAIN batch /\ Survivors \in SUBSET DOMAIN batch
           /\ Holes \in SUBSET Nat /\ Survivors \in SUBSET Nat
           /\ IsFiniteSet(Holes) /\ IsFiniteSet(Survivors)
           /\ Cardinality(Holes) = Cardinality(Survivors)
           /\ \A i \in DOMAIN batch :
                 /\ batch[i] \in Edges /\ batch[i][1] \in Vertices
                 /\ batch[i][1] \in Sources(batch) /\ locs[i] \in Nat
                 /\ locs[i] < Len(stable[batch[i][1]])
                 /\ stable[batch[i][1]][locs[i] + 1] = batch[i][2]
           /\ \A i, j \in DOMAIN batch :
                 i # j /\ batch[i][1] = batch[j][1] => locs[i] # locs[j]
           /\ \A v \in Vertices :
                 /\ Left(v) \in Nat /\ Requested(batch, v) \in Nat /\ Len(stable[v]) \in Nat
                 /\ Left(v) + Requested(batch, v) = Len(stable[v])
                 /\ vertex[v].degree = Len(stable[v]) /\ vertex[v].offset \in Nat
           /\ \A i \in DOMAIN batch : Cutoff(i) = Left(batch[i][1])
<1>1. /\ batch \in Seq(Edges) /\ locs \in Seq(Nat) /\ pc = "overwrite" /\ Len(locs) = Len(batch)
      /\ TypeOK /\ QueueConsistent /\ BatchInOrder
  BY DEF Planned, Base, TypeOK
<1>2. DOMAIN batch = 1 .. Len(batch) /\ Len(batch) \in Nat /\ DOMAIN locs = DOMAIN batch
  BY <1>1
<1>3. InOrder(batch) /\ ~Applying
  BY <1>1 DEF BatchInOrder, Applying
<1>4. /\ Holes \in SUBSET DOMAIN batch /\ Survivors \in SUBSET DOMAIN batch
      /\ Holes \in SUBSET Nat /\ Survivors \in SUBSET Nat
      /\ IsFiniteSet(Holes) /\ IsFiniteSet(Survivors)
  <2>1. Holes \in SUBSET DOMAIN batch /\ Survivors \in SUBSET DOMAIN batch
    BY DEF Holes, Survivors
  <2> QED BY <2>1, <1>1, Positions
<1>5. Cardinality(Holes) = Cardinality(Survivors)
  BY <1>1, HolesAndSurvivors
<1>6. Adjacency = stable /\ \A v \in Vertices : vertex[v].degree = Len(stable[v])
  BY <1>1, <1>3, QuietLists
<1>7. ASSUME NEW i \in DOMAIN batch
      PROVE  /\ batch[i] \in Edges /\ batch[i][1] \in Vertices
             /\ batch[i][1] \in Sources(batch) /\ locs[i] \in Nat
             /\ locs[i] < Len(stable[batch[i][1]])
             /\ stable[batch[i][1]][locs[i] + 1] = batch[i][2]
  <2>1. batch[i] \in Edges /\ batch[i][1] \in Vertices /\ batch[i][1] \in Sources(batch)
    BY <1>1 DEF Edges, Sources
  <2>2. locs[i] \in Nat /\ locs[i] < vertex[batch[i][1]].degree
    BY <1>1, <1>2 DEF QueueConsistent
  <2>3. locs[i] \in Matches(batch[i])
    BY DEF GraphFollows, BatchCounted
  <2>4. Adjacency[batch[i][1]][locs[i] + 1] = batch[i][2]
    BY <2>3 DEF Matches
  <2> QED BY <2>1, <2>2, <2>4, <1>6
<1>8. \A i, j \in DOMAIN batch : i # j /\ batch[i][1] = batch[j][1] => locs[i] # locs[j]
  BY <1>1 DEF QueueConsistent
<1>9. ASSUME NEW v \in Vertices
      PROVE  /\ Left(v) \in Nat /\ Requested(batch, v) \in Nat /\ Len(stable[v]) \in Nat
             /\ Left(v) + Requested(batch, v) = Len(stable[v])
             /\ vertex[v].offset \in Nat
  <2>1. Requested(batch, v) \in Nat /\ Len(stable[v]) \in Nat /\ vertex[v] \in VertexData
    BY <1>1, LengthTypes
  <2>2. \A i \in DOMAIN batch : locs[i] < vertex[batch[i][1]].degree
    BY <1>1 DEF QueueConsistent
  <2>3. Requested(batch, v) <= vertex[v].degree
    BY <1>1, <1>2, <1>8, <2>2, RequestedBound
  <2> QED BY <2>1, <2>3, <1>6 DEF Left, VertexData
<1>10. ASSUME NEW i \in DOMAIN batch PROVE Cutoff(i) = Left(batch[i][1])
  BY <1>6, <1>7 DEF Cutoff, Left
<1> QED BY <1>1, <1>2, <1>3, <1>4, <1>5, <1>6, <1>7, <1>8, <1>9, <1>10

\* What a thread moves where.
LEMMA ThreadMoves ==
    ASSUME Base, GraphFollows, Planned, NEW k \in 1 .. Cardinality(Holes),
           NEW v, v = batch[Nth(Holes, k)][1]
    PROVE  /\ Nth(Holes, k) \in DOMAIN batch /\ Nth(Survivors, k) \in DOMAIN batch
           /\ v \in Vertices /\ v \in Sources(batch)
           /\ locs[Nth(Holes, k)] < Left(v)
           /\ Nth(Survivors, k) \in Int /\ First(batch, v) \in Int
           /\ From(k) = Left(v) + Nth(Survivors, k) - First(batch, v) + 1
           /\ From(k) \in Left(v) + 1 .. Len(stable[v])
           /\ \A m \in At(batch, v) : From(k) # locs[m] + 1
<1> DEFINE i == Nth(Holes, k)
           j == Nth(Survivors, k)
<1>1. /\ batch \in Seq(Edges) /\ InOrder(batch)
      /\ \A h \in DOMAIN batch : /\ batch[h][1] \in Vertices /\ batch[h][1] \in Sources(batch)
                                 /\ locs[h] \in Nat /\ h \in Int
      /\ \A h \in DOMAIN batch : Cutoff(h) = Left(batch[h][1])
      /\ \A u \in Vertices : /\ Left(u) \in Nat /\ Requested(batch, u) \in Nat
                             /\ Left(u) + Requested(batch, u) = Len(stable[u])
  BY PlanTypes
<1>2. i \in Holes /\ j \in Survivors /\ i \in DOMAIN batch /\ j \in DOMAIN batch
  <2>1. k \in 1 .. Cardinality(Survivors)
    BY PlanTypes
  <2> QED BY <2>1, PlanTypes, NthOf
<1>3. /\ batch[j][1] = v
      /\ SourceOffset(j) \notin {locs[m] : m \in At(batch, v)}
  <2>1. OverwritePlanSound /\ pc = "overwrite" /\ Len(locs) = Len(batch)
    BY PlanFollows DEF Base, Planned
  <2> QED BY <2>1 DEF OverwritePlanSound
<1>4. v \in Vertices /\ v \in Sources(batch) /\ locs[i] < Left(v)
  BY <1>1, <1>2 DEF Holes
<1>5. First(batch, v) \in Int /\ At(batch, v) = First(batch, v) .. First(batch, v) + Requested(batch, v) - 1
  <2>1. First(batch, v) \in DOMAIN batch
    BY <1>1, <1>4, Segment
  <2> QED BY <2>1, <1>1, <1>4, Segment
<1> HIDE DEF i, j
<1>6. j \in First(batch, v) .. First(batch, v) + Requested(batch, v) - 1 /\ j \in Int
  <2>1. j \in At(batch, v)
    BY <1>2, <1>3 DEF At
  <2> QED BY <2>1, <1>1, <1>2, <1>5
<1>7. SourceOffset(j) = Left(v) + j - First(batch, v)
  BY <1>1, <1>2, <1>3 DEF SourceOffset
<1>8. SourceOffset(j) + 1 \in Left(v) + 1 .. Len(stable[v]) /\ SourceOffset(j) \in Int
  <2>1. /\ Left(v) \in Nat /\ Requested(batch, v) \in Nat
        /\ Left(v) + Requested(batch, v) = Len(stable[v])
    BY <1>1, <1>4
  <2>2. PICK L, r, f, o : L = Left(v) /\ r = Requested(batch, v) /\ f = First(batch, v) /\ o = SourceOffset(j)
    OBVIOUS
  <2>3. /\ L \in Nat /\ r \in Nat /\ f \in Int /\ j \in Int /\ j \in f .. f + r - 1 /\ o = L + j - f
    BY <2>1, <2>2, <1>5, <1>6, <1>7
  <2>4. o + 1 \in L + 1 .. L + r /\ o \in Int
    BY <2>3
  <2> QED BY <2>1, <2>2, <2>4
<1>9. SourceOffset(j) + 1 = Left(v) + j - First(batch, v) + 1
  BY <1>7
<1>10. ASSUME NEW m \in At(batch, v) PROVE SourceOffset(j) + 1 # locs[m] + 1
  <2>1. locs[m] \in Int /\ SourceOffset(j) # locs[m]
    BY <1>1, <1>3 DEF At
  <2> QED BY <2>1, <1>8
<1> QED BY <1>2, <1>4, <1>5, <1>6, <1>8, <1>9, <1>10 DEF From, i, j

\* What the threads leave in the lists.
LEMMA FilledLists ==
    ASSUME Base, CellsApart, GraphFollows, Planned, OverwriteDeletedEdges,
           NEW v \in Vertices, NEW x \in 1 .. Len(stable[v])
    PROVE  /\ (\A k \in 1 .. Cardinality(Holes) : ~Fills(k, v, x)) =>
                 Value(v, x)' = stable[v][x]
           /\ \A k \in 1 .. Cardinality(Holes) :
                 Fills(k, v, x) => Value(v, x)' = stable[v][From(k)]
<1> DEFINE threads == 1 .. Cardinality(Holes)
           p == vertex[v].ptr
           c == vertex[v].offset + x - 1
<1>1. /\ vertex' = vertex /\ ~Applying /\ pc = "overwrite"
      /\ mem' = [q \in Ptr |-> [a \in Cells |->
                    IF \E k \in threads : Overwrites(k, q, a)
                    THEN SurvivorCell(CHOOSE k \in threads : Overwrites(k, q, a))
                    ELSE mem[q][a]]]
  BY PlanTypes DEF OverwriteDeletedEdges, Planned
<1>2. ASSUME NEW u \in Vertices
      PROVE  /\ vertex[u].degree = Len(stable[u]) /\ Len(stable[u]) \in Nat
             /\ vertex[u].offset \in Nat
             /\ \A y \in 1 .. Len(stable[u]) :
                   /\ mem[vertex[u].ptr][vertex[u].offset + y - 1] = stable[u][y]
                   /\ vertex[u].ptr \in Ptr /\ vertex[u].offset + y - 1 \in Cells
  <2>1. vertex[u].degree = Len(stable[u]) /\ Len(stable[u]) \in Nat /\ vertex[u].offset \in Nat
    BY PlanTypes
  <2>2. \A y \in 1 .. Len(stable[u]) : Value(u, y) = stable[u][y]
    BY <1>1 DEF GraphFollows, ListsFollow, Erasing
  <2> QED BY <2>1, <2>2, ListCell DEF Value
<1>3. Value(v, x)' = mem'[p][c]
  BY <1>1 DEF Value
<1>4. ASSUME NEW k \in threads PROVE Overwrites(k, p, c) <=> Fills(k, v, x)
  <2> DEFINE i == Nth(Holes, k)
             u == batch[i][1]
             y == locs[i] + 1
  <2>1. /\ u \in Vertices /\ locs[i] \in Nat /\ y \in 1 .. Len(stable[u]) /\ x \in Nat
    <3>1. i \in DOMAIN batch
      BY ThreadMoves
    <3>2. u \in Vertices /\ locs[i] \in Nat /\ locs[i] < Len(stable[u])
      BY <3>1, PlanTypes
    <3>3. Len(stable[u]) \in Nat /\ Len(stable[v]) \in Nat
      BY <3>2, <1>2
    <3> HIDE DEF i, u
    <3> QED BY <3>2, <3>3
  <2>2. Overwrites(k, p, c) <=> p = vertex[u].ptr /\ c = vertex[u].offset + locs[i]
    BY DEF Overwrites
  <2>3. Fills(k, v, x) <=> u = v /\ locs[i] = x - 1
    BY DEF Fills
  <2>4. Overwrites(k, p, c) <=> Cell(vertex[u], y) = Cell(vertex[v], x)
    <3>1. vertex[u].offset + locs[i] = vertex[u].offset + y - 1
      <4>1. vertex[u].offset \in Nat
        BY <2>1, <1>2
      <4> HIDE DEF i, u
      <4> QED BY <4>1, <2>1
    <3> HIDE DEF i, u, y
    <3> QED BY <2>2, <3>1 DEF Cell
  <2>5. Cell(vertex[u], y) = Cell(vertex[v], x) => u = v /\ y = x
    <3>1. y \in 1 .. vertex[u].degree /\ x \in 1 .. vertex[v].degree
      BY <2>1, <1>2
    <3> HIDE DEF i, u, y
    <3> QED BY <3>1, <2>1 DEF CellsApart
  <2>6. y = x <=> locs[i] = x - 1
    <3> HIDE DEF i
    <3> QED BY <2>1
  <2> HIDE DEF i, u, y
  <2> QED BY <2>3, <2>4, <2>5, <2>6
<1>5. ASSUME NEW k \in threads, NEW l \in threads, Fills(k, v, x), Fills(l, v, x)
      PROVE  k = l
  <2>1. Nth(Holes, k) \in DOMAIN batch /\ Nth(Holes, l) \in DOMAIN batch
    BY ThreadMoves
  <2>2. Nth(Holes, k) = Nth(Holes, l)
    BY <1>5, <2>1, PlanTypes DEF Fills
  <2>3. Holes \in SUBSET Nat /\ IsFiniteSet(Holes)
    BY PlanTypes
  <2> QED BY <2>2, <2>3, NthDiffers
<1>6. p \in Ptr /\ c \in Cells
  BY <1>2
<1>7. ASSUME \A k \in threads : ~Fills(k, v, x) PROVE Value(v, x)' = stable[v][x]
  <2>1. mem'[p][c] = mem[p][c]
    <3> HIDE DEF p, c, threads
    <3> QED BY <1>1, <1>4, <1>6, <1>7
  <2> QED BY <2>1, <1>2, <1>3
<1>8. ASSUME NEW k \in threads, Fills(k, v, x) PROVE Value(v, x)' = stable[v][From(k)]
  <2> HIDE DEF p, c, threads
  <2>1. (CHOOSE l \in threads : Overwrites(l, p, c)) = k
    BY <1>4, <1>5, <1>8
  <2>2. mem'[p][c] = SurvivorCell(k)
    BY <1>1, <1>4, <1>6, <1>8, <2>1
  <2>3. batch[Nth(Holes, k)][1] = v
    BY <1>8 DEF Fills
  <2>4. From(k) \in 1 .. Len(stable[v]) /\ From(k) - 1 = SourceOffset(Nth(Survivors, k))
    <3>1. /\ From(k) \in Left(v) + 1 .. Len(stable[v])
          /\ From(k) = Left(v) + Nth(Survivors, k) - First(batch, v) + 1
          /\ Nth(Survivors, k) \in DOMAIN batch
          /\ Nth(Survivors, k) \in Int /\ First(batch, v) \in Int
      BY <2>3, ThreadMoves DEF threads
    <3>2. Left(v) \in Nat /\ Len(stable[v]) \in Nat
      BY PlanTypes
    <3>3. SourceOffset(Nth(Survivors, k)) \in Int
      <4>1. batch[Nth(Survivors, k)][1] = v
        <5>1. OverwritePlanSound /\ pc = "overwrite" /\ Len(locs) = Len(batch)
          BY PlanFollows DEF Base, Planned
        <5> QED BY <5>1, <2>3 DEF OverwritePlanSound, threads
      <4>2. Cutoff(Nth(Survivors, k)) = Left(v)
        BY <3>1, <4>1, PlanTypes
      <4> QED BY <3>1, <3>2, <4>1, <4>2 DEF SourceOffset
    <3> QED BY <3>1, <3>2, <3>3 DEF From
  <2>5. SurvivorCell(k) = mem[vertex[v].ptr][vertex[v].offset + SourceOffset(Nth(Survivors, k))]
    BY <2>3 DEF SurvivorCell
  <2>6. vertex[v].offset + SourceOffset(Nth(Survivors, k)) = vertex[v].offset + From(k) - 1
    BY <2>4, <1>2
  <2> QED BY <2>2, <2>4, <2>5, <2>6, <1>2, <1>3
<1> QED BY <1>7, <1>8

\* The list of a source after the threads: the positions that are left hold each
\* edge of the list once that the batch does not erase.
LEMMA KeptTimes ==
    ASSUME Base, CellsApart, GraphFollows, Planned, OverwriteDeletedEdges,
           NEW v \in Sources(batch), NEW n, n = Left(v),
           NEW kept, kept = [x \in 1 .. n |-> Value(v, x)']
    PROVE  /\ kept \in Seq(Vertices) /\ Len(kept) = n
           /\ \A d \in Vertices :
                 Times(stable[v], d) = Times(kept, d) + Times(batch, <<v, d>>)
<1> DEFINE threads == 1 .. Cardinality(Holes)
<1>1. PICK s, r, f : s = stable[v] /\ r = Requested(batch, v) /\ f = First(batch, v)
  OBVIOUS
<1>2. /\ v \in Vertices /\ s \in Seq(Vertices) /\ DOMAIN s = 1 .. Len(s)
      /\ n \in Nat /\ r \in Nat /\ Len(s) = n + r
      /\ \A y \in 1 .. Len(s) : s[y] \in Vertices
  <2>1. v \in Vertices
    BY SourcesType, PlanTypes
  <2>2. s \in Seq(Vertices)
    BY <2>1, <1>1 DEF GraphFollows, IsGraph
  <2> QED BY <2>1, <2>2, <1>1, PlanTypes
<1>3. /\ batch \in Seq(Edges) /\ InOrder(batch)
      /\ \A m \in DOMAIN batch : /\ locs[m] \in Nat /\ m \in Nat
                                 /\ locs[m] < Len(stable[batch[m][1]])
                                 /\ stable[batch[m][1]][locs[m] + 1] = batch[m][2]
      /\ \A i, j \in DOMAIN batch :
            i # j /\ batch[i][1] = batch[j][1] => locs[i] # locs[j]
  BY PlanTypes
<1>4. f \in Nat /\ At(batch, v) = f .. f + r - 1
  <2>1. f \in DOMAIN batch /\ At(batch, v) = f .. f + r - 1
    BY <1>1, <1>3, Segment
  <2> QED BY <2>1, <1>3
<1>5. ASSUME NEW m \in f .. f + r - 1
      PROVE  /\ m \in DOMAIN batch /\ batch[m][1] = v /\ locs[m] + 1 \in 1 .. Len(s)
             /\ s[locs[m] + 1] = batch[m][2] /\ locs[m] \in Nat
  <2>1. m \in DOMAIN batch /\ batch[m][1] = v
    BY <1>4 DEF At
  <2>2. locs[m] \in Nat /\ locs[m] < Len(s) /\ s[locs[m] + 1] = batch[m][2]
    BY <2>1, <1>1, <1>3
  <2> QED BY <2>1, <2>2, <1>2
<1>6. ASSUME NEW k \in threads, NEW x \in 1 .. Len(s), Fills(k, v, x)
      PROVE  /\ From(k) \in n + 1 .. Len(s) /\ From(k) = n + Nth(Survivors, k) - f + 1
             /\ Nth(Survivors, k) \in Int
             /\ \A m \in f .. f + r - 1 : From(k) # locs[m] + 1
  BY <1>1, <1>4, <1>6, ThreadMoves DEF Fills
<1>7. ASSUME NEW k \in threads, NEW l \in threads, NEW x \in 1 .. Len(s), NEW y \in 1 .. Len(s),
             Fills(k, v, x), Fills(l, v, y), From(k) = From(l)
      PROVE  x = y
  <2>1. Nth(Survivors, k) = Nth(Survivors, l)
    <3>1. From(k) = n + Nth(Survivors, k) - f + 1 /\ Nth(Survivors, k) \in Int
      BY <1>6, <1>7
    <3>2. From(l) = n + Nth(Survivors, l) - f + 1 /\ Nth(Survivors, l) \in Int
      BY <1>6, <1>7
    <3>3. n \in Int /\ f \in Int
      BY <1>2, <1>4
    <3> QED BY <3>1, <3>2, <3>3, <1>7
  <2>2. /\ Survivors \in SUBSET Nat /\ IsFiniteSet(Survivors)
        /\ k \in 1 .. Cardinality(Survivors) /\ l \in 1 .. Cardinality(Survivors)
    BY PlanTypes
  <2>3. k = l
    BY <2>1, <2>2, NthDiffers
  <2>4. x - 1 = y - 1
    BY <2>3, <1>7 DEF Fills
  <2> QED BY <2>4
<1>8. ASSUME NEW m \in f .. f + r - 1, locs[m] < n
      PROVE  \E k \in threads : Fills(k, v, locs[m] + 1)
  <2>1. m \in DOMAIN batch /\ batch[m][1] = v /\ locs[m] \in Nat
    BY <1>5
  <2>2. m \in Holes
    BY <2>1, <1>8, PlanTypes DEF Holes
  <2>3. PICK k \in threads : Nth(Holes, k) = m
    BY <2>2, PlanTypes, NthReaches
  <2>4. (locs[m] + 1) - 1 = locs[m]
    BY <2>1
  <2> QED BY <2>1, <2>3, <2>4 DEF Fills
<1> DEFINE h == [x \in 1 .. Len(s) |->
                    IF x > n THEN locs[f + x - n - 1] + 1
                    ELSE IF \E k \in threads : Fills(k, v, x)
                         THEN From(CHOOSE k \in threads : Fills(k, v, x))
                         ELSE x]
<1>9. ASSUME NEW x \in 1 .. Len(s), x > n
      PROVE  /\ h[x] = locs[f + x - n - 1] + 1
             /\ f + x - n - 1 \in f .. f + r - 1
             /\ h[x] \in 1 .. Len(s)
  <2>1. f + x - n - 1 \in f .. f + r - 1
    BY <1>2, <1>4, <1>9
  <2> QED BY <2>1, <1>5, <1>9
<1>10. ASSUME NEW x \in 1 .. Len(s), ~(x > n)
       PROVE  /\ \/ \E k \in threads : Fills(k, v, x) /\ h[x] = From(k)
                 \/ h[x] = x /\ \A k \in threads : ~Fills(k, v, x)
              /\ h[x] \in 1 .. Len(s)
  <2>1. CASE \E k \in threads : Fills(k, v, x)
    <3>1. PICK k \in threads : Fills(k, v, x) /\ h[x] = From(k)
      BY <2>1, <1>10
    <3>2. From(k) \in n + 1 .. Len(s)
      BY <3>1, <1>6
    <3>3. From(k) \in 1 .. Len(s)
      BY <3>2, <1>2
    <3> QED BY <3>1, <3>3
  <2>2. CASE \A k \in threads : ~Fills(k, v, x)
    BY <2>2, <1>10
  <2> QED BY <2>1, <2>2
<1> HIDE DEF h, threads
<1>11. \A x \in 1 .. Len(s) : h[x] \in 1 .. Len(s)
  BY <1>9, <1>10
<1>12. ASSUME NEW x \in 1 .. Len(s), NEW y \in 1 .. Len(s), x > n, y > n, h[x] = h[y]
       PROVE  x = y
  <2> DEFINE i == f + x - n - 1
             j == f + y - n - 1
  <2>1. i \in f .. f + r - 1 /\ j \in f .. f + r - 1 /\ h[x] = locs[i] + 1 /\ h[y] = locs[j] + 1
    BY <1>9, <1>12
  <2> HIDE DEF i, j
  <2>2. locs[i] = locs[j] /\ batch[i][1] = batch[j][1] /\ i \in DOMAIN batch /\ j \in DOMAIN batch
    BY <2>1, <1>5, <1>12
  <2>3. i = j
    BY <2>2, <1>3
  <2>4. x \in Int /\ y \in Int /\ f \in Int /\ n \in Int
    BY <1>2, <1>4
  <2>5. f + x - n - 1 = f + y - n - 1
    BY <2>3 DEF i, j
  <2> QED BY ONLY <2>4, <2>5
<1>13. ASSUME NEW x \in 1 .. Len(s), NEW y \in 1 .. Len(s), x > n, ~(y > n)
       PROVE  h[x] # h[y]
  <2> DEFINE i == f + x - n - 1
  <2>1. i \in f .. f + r - 1 /\ h[x] = locs[i] + 1
    BY <1>9, <1>13
  <2> HIDE DEF i
  <2>2. CASE \E k \in threads : Fills(k, v, y) /\ h[y] = From(k)
    BY <2>1, <2>2, <1>6
  <2>3. CASE h[y] = y /\ \A k \in threads : ~Fills(k, v, y)
    <3> SUFFICES ASSUME h[x] = h[y] PROVE FALSE
      OBVIOUS
    <3>1. locs[i] + 1 = y
      BY <2>1, <2>3
    <3>2. locs[i] \in Nat
      BY <2>1, <1>5
    <3>3. locs[i] < n
      BY <3>1, <3>2, <1>2, <1>13
    <3> QED BY <3>1, <3>3, <2>1, <2>3, <1>8
  <2> QED BY <2>2, <2>3, <1>10, <1>13
<1>14. ASSUME NEW x \in 1 .. Len(s), NEW y \in 1 .. Len(s), ~(x > n), ~(y > n), h[x] = h[y]
       PROVE  x = y
  <2>1. CASE \E k \in threads : Fills(k, v, x) /\ h[x] = From(k)
    <3>1. PICK k \in threads : Fills(k, v, x) /\ h[x] = From(k)
      BY <2>1
    <3>2. h[x] > n
      BY <3>1, <1>2, <1>6
    <3>3. h[y] # y
      BY <3>2, <1>14
    <3>4. PICK l \in threads : Fills(l, v, y) /\ h[y] = From(l)
      BY <3>3, <1>10, <1>14
    <3> QED BY <3>1, <3>4, <1>7, <1>14
  <2>2. CASE h[x] = x
    <3>1. h[y] = y
      <4> SUFFICES ASSUME h[y] # y PROVE FALSE
        OBVIOUS
      <4>1. PICK l \in threads : Fills(l, v, y) /\ h[y] = From(l)
        BY <1>10, <1>14
      <4>2. h[y] > n
        BY <4>1, <1>2, <1>6
      <4> QED BY <4>2, <2>2, <1>14
    <3> QED BY <3>1, <2>2, <1>14
  <2> QED BY <2>1, <2>2, <1>10, <1>14
<1>15. \A x, y \in 1 .. Len(s) : h[x] = h[y] => x = y
  BY <1>12, <1>13, <1>14
<1>16. h \in Bijection(1 .. Len(s), 1 .. Len(s))
  <2>1. h \in [1 .. Len(s) -> 1 .. Len(s)]
    BY <1>11 DEF h
  <2>2. PICK S, c : S = 1 .. Len(s) /\ c = Len(s) /\ c \in Nat
    BY <1>2
  <2>3. IsFiniteSet(S) /\ Cardinality(S) = c
    <3>1. c \in Nat
      BY <2>2
    <3>2. IsFiniteSet(1 .. c) /\ Cardinality(1 .. c) = c
      BY ONLY <3>1, FS_Interval
    <3> QED BY <3>2, <2>2
  <2>4. h \in [S -> 1 .. Cardinality(S)] /\ \A x, y \in S : h[x] = h[y] => x = y
    BY <2>1, <2>2, <2>3, <1>15
  <2>5. \A y \in 1 .. Cardinality(S) : \E x \in S : h[x] = y
    BY <2>3, <2>4, RanksReachAll
  <2>6. \A y \in 1 .. Len(s) : \E x \in 1 .. Len(s) : h[x] = y
    BY <2>2, <2>3, <2>5
  <2> QED BY <2>1, <2>6, <1>15 DEF Bijection, Injection, Surjection, IsInjective
<1> DEFINE t == [x \in 1 .. Len(s) |-> s[h[x]]]
<1>17. t \in Seq(Vertices) /\ Len(t) = Len(s) /\ DOMAIN t = 1 .. Len(s)
  <2>1. t \in [1 .. Len(s) -> Vertices]
    BY <1>2, <1>11
  <2>2. Len(s) \in Nat
    BY <1>2
  <2> HIDE DEF t
  <2> QED BY <2>1, <2>2, FunctionSequence
<1>18. kept \in Seq(Vertices) /\ Len(kept) = n /\ \A x \in 1 .. n : kept[x] = t[x]
  <2>1. ASSUME NEW x \in 1 .. n PROVE kept[x] = t[x] /\ t[x] \in Vertices
    <3>1. x \in 1 .. Len(s) /\ ~(x > n)
      BY <1>2
    <3>2. Value(v, x)' = s[h[x]]
      <4>1. CASE \E k \in threads : Fills(k, v, x) /\ h[x] = From(k)
        BY <3>1, <4>1, <1>1, <1>2, FilledLists DEF threads
      <4>2. CASE h[x] = x /\ \A k \in threads : ~Fills(k, v, x)
        BY <3>1, <4>2, <1>1, <1>2, FilledLists DEF threads
      <4> QED BY <3>1, <4>1, <4>2, <1>10
    <3>3. s[h[x]] \in Vertices
      BY <3>1, <1>2, <1>11
    <3>4. kept[x] = Value(v, x)'
      OBVIOUS
    <3> QED BY <3>1, <3>2, <3>3, <3>4
  <2>2. kept \in [1 .. n -> Vertices]
    <3>1. kept = [x \in 1 .. n |-> kept[x]]
      OBVIOUS
    <3>2. \A x \in 1 .. n : kept[x] \in Vertices
      BY <2>1
    <3> QED BY <3>1, <3>2
  <2>3. kept \in Seq(Vertices)
    BY <2>2, <1>2, FunctionSequence
  <2>4. Len(kept) = n
    BY <1>2
  <2> QED BY <2>1, <2>3, <2>4
<1>19. ASSUME NEW d \in Vertices
       PROVE  Times(s, d) = Times(kept, d) + Times(batch, <<v, d>>)
  <2> HIDE DEF t
  <2>1. Times(t, d) = Times(s, d)
    <3>1. \A x \in DOMAIN t : t[x] = s[h[x]]
      BY <1>17 DEF t
    <3>2. h \in Bijection(DOMAIN t, DOMAIN s)
      BY <1>2, <1>16, <1>17
    <3> QED BY <3>1, <3>2, <1>2, <1>17, ReorderedTimes
  <2> DEFINE e == <<v, d>>
  <2>2. ASSUME NEW i \in 1 .. r PROVE t[n + i] = d <=> batch[f + i - 1] = e
    <3>1. n + i \in 1 .. Len(s) /\ n + i > n /\ f + (n + i) - n - 1 = f + i - 1
      BY <1>2, <1>4
    <3>2. f + i - 1 \in f .. f + r - 1
      BY <1>2, <1>4
    <3>3. h[n + i] = locs[f + i - 1] + 1
      BY <3>1, <1>9
    <3>4. t[n + i] = batch[f + i - 1][2]
      BY <3>1, <3>2, <3>3, <1>5 DEF t
    <3>5. batch[f + i - 1] \in Edges /\ batch[f + i - 1][1] = v
      BY <3>2, <1>3, <1>5
    <3> QED BY <3>4, <3>5 DEF Edges
  <2>3. Where(batch, e) \subseteq f .. f + r - 1
    <3>1. Where(batch, e) \subseteq At(batch, v)
      BY DEF Where, At
    <3> QED BY <3>1, <1>4
  <2>4. f .. f + r - 1 \subseteq DOMAIN batch
    BY <1>5
  <2> HIDE DEF e
  <2>5. Grown(kept, t, batch, e, d, f, r)
    BY <2>2, <2>3, <2>4, <1>2, <1>17, <1>18 DEF Grown
  <2>6. Times(t, d) = Times(kept, d) + Times(batch, e)
    BY <2>5, <1>2, <1>3, <1>4, <1>17, <1>18, GrownTimes
  <2> QED BY <2>1, <2>6 DEF e
<1> QED BY <1>1, <1>18, <1>19

\* An erase that finds nothing to erase returns with the lists that it found.
LEMMA NothingErased ==
    ASSUME Base, Base', CellsApart, GraphFollows, OverwriteDeletedEdges, batch = <<>>
    PROVE  /\ pc' = "idle" /\ stable' = stable /\ nE' = nE /\ nE = EdgeCount(stable)
           /\ GraphFollows'
<1>1. /\ Planned /\ vertex' = vertex /\ pc' = "idle" /\ stable' = Adjacency'
      /\ nE' = nE - Len(batch)
  BY DEF OverwriteDeletedEdges, Return, Planned
<1>2. nE' = nE /\ nE \in Int
  BY <1>1 DEF Base, TypeOK
<1>3. \A k \in 1 .. Cardinality(Holes) : FALSE
  <2>1. Holes = {}
    BY DEF Holes
  <2> QED BY <2>1, FS_EmptySet
<1>4. IsGraph(stable) /\ ~Applying /\ pc # "load"
  BY <1>1, PlanTypes DEF GraphFollows, Planned
<1>5. ASSUME NEW v \in Vertices PROVE Adjacency'[v] = stable[v]
  <2>1. vertex'[v].degree = Len(stable[v]) /\ stable[v] \in Seq(Vertices)
    BY <1>1, <1>4, PlanTypes DEF IsGraph
  <2>2. \A x \in 1 .. Len(stable[v]) : Value(v, x)' = stable[v][x]
    BY <1>1, <1>3, FilledLists
  <2>3. Adjacency'[v] = [i \in 1 .. Len(stable[v]) |-> Value(v, i)']
    BY <2>1 DEF Adjacency, List, Value
  <2>4. Adjacency'[v] = [i \in 1 .. Len(stable[v]) |-> stable[v][i]]
    BY <2>2, <2>3
  <2> QED BY <2>1, <2>4
<1>6. Adjacency' = stable
  <2>1. Adjacency' = [v \in Vertices |-> Adjacency'[v]]
    BY DEF Adjacency
  <2>2. stable = [v \in Vertices |-> stable[v]]
    BY <1>4 DEF IsGraph
  <2> QED BY <2>1, <2>2, <1>5
<1>7. nE = EdgeCount(stable)
  BY <1>4 DEF GraphFollows, EdgesCounted, Inserting, Erasing
<1>8. GraphFollows'
  BY <1>1, <1>2, <1>4, <1>6, <1>7, ReturnFollows DEF Base
<1> QED BY <1>1, <1>2, <1>6, <1>7, <1>8

\* The threads leave in front of each cutoff what the erase leaves of the list.
LEMMA OverwriteFollows ==
    ASSUME Base, Base', CellsApart, GraphFollows, OverwriteDeletedEdges
    PROVE  GraphFollows'
<1>1. CASE batch = <<>>
  BY <1>1, NothingErased
<1>2. CASE batch # <<>>
  <2>1. /\ Planned /\ pc = "overwrite" /\ pc' = "queue" /\ todo' = Sources(batch)
        /\ nE' = nE - Len(batch) /\ vertex' = vertex /\ call' = call /\ batch' = batch
        /\ queue' = queue /\ stable' = stable
    BY <1>2 DEF OverwriteDeletedEdges, Planned
  <2>2. call.op = "erase" /\ IsGraph(stable)
    BY <2>1 DEF GraphFollows, CallKnown
  <2>3. Applying' /\ Erasing' /\ ~Inserting' /\ ~Planned' /\ ~Applying
    BY <2>1, <2>2 DEF Applying, Erasing, Inserting, Planned
  <2>4. CallKnown'
    BY <2>1 DEF GraphFollows, CallKnown
  <2>5. BatchCounted'
    BY <2>1, <2>3, PlanTypes DEF GraphFollows, BatchCounted
  <2>6. EdgesCounted'
    BY <2>1, <2>3 DEF GraphFollows, EdgesCounted, Inserting, Erasing
  <2>7. ASSUME NEW v \in Vertices
        PROVE  /\ Final(v)' = Left(v) /\ Left(v) \in 0 .. MaxDegree
               /\ vertex'[v].degree = Len(stable[v])
               /\ v \notin Sources(batch) => Left(v) = Len(stable[v])
    <3>1. Final(v)' = Left(v)
      BY <2>1, <2>2 DEF Final, Left
    <3>2. /\ Left(v) \in Nat /\ Requested(batch, v) \in Nat /\ Len(stable[v]) \in 0 .. MaxDegree
          /\ Left(v) + Requested(batch, v) = Len(stable[v]) /\ MaxDegree \in Nat
          /\ vertex'[v].degree = Len(stable[v]) /\ batch \in Seq(Edges)
      BY <2>1, PlanTypes, LengthTypes DEF Base
    <3>3. v \notin Sources(batch) => Requested(batch, v) = 0
      BY <3>2, NotRequested
    <3> QED BY <3>1, <3>2, <3>3
  <2>8. DegreesFollow'
    <3>1. queue' = <<>>
      BY <2>1 DEF Base, QueueConsistent
    <3>2. DOMAIN queue' = {}
      BY <3>1
    <3>3. \A v \in Vertices : Settled(v)' <=> v \notin Sources(batch)
      BY <2>1, <3>2 DEF Settled
    <3>4. \A v \in Vertices :
             vertex'[v].degree = IF Applying' /\ Settled(v)' THEN Final(v)' ELSE Len(stable'[v])
      BY <2>1, <2>3, <2>7, <3>3
    <3> QED BY <2>1, <2>3, <2>7, <3>2, <3>4 DEF DegreesFollow
  <2>9. ASSUME NEW v \in Vertices, v \in Sources(batch)
        PROVE  /\ Kept(v)' \in Seq(Vertices)
               /\ \A d \in Vertices :
                     Times(stable[v], d) = Times(Kept(v)', d) + Times(batch, <<v, d>>)
    <3>1. PICK n : n = Left(v)
      OBVIOUS
    <3>2. KeptLength(v)' = n
      BY <3>1, <2>3, <2>7 DEF KeptLength
    <3>3. Kept(v)' = [i \in 1 .. n |-> Value(v, i)']
      BY <3>2 DEF Kept
    <3> QED BY <2>1, <2>9, <3>1, <3>3, KeptTimes
  <2>10. ASSUME NEW v \in Vertices, v \notin Sources(batch), NEW i \in 1 .. Len(stable[v])
         PROVE  Value(v, i)' = stable[v][i]
    <3>1. ASSUME NEW k \in 1 .. Cardinality(Holes), Fills(k, v, i) PROVE FALSE
      BY <2>1, <2>10, <3>1, ThreadMoves DEF Fills
    <3> QED BY <3>1, <2>1, FilledLists
  <2>11. ListsFollow'
    BY <2>1, <2>3, <2>9, <2>10 DEF ListsFollow
  <2> QED BY <2>1, <2>2, <2>4, <2>5, <2>6, <2>8, <2>11 DEF GraphFollows
<1> QED BY <1>1, <1>2

-----------------------------------------------------------------------------
(* Sorting.                                                                *)

\* SortedList reorders a list.
ListRank(s, i) == Cardinality({j \in DOMAIN s : s[j] < s[i] \/ (s[j] = s[i] /\ j <= i)})

\* Sorting a list keeps its copies.
LEMMA SortedListTimes ==
    ASSUME NEW s \in Seq(Vertices)
    PROVE  /\ SortedList(s) \in Seq(Vertices) /\ Len(SortedList(s)) = Len(s)
           /\ DOMAIN SortedList(s) = DOMAIN s
           /\ \A d : Times(SortedList(s), d) = Times(s, d)
<1> DEFINE b == [i \in DOMAIN s |-> <<0, s[i]>>]
           f == [n \in DOMAIN b |-> CHOOSE i \in DOMAIN b : Rank(b, i) = n]
           t == SortedList(s)
<1>1. 0 \in Vertices /\ Vertices \subseteq Int
  BY HornetAssumption DEF Vertices
<1>2. /\ b \in Seq(Edges) /\ DOMAIN b = DOMAIN s /\ DOMAIN s = 1 .. Len(s) /\ Len(s) \in Nat
      /\ \A i \in DOMAIN s : s[i] \in Vertices /\ b[i] = <<0, s[i]>>
  <2>1. DOMAIN s = 1 .. Len(s) /\ Len(s) \in Nat /\ \A i \in DOMAIN s : s[i] \in Vertices
    OBVIOUS
  <2>2. b \in [1 .. Len(s) -> Edges]
    BY <2>1, <1>1 DEF Edges
  <2>3. b \in Seq(Edges)
    BY <2>1, <2>2, FunctionSequence
  <2> QED BY <2>1, <2>3
<1>3. ASSUME NEW i \in DOMAIN s PROVE ListRank(s, i) = Rank(b, i)
  <2>1. ASSUME NEW j \in DOMAIN s
        PROVE  Before(b, j, i) <=> s[j] < s[i] \/ (s[j] = s[i] /\ j <= i)
    <3>1. b[j] = <<0, s[j]>> /\ b[i] = <<0, s[i]>> /\ s[i] \in Int /\ s[j] \in Int
      BY <1>1, <1>2
    <3>2. b[j] = b[i] <=> s[j] = s[i]
      BY <3>1
    <3>3. EdgeLeq(b[j], b[i]) <=> s[j] <= s[i]
      BY <3>1 DEF EdgeLeq
    <3> HIDE DEF b
    <3> QED BY <3>1, <3>2, <3>3 DEF Before
  <2>2. {j \in DOMAIN s : s[j] < s[i] \/ (s[j] = s[i] /\ j <= i)}
           = {j \in DOMAIN b : Before(b, j, i)}
    <3> HIDE DEF b
    <3> QED BY <2>1, <1>2
  <2> QED BY <2>2 DEF ListRank, Rank
<1>4. f \in Bijection(DOMAIN b, DOMAIN b)
  BY <1>2, RankPositions
<1> HIDE DEF b
<1>5. /\ \A i, k \in DOMAIN s : Rank(b, i) = Rank(b, k) => i = k
      /\ \A n \in DOMAIN s : \E i \in DOMAIN s : Rank(b, i) = n
  <2>1. /\ \A i, k \in DOMAIN b : i # k /\ Before(b, i, k) => Rank(b, i) < Rank(b, k)
        /\ \A i, k \in DOMAIN b : i # k => Before(b, i, k) \/ Before(b, k, i)
        /\ \A n \in DOMAIN b : \E i \in DOMAIN b : Rank(b, i) = n
    BY <1>2, Ranks
  <2>2. \A i \in DOMAIN b : Rank(b, i) \in Int
    <3> SUFFICES ASSUME NEW i \in DOMAIN b PROVE Rank(b, i) \in Int
      OBVIOUS
    <3> DEFINE E == {j \in DOMAIN b : Before(b, j, i)}
    <3>1. E \in SUBSET DOMAIN b
      OBVIOUS
    <3>2. IsFiniteSet(E) /\ Cardinality(E) \in Nat
      <4> HIDE DEF E
      <4> QED BY <3>1, <1>2, Positions
    <3> QED BY <3>2 DEF Rank
  <2>3. ASSUME NEW i \in DOMAIN b, NEW k \in DOMAIN b, Rank(b, i) = Rank(b, k) PROVE i = k
    <3> SUFFICES ASSUME i # k PROVE FALSE
      OBVIOUS
    <3>1. Rank(b, i) < Rank(b, k) \/ Rank(b, k) < Rank(b, i)
      BY <2>1
    <3> QED BY <3>1, <2>2, <2>3
  <2> QED BY <2>1, <2>3, <1>2
<1>6. t = [n \in DOMAIN s |-> s[CHOOSE i \in DOMAIN s : ListRank(s, i) = n]]
  BY DEF SortedList, ListRank
<1>7. ASSUME NEW n \in DOMAIN s PROVE t[n] = s[f[n]] /\ t[n] \in Vertices
  <2> DEFINE k == CHOOSE i \in DOMAIN s : ListRank(s, i) = n
  <2>1. \E i \in DOMAIN s : ListRank(s, i) = n
    BY <1>3, <1>5
  <2>2. k \in DOMAIN s /\ ListRank(s, k) = n
    BY <2>1
  <2>3. f[n] \in DOMAIN s /\ Rank(b, f[n]) = n
    <3>1. f[n] = CHOOSE i \in DOMAIN b : Rank(b, i) = n
      BY <1>2
    <3> HIDE DEF f
    <3> QED BY <3>1, <1>2, <1>5
  <2>4. t[n] = s[k]
    BY <1>6
  <2> HIDE DEF k, f, t
  <2>5. k = f[n]
    BY <2>2, <2>3, <1>3, <1>5
  <2> QED BY <2>2, <2>4, <2>5, <1>2
<1>8. DOMAIN t = DOMAIN s
  BY <1>6
<1> HIDE DEF t, f
<1>9. t \in Seq(Vertices) /\ Len(t) = Len(s)
  <2>1. t \in [1 .. Len(s) -> Vertices]
    BY <1>2, <1>6, <1>7
  <2> QED BY <2>1, <1>2, FunctionSequence
<1>10. ASSUME NEW d PROVE Times(t, d) = Times(s, d)
  <2>1. f \in Bijection(DOMAIN t, DOMAIN s)
    BY <1>2, <1>4, <1>8
  <2>2. \A i \in DOMAIN t : t[i] = s[f[i]]
    BY <1>7, <1>8
  <2> QED BY <2>1, <2>2, <1>9, ReorderedTimes
<1> QED BY <1>8, <1>9, <1>10 DEF t

\* No cell is in the blocks of two vertices.
LEMMA BlocksOfVertices ==
    ASSUME Base, NEW u \in Vertices, NEW v \in Vertices, NEW p, NEW c,
           InBlock(u, p, c), InBlock(v, p, c)
    PROVE  u = v
<1> DEFINE x == <<"vertex", u>>
           y == <<"vertex", v>>
<1>1. Apart
  BY ApartHolds DEF Base
<1>2. /\ x \in Claims /\ Claimed(x) = vertex[u]
      /\ y \in Claims /\ Claimed(y) = vertex[v]
  BY ClaimCases DEF InBlock
<1>3. /\ Claimed(x).ptr = Claimed(y).ptr
      /\ c \in Area(Claimed(x)) /\ c \in Area(Claimed(y))
  BY <1>2 DEF InBlock, Area, Limit
<1>4. x = y => u = v
  OBVIOUS
<1> HIDE DEF x, y
<1>5. x = y
  BY <1>1, <1>2, <1>3 DEF Apart
<1> QED BY <1>4, <1>5

\* A sort keeps the copies of every edge.
LEMMA SortEffect ==
    ASSUME Base, Base', CellsApart, GraphFollows, Sort
    PROVE  /\ pc = "idle" /\ pc' = "idle" /\ call' = call /\ nE' = nE /\ IsGraph(stable')
           /\ nE = EdgeCount(stable)
           /\ \A e \in Edges : Times(stable'[e[1]], e[2]) = Times(stable[e[1]], e[2])
           /\ GraphFollows'
<1>1. /\ pc = "idle" /\ pc' = "idle" /\ call' = call /\ nE' = nE /\ vertex' = vertex
      /\ stable' = Adjacency'
      /\ mem' = [p \in Ptr |-> [c \in Cells |->
                  IF \E v \in Vertices : InBlock(v, p, c)
                  THEN SortedCell(CHOOSE v \in Vertices : InBlock(v, p, c), c)
                  ELSE mem[p][c]]]
  BY DEF Sort
<1>2. ~Applying /\ IsGraph(stable)
  BY <1>1 DEF Applying, GraphFollows
<1>3. Adjacency = stable /\ \A v \in Vertices : vertex[v].degree = Len(stable[v])
  BY <1>1, <1>2, QuietLists DEF Base
<1>4. ASSUME NEW v \in Vertices
      PROVE  /\ stable[v] \in Seq(Vertices) /\ Len(stable[v]) \in 0 .. MaxDegree
             /\ MaxDegree \in Nat /\ vertex[v].offset \in Nat
             /\ SortedList(stable[v]) \in Seq(Vertices)
             /\ Len(SortedList(stable[v])) = Len(stable[v])
             /\ DOMAIN SortedList(stable[v]) = 1 .. Len(stable[v])
             /\ \A d : Times(SortedList(stable[v]), d) = Times(stable[v], d)
  <2>1. /\ stable[v] \in Seq(Vertices) /\ Len(stable[v]) \in 0 .. MaxDegree
        /\ MaxDegree \in Nat /\ vertex[v] \in VertexData
        /\ DOMAIN stable[v] = 1 .. Len(stable[v])
    BY LengthTypes DEF Base
  <2>2. /\ SortedList(stable[v]) \in Seq(Vertices)
        /\ Len(SortedList(stable[v])) = Len(stable[v])
        /\ DOMAIN SortedList(stable[v]) = DOMAIN stable[v]
        /\ \A d : Times(SortedList(stable[v]), d) = Times(stable[v], d)
    BY <2>1, SortedListTimes
  <2> QED BY <2>1, <2>2 DEF VertexData
<1>5. ASSUME NEW v \in Vertices, NEW i \in 1 .. Len(stable[v])
      PROVE  Value(v, i)' = SortedList(stable[v])[i]
  <2> DEFINE p == vertex[v].ptr
             c == vertex[v].offset + i - 1
  <2>1. /\ vertex[v].degree = Len(stable[v]) /\ vertex[v].degree \in Degrees
        /\ i \in Nat /\ i <= vertex[v].degree /\ 1 <= i /\ vertex[v].offset \in Nat
    <3>1. Len(stable[v]) \in Nat /\ Len(stable[v]) <= MaxDegree /\ i \in Nat /\ 1 <= i
          /\ i <= Len(stable[v]) /\ MaxDegree \in Nat
      BY <1>4
    <3>2. Len(stable[v]) \in 1 .. MaxDegree
      BY <3>1
    <3> QED BY <3>1, <3>2, <1>3, <1>4 DEF Degrees
  <2>2. p \in Ptr /\ c \in Cells
    <3>1. i \in 1 .. vertex[v].degree
      BY <2>1
    <3> QED BY <3>1, ListCell
  <2>3. InBlock(v, p, c)
    <3>1. Limit(v) \in Nat /\ vertex[v].degree <= Limit(v) /\ vertex[v].degree \in Nat
      <4>1. Limit(v) \in Sizes /\ vertex[v].degree <= Limit(v)
        BY <2>1, RoundupType DEF Limit
      <4>2. Limit(v) \in Nat
        BY <4>1, SizesAssumption
      <4>3. vertex[v].degree \in Nat
        BY <2>1, <1>4
      <4> QED BY <4>1, <4>2, <4>3
    <3>2. vertex[v].degree # 0
      BY <2>1, <3>1
    <3>3. c \in vertex[v].offset .. vertex[v].offset + Limit(v) - 1
      BY <2>1, <3>1
    <3> QED BY <3>2, <3>3 DEF InBlock
  <2>4. c - vertex[v].offset + 1 = i
    BY <2>1
  <2> HIDE DEF p, c
  <2>5. (CHOOSE u \in Vertices : InBlock(u, p, c)) = v
    BY <2>3, BlocksOfVertices
  <2>6. mem'[p][c] = SortedCell(v, c)
    BY <2>2, <2>3, <2>5, <1>1
  <2>7. SortedCell(v, c) = SortedList(stable[v])[i]
    BY <2>1, <2>4, <1>3 DEF SortedCell
  <2>8. Value(v, i)' = mem'[p][c]
    BY <1>1 DEF Value, p, c
  <2> QED BY <2>6, <2>7, <2>8
<1>6. ASSUME NEW v \in Vertices PROVE stable'[v] = SortedList(stable[v])
  <2>1. stable'[v] = [i \in 1 .. Len(stable[v]) |-> Value(v, i)']
    BY <1>1, <1>3 DEF Adjacency, List, Value
  <2>2. stable'[v] = [i \in 1 .. Len(stable[v]) |-> SortedList(stable[v])[i]]
    BY <2>1, <1>5
  <2> QED BY <2>2, <1>4
<1>7. IsGraph(stable')
  <2>1. stable' = [v \in Vertices |-> stable'[v]]
    BY <1>1 DEF Adjacency
  <2>2. \A v \in Vertices : stable'[v] \in Seq(Vertices) /\ Len(stable'[v]) <= MaxDegree
    <3> SUFFICES ASSUME NEW v \in Vertices
                 PROVE  stable'[v] \in Seq(Vertices) /\ Len(stable'[v]) <= MaxDegree
      OBVIOUS
    <3>1. stable'[v] = SortedList(stable[v])
      BY <1>6
    <3>2. Len(SortedList(stable[v])) <= MaxDegree /\ SortedList(stable[v]) \in Seq(Vertices)
      BY <1>4
    <3> QED BY <3>1, <3>2
  <2> QED BY <2>1, <2>2 DEF IsGraph
<1>8. \A e \in Edges : Times(stable'[e[1]], e[2]) = Times(stable[e[1]], e[2])
  BY <1>4, <1>6 DEF Edges
<1>9. nE = EdgeCount(stable)
  BY <1>1, <1>2 DEF GraphFollows, EdgesCounted, Inserting, Erasing
<1>10. EdgeCount(stable') = EdgeCount(stable)
  <2>1. CopiesOf(stable') = CopiesOf(stable)
    BY <1>8 DEF CopiesOf
  <2> QED BY <2>1, <1>2, <1>7, EdgesAreCopies
<1>11. GraphFollows'
  BY <1>1, <1>7, <1>9, <1>10, ReturnFollows DEF Base
<1> QED BY <1>1, <1>7, <1>8, <1>9, <1>11

\* Every step keeps the invariant.
LEMMA FollowStep ==
    ASSUME Base, Base', CellsApart, CellsApart', GraphFollows, [Next]_vars
    PROVE  GraphFollows'
<1>1. CASE LoadVertex
  BY <1>1, LoadVertexFollows
<1>2. CASE LoadDone
  BY <1>2, LoadDoneFollows
<1>3. ASSUME NEW b \in Batches, NEW f \in InsertOptions, Insert(b, f[1], f[2])
      PROVE  GraphFollows'
  <2>1. f[1] \in BOOLEAN /\ f[2] \in BOOLEAN /\ ~(f[1] /\ f[2])
    BY OneRemoval
  <2> QED BY <1>3, <2>1, InsertFollows
<1>4. ASSUME NEW b \in Batches, Erase(b) PROVE GraphFollows'
  BY <1>4, EraseFollows
<1>5. CASE InsertStep
  BY <1>5, QueueSourceFollows, QueueDoneFollows, AllocBlockFollows, MoveFollows,
     FreeBlockFollows, AppendEffect DEF InsertStep
<1>6. CASE EraseStep
  BY <1>6, LocateFollows, LocateNothingFollows, OverwriteFollows, OverwriteFaultFollows,
     EraseDoneEffect DEF EraseStep
<1>7. CASE Sort
  BY <1>7, SortEffect
<1>8. CASE UNCHANGED vars
  <2>1. /\ pc' = pc /\ call' = call /\ batch' = batch /\ locs' = locs /\ stable' = stable
        /\ vertex' = vertex /\ mem' = mem /\ nE' = nE /\ todo' = todo /\ queue' = queue
        /\ oldDegree' = oldDegree /\ next' = next
    BY <1>8 DEF vars
  <2>2. /\ Applying' = Applying /\ Inserting' = Inserting /\ Erasing' = Erasing
        /\ Planned' = Planned
    BY <2>1 DEF Applying, Inserting, Erasing, Planned
  <2>3. CallKnown'
    BY <2>1 DEF GraphFollows, CallKnown
  <2>4. BatchCounted'
    <3>1. \A i \in DOMAIN batch : Matches(batch[i])' = Matches(batch[i])
      BY <2>1 DEF Matches, Adjacency, List
    <3> QED BY <2>1, <2>2, <3>1 DEF GraphFollows, BatchCounted
  <2>5. DegreesFollow'
    <3>1. \A v : Final(v)' = Final(v) /\ Settled(v)' = Settled(v)
      BY <2>1 DEF Final, Settled
    <3>2. \A k \in DOMAIN queue : Final(queue[k].src)' = Final(queue[k].src)
      BY <2>1 DEF Final
    <3> QED BY <2>1, <2>2, <3>1, <3>2 DEF GraphFollows, DegreesFollow
  <2>6. ListsFollow'
    <3>1. \A v : Kept(v)' = Kept(v) /\ \A i : Value(v, i)' = Value(v, i)
      BY <2>1, <2>2 DEF Kept, KeptLength, Final, Value
    <3> QED BY <2>1, <2>2, <3>1 DEF GraphFollows, ListsFollow
  <2>7. EdgesCounted'
    BY <2>1, <2>2 DEF GraphFollows, EdgesCounted
  <2> QED BY <2>1, <2>3, <2>4, <2>5, <2>6, <2>7 DEF GraphFollows
<1> QED BY <1>1, <1>2, <1>3, <1>4, <1>5, <1>6, <1>7, <1>8 DEF Next

\* The calls in progress, their batches, the degrees and the lists are those that
\* the graph at the last return and the batch of the caller make.
THEOREM ListsFollowCalls == Spec => [](Base /\ CellsApart /\ GraphFollows)
<1>1. Init => GraphFollows
  BY InitFollows
<1>2. Base /\ CellsApart /\ GraphFollows /\ [Next]_vars /\ Base' /\ CellsApart' => GraphFollows'
  BY FollowStep
<1>3. Spec => []Base
  BY BaseHolds
<1>4. Base => CellsApart
  BY CellsAreApart
<1> QED BY <1>1, <1>2, <1>3, <1>4, PTL DEF Spec

-----------------------------------------------------------------------------
(* The abstract graph.                                                     *)

\* All of it.
Follows == Base /\ CellsApart /\ GraphFollows

\* What the abstract graph shows as its number of edges.
GraphEdges == IF Request = <<>> THEN nE ELSE EdgeCount(stable)

\* The total of the abstract graph is the number of edges of the lists.
LEMMA AbstractCopies ==
    ASSUME NEW l, IsGraph(l)
    PROVE  /\ CopiesOf(l) \in [Graph!Pairs -> Nat]
           /\ Graph!Total(CopiesOf(l)) = EdgeCount(l)
<1>1. Graph!Pairs = Edges
  BY DEF Graph!Pairs, Edges
<1>2. Graph!Total(CopiesOf(l)) = Cardinality(Filled(Edges, CopiesOf(l)))
  BY DEF Graph!Total, Filled, Graph!Cardinality, Cardinality, Graph!Pairs, Edges
<1> QED BY <1>1, <1>2, CopiesType, EdgesAreCopies

\* The abstract graph in each phase.
LEMMA AbstractState ==
    /\ Copies = CopiesOf(stable)
    /\ pc \in {"idle", "load"} => Request = <<>> /\ GraphEdges = nE
    /\ pc \notin {"idle", "load"} /\ call.op = "insert" =>
          Request = <<"insert", call.edges, call.options>> /\ GraphEdges = EdgeCount(stable)
    /\ pc \notin {"idle", "load"} /\ call.op = "erase" =>
          Request = <<"erase", call.edges>> /\ GraphEdges = EdgeCount(stable)
<1>1. Copies = CopiesOf(stable)
  BY DEF Copies, CopiesOf, Times, Where
<1>2. pc \in {"idle", "load"} => Request = <<>>
  BY DEF Request
<1>3. pc \notin {"idle", "load"} /\ call.op = "insert" => Request = <<"insert", call.edges, call.options>>
  BY DEF Request
<1>4. pc \notin {"idle", "load"} /\ call.op = "erase" => Request = <<"erase", call.edges>>
  BY DEF Request
<1>5. <<"insert", call.edges, call.options>> # <<>> /\ <<"erase", call.edges>> # <<>>
  OBVIOUS
<1> QED BY <1>1, <1>2, <1>3, <1>4, <1>5 DEF GraphEdges

\* The graph that is to be loaded is an initial one of the abstract graph.
LEMMA InitRefines == Init => Graph!Init
<1> SUFFICES ASSUME Init PROVE Graph!Init
  OBVIOUS
<1>1. pc = "load" /\ nE = EdgeCount(stable)
  BY DEF Init
<1>2. IsGraph(stable)
  BY InitFollows DEF GraphFollows
<1>3. Request = <<>> /\ GraphEdges = nE /\ Copies = CopiesOf(stable)
  BY <1>1, AbstractState
<1> QED BY <1>1, <1>2, <1>3, AbstractCopies DEF Graph!Init, GraphEdges

\* A step that keeps the call and the lists of the last return is none of the
\* abstract graph.
LEMMA Stutters ==
    ASSUME call' = call, stable' = stable,
           \/ pc \in {"idle", "load"} /\ pc' \in {"idle", "load"} /\ nE' = nE
           \/ /\ pc \notin {"idle", "load"} /\ pc' \notin {"idle", "load"}
              /\ call.op \in {"insert", "erase"}
    PROVE  UNCHANGED <<Request, Copies, GraphEdges>>
<1>1. Copies' = Copies
  BY DEF Copies
<1>2. CASE pc \in {"idle", "load"} /\ pc' \in {"idle", "load"} /\ nE' = nE
  <2>1. Request = <<>> /\ Request' = <<>>
    BY <1>2 DEF Request
  <2> QED BY <1>1, <1>2, <2>1 DEF GraphEdges
<1>3. CASE pc \notin {"idle", "load"} /\ pc' \notin {"idle", "load"} /\ call.op \in {"insert", "erase"}
  <2>1. Request' = Request /\ Request # <<>>
    <3>1. CASE call.op = "insert"
      BY <1>3, <3>1 DEF Request
    <3>2. CASE call.op = "erase"
      BY <1>3, <3>2 DEF Request
    <3> QED BY <1>3, <3>1, <3>2
  <2>2. EdgeCount(stable)' = EdgeCount(stable)
    BY DEF EdgeCount
  <2> QED BY <1>1, <2>1, <2>2 DEF GraphEdges
<1> QED BY <1>2, <1>3

\* A step that ends a call with the lists that the call asks for returns.
LEMMA Returns ==
    ASSUME pc \notin {"idle", "load"}, call.op \in {"insert", "erase"},
           IsGraph(stable), IsGraph(stable'), pc' = "idle", nE' = EdgeCount(stable'),
           \A e \in Edges : Times(stable'[e[1]], e[2]) \in Graph!Results(e, Times(stable[e[1]], e[2]))
    PROVE  Graph!Return
<1>1. Request # <<>>
  <2>1. CASE call.op = "insert"
    BY <2>1 DEF Request
  <2>2. CASE call.op = "erase"
    BY <2>2 DEF Request
  <2> QED BY <2>1, <2>2
<1>2. Request' = <<>>
  BY DEF Request
<1>3. Copies = CopiesOf(stable) /\ Copies' = CopiesOf(stable')
  BY DEF Copies, CopiesOf, Times, Where
<1>4. Copies' \in [Graph!Pairs -> Nat] /\ Graph!Total(Copies') = EdgeCount(stable')
  BY <1>3, AbstractCopies
<1>5. \A e \in Graph!Pairs : Copies'[e] \in Graph!Results(e, Copies[e])
  <2>1. Graph!Pairs = Edges
    BY DEF Graph!Pairs, Edges
  <2>2. \A e \in Edges : /\ Copies[e] = Times(stable[e[1]], e[2])
                         /\ Copies'[e] = Times(stable'[e[1]], e[2])
    BY <1>3, CopiesType
  <2> QED BY <2>1, <2>2
<1>6. (IF Request' = <<>> THEN nE' ELSE EdgeCount(stable)') = Graph!Total(Copies')
  BY <1>2, <1>4
<1> QED BY <1>1, <1>2, <1>4, <1>5, <1>6 DEF Graph!Return

\* An insert returns with a multigraph that gained what its batch asks for.
LEMMA AppendRefines ==
    ASSUME Follows, Follows', AppendBatchEdges
    PROVE  Graph!Return
<1>1. /\ pc' = "idle" /\ IsGraph(stable') /\ nE' = EdgeCount(stable') /\ Inserting
      /\ \A e \in Edges : Times(stable'[e[1]], e[2]) = Times(stable[e[1]], e[2]) + Times(batch, e)
  BY AppendEffect DEF Follows
<1>2. /\ pc = "free" /\ call.op = "insert" /\ IsGraph(stable) /\ batch \in Seq(Edges)
      /\ call.edges \in Seq(Edges) /\ call.options \in Graph!Options
  BY HornetAssumption DEF AppendBatchEdges, Follows, GraphFollows, CallKnown, Base, TypeOK
<1>3. Request = <<"insert", call.edges, call.options>>
  BY <1>2 DEF Request
<1>4. ASSUME NEW e \in Edges
      PROVE  Times(stable'[e[1]], e[2]) \in Graph!Results(e, Times(stable[e[1]], e[2]))
  <2> DEFINE k == Times(call.edges, e)
             n == Times(stable[e[1]], e[2])
             b == Times(batch, e)
  <2>1. k \in Nat /\ b \in Nat /\ n \in Nat
    <3>1. stable[e[1]] \in Seq(Vertices)
      BY <1>2 DEF IsGraph, Edges
    <3> QED BY <3>1, <1>2, TimesType
  <2>2. Graph!CopiesIn(call.edges, e) = k
    BY DEF Graph!CopiesIn, Times, Where, Graph!Cardinality, Cardinality
  <2>3. Graph!Added(e) = Wanted(call.edges, call.options.batchDuplicates, e)
    <3>1. Graph!Added(e) = IF call.options.batchDuplicates THEN Graph!Least(1, k) ELSE k
      BY <1>3, <2>2 DEF Graph!Added
    <3>2. Wanted(call.edges, call.options.batchDuplicates, e)
             = IF call.options.batchDuplicates /\ k # 0 THEN 1 ELSE k
      BY DEF Wanted
    <3> HIDE DEF k
    <3> QED BY <3>1, <3>2, <2>1 DEF Graph!Least
  <2>4. b <= Graph!Added(e) /\ (~call.options.graphDuplicates => b = Graph!Added(e))
    BY <1>1, <2>3 DEF Follows, GraphFollows, BatchCounted
  <2>5. Graph!Added(e) \in Nat
    <3>1. Graph!Added(e) = 1 \/ Graph!Added(e) = k
      BY <2>3 DEF Wanted
    <3> QED BY <3>1, <2>1
  <2>6. Graph!Results(e, n) = IF call.options.graphDuplicates THEN n .. n + Graph!Added(e)
                              ELSE {n + Graph!Added(e)}
    BY <1>3 DEF Graph!Results
  <2>7. Times(stable'[e[1]], e[2]) = n + b
    BY <1>1
  <2> HIDE DEF k, n, b
  <2>8. n + b \in Graph!Results(e, n)
    BY <2>1, <2>4, <2>5, <2>6
  <2> QED BY <2>7, <2>8 DEF n
<1> QED BY <1>1, <1>2, <1>4, Returns

\* With the batch that an erase applies, a graph loses what the call asks for.
LEMMA Erased ==
    ASSUME Follows, pc \notin {"idle", "load"}, call.op = "erase", NEW e \in Edges, NEW m \in Nat,
           Times(stable[e[1]], e[2]) = m + Graph!Least(Times(stable[e[1]], e[2]), Times(call.edges, e))
    PROVE  m \in Graph!Results(e, Times(stable[e[1]], e[2]))
<1> DEFINE k == Times(call.edges, e)
           n == Times(stable[e[1]], e[2])
<1>1. Request = <<"erase", call.edges>> /\ call.edges \in Seq(Edges)
  BY HornetAssumption DEF Request, Follows, GraphFollows, CallKnown
<1>2. Graph!CopiesIn(call.edges, e) = k
  BY DEF Graph!CopiesIn, Times, Where, Graph!Cardinality, Cardinality
<1>3. k \in Nat /\ n \in Nat
  <2>1. stable[e[1]] \in Seq(Vertices)
    BY DEF Follows, GraphFollows, IsGraph, Edges
  <2> QED BY <1>1, <2>1, TimesType
<1>4. Graph!Results(e, n) = {n - Graph!Least(n, k)}
  BY <1>1, <1>2 DEF Graph!Results
<1>5. Graph!Least(n, k) \in Nat
  <2> HIDE DEF n, k
  <2> QED BY <1>3 DEF Graph!Least
<1>6. n = m + Graph!Least(n, k)
  OBVIOUS
<1> HIDE DEF n, k
<1>7. m = n - Graph!Least(n, k)
  BY <1>3, <1>5, <1>6
<1> QED BY <1>4, <1>7 DEF n

\* An erase returns with a multigraph that lost what its batch asks for.
LEMMA EraseRefines ==
    ASSUME Follows, Follows', EraseDone
    PROVE  Graph!Return
<1>1. /\ pc' = "idle" /\ IsGraph(stable') /\ nE' = EdgeCount(stable') /\ Erasing
      /\ \A e \in Edges : Times(stable[e[1]], e[2]) = Times(stable'[e[1]], e[2]) + Times(batch, e)
  BY EraseDoneEffect DEF Follows
<1>2. pc = "free" /\ call.op = "erase" /\ IsGraph(stable)
  BY DEF EraseDone, Follows, GraphFollows
<1>3. ASSUME NEW e \in Edges
      PROVE  Times(stable'[e[1]], e[2]) \in Graph!Results(e, Times(stable[e[1]], e[2]))
  <2>1. PICK m : m = Times(stable'[e[1]], e[2])
    OBVIOUS
  <2>2. m \in Nat
    <3>1. stable'[e[1]] \in Seq(Vertices)
      BY <1>1 DEF IsGraph, Edges
    <3> QED BY <2>1, <3>1, TimesType
  <2>3. Times(batch, e) = Graph!Least(Times(stable[e[1]], e[2]), Times(call.edges, e))
    BY <1>1 DEF Follows, GraphFollows, BatchCounted
  <2>4. Times(stable[e[1]], e[2]) = m + Graph!Least(Times(stable[e[1]], e[2]), Times(call.edges, e))
    BY <1>1, <2>1, <2>3
  <2>5. m \in Graph!Results(e, Times(stable[e[1]], e[2]))
    BY <1>2, <2>2, <2>4, Erased
  <2> QED BY <2>1, <2>5
<1> QED BY <1>1, <1>2, <1>3, Returns

\* So does one that finds nothing to erase.
LEMMA OverwriteRefines ==
    ASSUME Follows, Follows', OverwriteDeletedEdges
    PROVE  Graph!Return \/ UNCHANGED <<Request, Copies, GraphEdges>>
<1>1. /\ pc = "overwrite" /\ Planned /\ call.op = "erase" /\ IsGraph(stable) /\ batch \in Seq(Edges)
  BY DEF OverwriteDeletedEdges, Follows, GraphFollows, CallKnown, Planned, Base, TypeOK
<1>2. CASE batch = <<>>
  <2>1. pc' = "idle" /\ stable' = stable /\ nE' = nE /\ nE = EdgeCount(stable)
    BY <1>2, NothingErased DEF Follows
  <2>2. nE' = EdgeCount(stable') /\ IsGraph(stable')
    BY <1>1, <2>1
  <2>3. ASSUME NEW e \in Edges
        PROVE  Times(stable'[e[1]], e[2]) \in Graph!Results(e, Times(stable[e[1]], e[2]))
    <3>1. PICK m : m = Times(stable[e[1]], e[2])
      OBVIOUS
    <3>2. m \in Nat
      <4>1. stable[e[1]] \in Seq(Vertices)
        BY <1>1 DEF IsGraph, Edges
      <4> QED BY <3>1, <4>1, TimesType
    <3>3. Times(batch, e) = Graph!Least(m, Times(call.edges, e))
      BY <1>1, <3>1 DEF Follows, GraphFollows, BatchCounted
    <3>4. Times(batch, e) = 0
      <4>1. Where(batch, e) = {}
        BY <1>2 DEF Where
      <4> QED BY <4>1, FS_EmptySet DEF Times
    <3>5. m = m + Graph!Least(m, Times(call.edges, e))
      BY <3>2, <3>3, <3>4
    <3>6. m \in Graph!Results(e, Times(stable[e[1]], e[2]))
      BY <1>1, <3>1, <3>2, <3>5, Erased
    <3> QED BY <2>1, <3>1, <3>6
  <2> QED BY <1>1, <2>1, <2>2, <2>3, Returns
<1>3. CASE batch # <<>>
  <2>1. pc' = "queue" /\ call' = call /\ stable' = stable
    BY <1>3 DEF OverwriteDeletedEdges
  <2> QED BY <1>1, <2>1, Stutters
<1> QED BY <1>2, <1>3

\* An insert begins.
LEMMA InsertRefines ==
    ASSUME Follows, NEW b \in Batches, NEW f \in BOOLEAN, NEW g \in BOOLEAN, Insert(b, f, g)
    PROVE  Graph!Next
<1> DEFINE o == [batchDuplicates |-> f, graphDuplicates |-> g]
<1>1. /\ pc = "idle" /\ pc' = "queue" /\ stable' = stable
      /\ call' = [op |-> "insert", edges |-> b, options |-> o]
  BY DEF Insert
<1>2. nE = EdgeCount(stable)
  BY <1>1 DEF Follows, GraphFollows, EdgesCounted, Inserting, Erasing, Applying
<1>3. o \in Graph!Options
  BY DEF Graph!Options
<1>4. Request = <<>>
  BY <1>1 DEF Request
<1>5. Request' = <<"insert", b, o>>
  BY <1>1 DEF Request
<1>6. Copies' = Copies /\ EdgeCount(stable)' = EdgeCount(stable)
  BY <1>1 DEF Copies, EdgeCount
<1>7. Request' # <<>>
  BY <1>5
<1> HIDE DEF o
<1>8. Graph!InsertCall(b, o)
  BY <1>2, <1>4, <1>5, <1>6, <1>7 DEF Graph!InsertCall
<1> QED BY <1>3, <1>8 DEF Graph!Next

\* An erase begins.
LEMMA EraseCallRefines ==
    ASSUME Follows, NEW b \in Batches, Erase(b)
    PROVE  Graph!Next
<1>1. /\ pc = "idle" /\ pc' = "locate" /\ stable' = stable
      /\ call' = [op |-> "erase", edges |-> b]
  BY DEF Erase
<1>2. nE = EdgeCount(stable)
  BY <1>1 DEF Follows, GraphFollows, EdgesCounted, Inserting, Erasing, Applying
<1>4. Request = <<>>
  BY <1>1 DEF Request
<1>5. Request' = <<"erase", b>>
  BY <1>1 DEF Request
<1>6. Copies' = Copies /\ EdgeCount(stable)' = EdgeCount(stable)
  BY <1>1 DEF Copies, EdgeCount
<1>7. Request' # <<>>
  BY <1>5
<1>8. Graph!EraseCall(b)
  BY <1>2, <1>4, <1>5, <1>6, <1>7 DEF Graph!EraseCall
<1> QED BY <1>8 DEF Graph!Next

\* The kernels and host loops between the call and the return show nothing.
LEMMA SilentRefines ==
    ASSUME Follows,
           \/ LoadVertex \/ LoadDone \/ Locate \/ LocateNothing \/ OverwriteFault
           \/ \E s \in todo : QueueSource(s)
           \/ QueueDone \/ AllocBlock \/ MoveAdjacencyLists \/ FreeBlock
    PROVE  UNCHANGED <<Request, Copies, GraphEdges>>
<1>1. CASE LoadVertex
  <2>1. pc = "load" /\ pc' = "load" /\ call' = call /\ stable' = stable /\ nE' = nE
    BY <1>1 DEF LoadVertex
  <2> QED BY <2>1, Stutters
<1>2. CASE LoadDone
  <2>1. pc = "load" /\ pc' = "idle" /\ stable' = stable /\ nE' = nE
    BY <1>2 DEF LoadDone
  <2>2. Request = <<>> /\ Request' = <<>>
    BY <2>1 DEF Request
  <2>3. Copies' = Copies
    BY <2>1 DEF Copies
  <2> QED BY <2>1, <2>2, <2>3 DEF GraphEdges
<1>3. ASSUME pc \notin {"load", "idle"}, pc' \notin {"load", "idle"}, call' = call, stable' = stable
      PROVE  UNCHANGED <<Request, Copies, GraphEdges>>
  <2>1. call.op \in {"insert", "erase"}
    BY <1>3 DEF Follows, GraphFollows, CallKnown
  <2> QED BY <1>3, <2>1, Stutters
<1>4. CASE Locate
  BY <1>3, <1>4 DEF Locate
<1>5. CASE LocateNothing
  BY <1>3, <1>5 DEF LocateNothing
<1>6. CASE OverwriteFault
  BY <1>3, <1>6 DEF OverwriteFault
<1>7. CASE \E s \in todo : QueueSource(s)
  <2>1. pc = "queue" /\ pc' = pc /\ call' = call /\ stable' = stable
    BY <1>7 DEF QueueSource
  <2> QED BY <1>3, <2>1
<1>8. CASE QueueDone
  BY <1>3, <1>8 DEF QueueDone
<1>9. CASE AllocBlock
  <2>1. pc = "alloc" /\ pc' = pc /\ call' = call /\ stable' = stable
    BY <1>9 DEF AllocBlock
  <2> QED BY <1>3, <2>1
<1>10. CASE MoveAdjacencyLists
  <2>1. pc = "alloc" /\ pc' = "free" /\ call' = call /\ stable' = stable
    BY <1>10 DEF MoveAdjacencyLists
  <2> QED BY <1>3, <2>1
<1>11. CASE FreeBlock
  <2>1. pc = "free" /\ pc' = "free" /\ call' = call /\ stable' = stable
    BY <1>11 DEF FreeBlock
  <2> QED BY <1>3, <2>1
<1> QED BY <1>1, <1>2, <1>4, <1>5, <1>6, <1>7, <1>8, <1>9, <1>10, <1>11

\* A sort changes the order of lists, and the abstract graph has none.
LEMMA SortRefines ==
    ASSUME Follows, Follows', Sort
    PROVE  UNCHANGED <<Request, Copies, GraphEdges>>
<1>1. /\ pc = "idle" /\ pc' = "idle" /\ nE' = nE
      /\ \A e \in Edges : Times(stable'[e[1]], e[2]) = Times(stable[e[1]], e[2])
  BY SortEffect DEF Follows
<1>2. Request = <<>> /\ Request' = <<>>
  BY <1>1 DEF Request
<1>3. Copies' = Copies
  BY <1>1 DEF Copies, Times, Where
<1> QED BY <1>1, <1>2, <1>3 DEF GraphEdges

\* Every step is one of the abstract graph, or shows nothing.
LEMMA RefineStep ==
    ASSUME Follows, Follows', [Next]_vars
    PROVE  Graph!Next \/ UNCHANGED <<Request, Copies, GraphEdges>>
<1>1. CASE LoadVertex \/ LoadDone
  BY <1>1, SilentRefines
<1>2. ASSUME NEW b \in Batches, NEW f \in InsertOptions, Insert(b, f[1], f[2])
      PROVE  Graph!Next
  <2>1. f[1] \in BOOLEAN /\ f[2] \in BOOLEAN
    BY OneRemoval
  <2> QED BY <1>2, <2>1, InsertRefines
<1>3. ASSUME NEW b \in Batches, Erase(b) PROVE Graph!Next
  BY <1>3, EraseCallRefines
<1>4. CASE InsertStep
  <2>1. CASE AppendBatchEdges
    BY <2>1, AppendRefines DEF Graph!Next
  <2>2. CASE ~AppendBatchEdges
    BY <1>4, <2>2, SilentRefines DEF InsertStep
  <2> QED BY <2>1, <2>2
<1>5. CASE EraseStep
  <2>1. CASE EraseDone
    BY <2>1, EraseRefines DEF Graph!Next
  <2>2. CASE OverwriteDeletedEdges
    BY <2>2, OverwriteRefines DEF Graph!Next
  <2>3. CASE ~EraseDone /\ ~OverwriteDeletedEdges
    BY <1>5, <2>3, SilentRefines DEF EraseStep
  <2> QED BY <2>1, <2>2, <2>3
<1>6. CASE Sort
  BY <1>6, SortRefines
<1>7. CASE UNCHANGED vars
  <2>1. pc' = pc /\ call' = call /\ stable' = stable /\ nE' = nE
    BY <1>7 DEF vars
  <2>2. Request' = Request /\ Copies' = Copies /\ EdgeCount(stable)' = EdgeCount(stable)
    BY <2>1 DEF Request, Copies, EdgeCount
  <2> QED BY <2>1, <2>2 DEF GraphEdges
<1> QED BY <1>1, <1>2, <1>3, <1>4, <1>5, <1>6, <1>7 DEF Next

\* What the calls do to the lists is what a dynamic graph promises: every insert
\* and erase changes the multigraph exactly as its batch says, and nE() is the
\* number of its edges whenever no call is in progress.
THEOREM ListsImplementGraph == Spec => ImplementsGraph
<1>1. Init => Graph!Init
  BY InitRefines
<1>2. Follows /\ Follows' /\ [Next]_vars
        => [Graph!Next]_<<Request, Copies, IF Request = <<>> THEN nE ELSE EdgeCount(stable)>>
  BY RefineStep DEF GraphEdges
<1>3. Spec => []Follows
  BY ListsFollowCalls DEF Follows
<1> QED BY <1>1, <1>2, <1>3, PTL DEF Spec, Graph!Spec, ImplementsGraph

-----------------------------------------------------------------------------
(* Lists that a call does not name.                                        *)

\* The batch that a call applies has no source that the caller's has not.
LEMMA NoNewSources ==
    ASSUME Follows, Applying
    PROVE  /\ batch \in Seq(Edges) /\ call.edges \in Seq(Edges)
           /\ Sources(batch) \subseteq Sources(call.edges)
<1>1. batch \in Seq(Edges) /\ call.edges \in Seq(Edges)
  BY HornetAssumption DEF Follows, Base, TypeOK, GraphFollows, CallKnown, Applying
<1>2. Inserting \/ Erasing
  BY DEF Follows, GraphFollows, CallKnown, Inserting, Erasing, Applying
<1>3. ASSUME NEW e \in Edges PROVE Times(batch, e) <= Times(call.edges, e)
  <2>1. PICK b, k, n : /\ b = Times(batch, e) /\ k = Times(call.edges, e)
                       /\ n = Times(stable[e[1]], e[2])
    OBVIOUS
  <2>2. b \in Nat /\ k \in Nat /\ n \in Nat
    <3>1. stable[e[1]] \in Seq(Vertices)
      BY DEF Follows, GraphFollows, IsGraph, Edges
    <3> QED BY <1>1, <2>1, <3>1, TimesType
  <2>3. CASE Inserting
    <3>1. b <= Wanted(call.edges, call.options.batchDuplicates, e)
      BY <2>1, <2>3 DEF Follows, GraphFollows, BatchCounted
    <3>2. \/ Wanted(call.edges, call.options.batchDuplicates, e) = k
          \/ Wanted(call.edges, call.options.batchDuplicates, e) = 1 /\ k # 0
      BY <2>1 DEF Wanted
    <3>3. b <= k
      BY <2>2, <3>1, <3>2
    <3> QED BY <2>1, <3>3
  <2>4. CASE Erasing
    <3>1. b = Graph!Least(n, k)
      BY <2>1, <2>4 DEF Follows, GraphFollows, BatchCounted
    <3>2. b <= k
      BY <2>2, <3>1 DEF Graph!Least
    <3> QED BY <2>1, <3>2
  <2> QED BY <1>2, <2>3, <2>4
<1> QED BY <1>1, <1>3, FewerSources

\* The list of a vertex that the call does not name is the one that the last
\* return left.
UnnamedKeep ==
    Follows /\ pc # "load" =>
        \A v \in Vertices : ~Applying \/ v \notin Sources(call.edges) => Adjacency[v] = stable[v]

\* They keep the list.
LEMMA KeptList == UnnamedKeep
<1> USE DEF UnnamedKeep
<1> SUFFICES ASSUME Follows, pc # "load", NEW v \in Vertices,
                    ~Applying \/ v \notin Sources(call.edges)
             PROVE  Adjacency[v] = stable[v]
  OBVIOUS
<1>1. CASE ~Applying
  BY <1>1, QuietLists DEF Follows, Base
<1>2. CASE Applying
  <2>1. v \notin Sources(batch) /\ batch \in Seq(Edges)
    BY <1>2, NoNewSources
  <2>2. Requested(batch, v) = 0
    BY <2>1, NotRequested
  <2>3. /\ Len(stable[v]) \in Nat /\ stable[v] \in Seq(Vertices)
        /\ vertex[v].degree = Final(v) \/ vertex[v].degree = Len(stable[v])
    <3>1. Len(stable[v]) \in 0 .. MaxDegree /\ stable[v] \in Seq(Vertices) /\ MaxDegree \in Nat
      BY LengthTypes DEF Follows, Base
    <3> QED BY <3>1 DEF Follows, GraphFollows, DegreesFollow
  <2>4. Final(v) = Len(stable[v])
    BY <2>2, <2>3 DEF Final
  <2>5. vertex[v].degree = Len(stable[v])
    BY <2>3, <2>4
  <2>6. \A i \in 1 .. Len(stable[v]) : Value(v, i) = stable[v][i]
    BY <2>1 DEF Follows, GraphFollows, ListsFollow
  <2>7. Adjacency[v] = [i \in 1 .. Len(stable[v]) |-> Value(v, i)]
    BY <2>5 DEF Adjacency, List, Value
  <2>8. Adjacency[v] = [i \in 1 .. Len(stable[v]) |-> stable[v][i]]
    BY <2>6, <2>7
  <2> QED BY <2>3, <2>8
<1> QED BY <1>1, <1>2

\* So does the step after.
LEMMA KeptListAfter == UnnamedKeep'
  BY KeptList, PTL

\* What CallsKeepLists says of a step of a call.
ListsKept ==
    /\ \A v \in Vertices \ Sources(call.edges) : Adjacency'[v] = Adjacency[v]
    /\ pc' = "idle" /\ call.op = "insert" =>
          \A v \in Vertices : stable[v] = SubSeq(Adjacency'[v], 1, Len(stable[v]))

\* appendBatchEdges writes behind the lists of its sources only.
LEMMA AppendKeeps ==
    ASSUME Follows, AppendBatchEdges
    PROVE  ListsKept
<1>1. /\ stable' = Adjacency' /\ Inserting
      /\ \A v \in Vertices :
            /\ Len(stable'[v]) = Len(stable[v]) + Requested(batch, v)
            /\ DOMAIN stable'[v] = 1 .. Len(stable'[v])
            /\ \A i \in 1 .. Len(stable[v]) : stable'[v][i] = stable[v][i]
  BY AppendedLists DEF Follows
<1>2. Applying /\ pc # "load"
  BY <1>1 DEF Inserting, Applying
<1>3. ASSUME NEW v \in Vertices
      PROVE  /\ stable[v] \in Seq(Vertices) /\ Len(stable[v]) \in Nat
             /\ stable[v] = [i \in 1 .. Len(stable[v]) |-> stable[v][i]]
  <2>1. stable[v] \in Seq(Vertices)
    BY DEF Follows, GraphFollows, IsGraph
  <2> QED BY <2>1
<1>4. ASSUME NEW v \in Vertices \ Sources(call.edges) PROVE Adjacency'[v] = Adjacency[v]
  <2>1. v \notin Sources(batch) /\ batch \in Seq(Edges)
    BY <1>2, NoNewSources
  <2>2. Requested(batch, v) = 0
    BY <2>1, NotRequested
  <2>3. DOMAIN stable'[v] = 1 .. Len(stable[v])
    BY <1>1, <1>3, <2>2
  <2>4. Adjacency'[v] = [i \in 1 .. Len(stable[v]) |-> stable'[v][i]]
    <3>1. Adjacency'[v] = [i \in DOMAIN stable'[v] |-> stable'[v][i]]
      BY <1>1 DEF Adjacency, List
    <3> QED BY <2>3, <3>1
  <2>5. Adjacency'[v] = stable[v]
    BY <1>1, <1>3, <2>4
  <2> QED BY <1>2, <2>5, KeptList DEF UnnamedKeep
<1>5. ASSUME NEW v \in Vertices
      PROVE  stable[v] = SubSeq(Adjacency'[v], 1, Len(stable[v]))
  <2>1. SubSeq(stable'[v], 1, Len(stable[v])) = [i \in 1 .. Len(stable[v]) |-> stable'[v][i]]
    BY <1>3
  <2> QED BY <1>1, <1>3, <2>1
<1> QED BY <1>4, <1>5 DEF ListsKept

\* A step from one phase of a call to the next.
LEMMA PhaseKeeps ==
    ASSUME Follows, Follows', pc \notin {"load", "idle"}, pc' \notin {"load", "idle"},
           call' = call, stable' = stable
    PROVE  ListsKept
<1>1. ASSUME NEW v \in Vertices \ Sources(call.edges) PROVE Adjacency'[v] = Adjacency[v]
  <2>1. Adjacency[v] = stable[v]
    BY KeptList DEF UnnamedKeep
  <2>2. Adjacency'[v] = stable'[v]
    BY KeptListAfter DEF UnnamedKeep
  <2> QED BY <2>1, <2>2
<1> QED BY <1>1 DEF ListsKept

\* Every step of a call keeps the lists that it must.
LEMMA KeepStep ==
    ASSUME Follows, Follows', [Next]_vars, pc \notin {"load", "idle"}
    PROVE  ListsKept \/ UNCHANGED vars
<1>1. CASE AppendBatchEdges
  BY <1>1, AppendKeeps
<1>2. CASE EraseDone
  <2>1. call.op = "erase" /\ Adjacency' = Adjacency
    BY <1>2 DEF EraseDone, Adjacency, List
  <2> QED BY <2>1 DEF ListsKept
<1>3. CASE OverwriteDeletedEdges
  <2>1. CASE batch = <<>>
    <3>1. stable' = stable /\ stable' = Adjacency'
      BY <1>3, <2>1, NothingErased DEF Follows, OverwriteDeletedEdges, Return
    <3>2. pc = "overwrite" /\ call.op = "erase" /\ ~Applying
      BY <1>3 DEF OverwriteDeletedEdges, Follows, GraphFollows, CallKnown, Applying
    <3>3. Adjacency = stable
      BY <3>2, QuietLists DEF Follows, Base
    <3> QED BY <3>1, <3>2, <3>3 DEF ListsKept
  <2>2. CASE batch # <<>>
    <3>1. pc' = "queue" /\ call' = call /\ stable' = stable
      BY <1>3, <2>2 DEF OverwriteDeletedEdges
    <3> QED BY <3>1, PhaseKeeps
  <2> QED BY <2>1, <2>2
<1>4. CASE \E s \in todo : QueueSource(s)
  <2>1. pc = "queue" /\ pc' = pc /\ call' = call /\ stable' = stable
    BY <1>4 DEF QueueSource
  <2> QED BY <2>1, PhaseKeeps
<1>5. CASE QueueDone
  BY <1>5, PhaseKeeps DEF QueueDone
<1>6. CASE AllocBlock
  <2>1. pc = "alloc" /\ pc' = pc /\ call' = call /\ stable' = stable
    BY <1>6 DEF AllocBlock
  <2> QED BY <2>1, PhaseKeeps
<1>7. CASE MoveAdjacencyLists
  <2>1. pc' = "free" /\ call' = call /\ stable' = stable
    BY <1>7 DEF MoveAdjacencyLists
  <2> QED BY <2>1, PhaseKeeps
<1>8. CASE FreeBlock
  <2>1. pc = "free" /\ pc' = pc /\ call' = call /\ stable' = stable
    BY <1>8 DEF FreeBlock
  <2> QED BY <2>1, PhaseKeeps
<1>9. CASE Locate
  BY <1>9, PhaseKeeps DEF Locate
<1>10. CASE LocateNothing
  BY <1>10, PhaseKeeps DEF LocateNothing
<1>11. CASE OverwriteFault
  BY <1>11, PhaseKeeps DEF OverwriteFault
<1>12. CASE \/ LoadVertex \/ LoadDone \/ Sort
            \/ \E b \in Batches, f \in InsertOptions : Insert(b, f[1], f[2])
            \/ \E b \in Batches : Erase(b)
  BY <1>12 DEF LoadVertex, LoadDone, Sort, Insert, Erase
<1> QED BY <1>1, <1>2, <1>3, <1>4, <1>5, <1>6, <1>7, <1>8, <1>9, <1>10, <1>11, <1>12
        DEF Next, InsertStep, EraseStep

\* No step of a call changes the list of a vertex that the caller's batch does not
\* name, and an insert leaves each list a prefix of what it becomes.
THEOREM CallsKeep == Spec => CallsKeepLists
<1>1. Follows /\ Follows' /\ [Next]_vars
        => [pc \notin {"load", "idle"} =>
              /\ \A v \in Vertices \ Sources(call.edges) : Adjacency'[v] = Adjacency[v]
              /\ pc' = "idle" /\ call.op = "insert" =>
                    \A v \in Vertices : stable[v] = SubSeq(Adjacency'[v], 1, Len(stable[v]))]_vars
  BY KeepStep DEF ListsKept
<1>2. Spec => []Follows
  BY ListsFollowCalls DEF Follows
<1> QED BY <1>1, <1>2, PTL DEF Spec, CallsKeepLists
===============================================================================
