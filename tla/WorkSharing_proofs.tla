------------------------ MODULE WorkSharing_proofs ------------------------
(***************************************************************************)
(* Proofs about the sharing of a kernel's work among its threads.          *)
(*                                                                         *)
(* LoadBalancing: forAllEdges gives each edge to one thread, with both     *)
(* strategies, for every size of a block and every array.                  *)
(*                                                                         *)
(* TriangleCounting: forAllAdjUnions gives each edge to one kernel, the    *)
(* threads of an intersection count each common neighbour once, and the    *)
(* counts are those of the edges, for every graph, every block size that   *)
(* is a power of two, and every division of the edges into bins.           *)
(***************************************************************************)
EXTENDS LoadBalancing, TriangleCounting, Enumeration, TLAPS

-----------------------------------------------------------------------------
(* The inductive invariant.                                                *)

N == Len(degrees)
P == ITEMS_PER_BLOCK
Blocks == 0 .. CeilDiv(work[N], P) - 1

\* work is the prefix sum of the degrees.
IsSum(w) == /\ w \in [0 .. N -> Nat]
            /\ w[0] = 0
            /\ \A i \in Positions : w[i + 1] = w[i] + Degree(i)

\* The number of an edge, and the edges whose numbers are those of a block.
Number(e)  == work[e[1]] + e[2]
EdgesOf(b) == {e \in AllEdges : b * P <= Number(e) /\ Number(e) < b * P + P}

\* Edge number x is edge e.
IsEdge(x, e) == /\ e[1] \in Positions
                /\ work[e[1]] <= x /\ x < work[e[1] + 1]
                /\ e[2] = x - work[e[1]]

BlockRecord ==
    [at    : {"bounds", "load", "search", "done"},
     smem  : [0 .. P - 1 -> Int],
     start : Int, chunk : Int, low : Int,
     reg   : [Threads -> [Items -> Int \X Int]]]

Fresh(b) == <<IF b + 1 \in Blocks THEN Unset ELSE -1, Unset>>

\* The items of block b below the limit have their edges, the others nothing.
ItemsSet(b, r) ==
    \A t \in Threads, i \in Items :
        IF Searched(b, t) + i < r.low THEN IsEdge(Searched(b, t) + i, r.reg[t][i])
                                      ELSE r.reg[t][i] = Fresh(b)

\* The cells of a block that are still to be read end behind the position of
\* its last item; the limit is the first of them.
ChunkLeft(b, r) ==
    /\ Bound(b) <= r.start
    /\ r.start + r.chunk = Bound(b + 1) + 2
    /\ r.chunk > 0 => r.low = work[r.start] \/ (r.start = Bound(b) /\ r.low = 0)
    /\ r.chunk <= 0 => r.low = work[Bound(b + 1) + 1]

ChunkLoaded(r) ==
    /\ r.chunk > 0
    /\ \A c \in 0 .. Least(r.chunk, P) - 1 : r.smem[c] = work[r.start + c]

BlockOK(b, r) == /\ r \in BlockRecord
                 /\ r.at = "bounds" => r.low = 0
                 /\ r.at # "done" => ItemsSet(b, r)
                 /\ r.at \in {"load", "search"} => ChunkLeft(b, r)
                 /\ r.at = "search" => ChunkLoaded(r)

Given == IF pc = "groups" THEN UNION {Strided(id) : id \in 0 .. GroupThreads - 1 \ groups}
         ELSE IF pc = "blocks" THEN UNION {EdgesOf(b) : b \in {c \in Blocks : block[c].at = "done"}}
         ELSE IF pc = "done" THEN AllEdges
         ELSE {}

BeforeLaunch == pc \in {"call", "sum", "groups"} => block = <<>>
GroupsLeft == pc = "groups" => groups \subseteq 0 .. GroupThreads - 1
SumFirst == pc = "sum" => \A i \in Positions : work[i] = Degree(i)
BlocksRun == pc = "blocks" => /\ IsSum(work)
                              /\ DOMAIN block = Blocks
                              /\ \A b \in Blocks : BlockOK(b, block[b])

Ended == pc = "done" => \A b \in DOMAIN block : block[b].at # "search"

IInv == /\ degrees \in Inputs
        /\ pc \in {"call", "sum", "groups", "blocks", "done"}
        /\ DOMAIN work = 0 .. N
        /\ BeforeLaunch
        /\ GroupsLeft
        /\ SumFirst
        /\ BlocksRun
        /\ Ended
        /\ calls = SetToBag(Given)

-----------------------------------------------------------------------------
(* Arithmetic.                                                             *)

LEMMA SizesAre ==
    /\ BLOCK_SIZE \in Nat \ {0} /\ ITEMS_PER_THREAD \in Nat \ {0}
    /\ VW_SIZE \in Nat \ {0}
    /\ P \in Nat /\ P >= 2 /\ P = BLOCK_SIZE * ITEMS_PER_THREAD
<1>1. /\ BLOCK_SIZE \in Nat \ {0} /\ ITEMS_PER_THREAD \in Nat \ {0}
      /\ VW_SIZE \in Nat \ {0} /\ ITEMS_PER_BLOCK >= 2
  BY LoadAssumption
<1> QED BY <1>1 DEF P, ITEMS_PER_BLOCK

\* Multiples of d are d apart.
LEMMA Multiples ==
    ASSUME NEW a \in Int, NEW b \in Int, a < b, NEW d \in Nat
    PROVE  a * d \in Int /\ b * d \in Int /\ a * d + d <= b * d
<1>1. PICK k \in Nat : k = b - a - 1
  OBVIOUS
<1>2. k * d \in Nat /\ b = a + 1 + k
  BY <1>1
<1>3. (a + 1 + k) * d = a * d + d + k * d
  OBVIOUS
<1> QED BY <1>2, <1>3

\* Quotient and remainder, and that there are no others.
LEMMA Quotient ==
    ASSUME NEW x \in Nat, NEW d \in Nat \ {0}
    PROVE  /\ x \div d \in Nat /\ x % d \in 0 .. d - 1
           /\ x = (x \div d) * d + (x % d)
           /\ \A q \in Nat, r \in 0 .. d - 1 : x = q * d + r => q = x \div d /\ r = x % d
<1>1. PICK a \in Nat, s \in 0 .. d - 1 : a = x \div d /\ s = x % d /\ x = a * d + s
  OBVIOUS
<1>2. /\ a \in Nat /\ s \in 0 .. d - 1 /\ x = a * d + s
      /\ x \div d = a /\ x % d = s
  BY <1>1
<1>3. ASSUME NEW q \in Nat, NEW r \in 0 .. d - 1, x = q * d + r PROVE q = a /\ r = s
  <2>1. /\ q * d \in Int /\ a * d \in Int
        /\ q < a => q * d + d <= a * d
        /\ a < q => a * d + d <= q * d
    BY Multiples
  <2>2. q = a
    BY <1>2, <1>3, <2>1
  <2> QED BY <1>2, <1>3, <2>1, <2>2
<1>4. \A q \in Nat, r \in 0 .. d - 1 : x = q * d + r => q = x \div d /\ r = x % d
  BY <1>2, <1>3, Zenon
<1> QED BY <1>2, <1>4, Zenon

LEMMA CeilDivIs ==
    ASSUME NEW x \in Nat, NEW d \in Nat \ {0}
    PROVE  /\ CeilDiv(x, d) \in Nat
           /\ x <= CeilDiv(x, d) * d /\ CeilDiv(x, d) * d <= x + d - 1
<1>1. x + d - 1 \in Nat
  OBVIOUS
<1>2. PICK q \in Nat, r \in 0 .. d - 1 : q = (x + d - 1) \div d /\ x + d - 1 = q * d + r
  BY <1>1, Quotient
<1>3. q * d \in Nat /\ CeilDiv(x, d) = q
  BY <1>2 DEF CeilDiv
<1> QED BY <1>2, <1>3

-----------------------------------------------------------------------------
(* The binary search.                                                      *)

\* f[a] <= f[b] for cells a <= b before m.
Sorted(f, m) == \A a, b \in 0 .. m - 1 : a <= b => f[a] <= f[b]

LEMMA UpperBoundIs ==
    ASSUME NEW f, NEW m \in Nat, \A c \in 0 .. m - 1 : f[c] \in Int, Sorted(f, m), NEW x \in Int
    PROVE  /\ UpperBoundLeft(f, m, x) \in -1 .. m - 1
           /\ \A c \in 0 .. m - 1 : f[c] <= x <=> c <= UpperBoundLeft(f, m, x)
<1> DEFINE R == (0 .. m) \X (0 .. m)
           Mid(r) == (r[1] + r[2]) \div 2
           Half(g, r) == IF r[1] >= r[2] THEN r[1]
                         ELSE IF x >= f[Mid(r)] THEN g[<<Mid(r) + 1, r[2]>>]
                         ELSE g[<<r[1], Mid(r)>>]
           Upto(k) == {r \in R : r[2] - r[1] <= k}
           Some == {k \in Nat : \E g \in [R -> 0 .. m] : \A r \in Upto(k) : g[r] = Half(g, r)}
           search == CHOOSE g : g = [r \in R |-> Half(g, r)]
<1>1. ASSUME NEW r \in R, r[1] < r[2]
      PROVE  /\ Mid(r) \in r[1] .. r[2] - 1
             /\ <<Mid(r) + 1, r[2]>> \in R /\ <<r[1], Mid(r)>> \in R
  <2>1. r[1] \in 0 .. m /\ r[2] \in 0 .. m
    OBVIOUS
  <2>2. Mid(r) \in r[1] .. r[2] - 1
    BY <1>1, <2>1
  <2> QED BY <2>1, <2>2
<1> HIDE DEF Mid
<1>2. 0 \in Some
  <2> DEFINE g == [r \in R |-> r[1]]
  <2>1. g \in [R -> 0 .. m]
    OBVIOUS
  <2>2. ASSUME NEW r \in Upto(0) PROVE g[r] = Half(g, r)
    BY DEF Mid
  <2> HIDE DEF g, Half
  <2> QED BY <2>1, <2>2
<1>3. ASSUME NEW k \in Nat, k \in Some PROVE k + 1 \in Some
  <2>1. PICK g \in [R -> 0 .. m] : \A r \in Upto(k) : g[r] = Half(g, r)
    BY <1>3
  <2> DEFINE h == [r \in R |-> IF r \in Upto(k) THEN g[r] ELSE Half(g, r)]
  <2>2. ASSUME NEW r \in R PROVE Half(g, r) \in 0 .. m
    BY <1>1
  <2>3. h \in [R -> 0 .. m]
    <3> HIDE DEF Half
    <3> QED BY <2>2
  <2>4. ASSUME NEW r \in Upto(k + 1) PROVE h[r] = Half(h, r)
    <3>1. h[r] = Half(g, r)
      <4> HIDE DEF Half
      <4> QED BY <2>1
    <3>2. CASE r[1] >= r[2]
      BY <3>1, <3>2
    <3>3. CASE r[1] < r[2]
      <4>1. <<Mid(r) + 1, r[2]>> \in Upto(k) /\ <<r[1], Mid(r)>> \in Upto(k)
        BY <1>1, <3>3
      <4>2. h[<<Mid(r) + 1, r[2]>>] = g[<<Mid(r) + 1, r[2]>>]
        <5> HIDE DEF Half
        <5> QED BY <4>1
      <4>3. h[<<r[1], Mid(r)>>] = g[<<r[1], Mid(r)>>]
        <5> HIDE DEF Half
        <5> QED BY <4>1
      <4> HIDE DEF h
      <4> QED BY <3>1, <4>2, <4>3
    <3> QED BY <3>2, <3>3
  <2> HIDE DEF h, Half, Upto
  <2> QED BY <2>3, <2>4
<1>4. \A k \in Nat : k \in Some
  <2> HIDE DEF Some
  <2> QED BY <1>2, <1>3, SetInduction
<1>5. \E g : g = [r \in R |-> Half(g, r)]
  <2>1. PICK g \in [R -> 0 .. m] : \A r \in Upto(m) : g[r] = Half(g, r)
    BY <1>4
  <2>2. \A r \in R : r \in Upto(m)
    OBVIOUS
  <2>3. g = [r \in R |-> Half(g, r)]
    <3> HIDE DEF Half, Upto
    <3> QED BY <2>1, <2>2
  <2> QED BY <2>3
<1>6. search = [r \in R |-> Half(search, r)]
  <2> HIDE DEF Half
  <2> QED BY <1>5
<1>7. UpperBoundLeft(f, m, x) = search[<<0, m>>] - 1
  BY DEF UpperBoundLeft, Mid
<1> HIDE DEF search
<1>8. \A r \in R : search[r] = Half(search, r)
  <2> HIDE DEF Half
  <2> QED BY <1>6
\* The cells before the range are not larger than x, those behind it are.
<1> DEFINE Around(r) == /\ r[1] <= r[2]
                        /\ \A c \in 0 .. m - 1 : c < r[1] => f[c] <= x
                        /\ \A c \in 0 .. m - 1 : c >= r[2] => x < f[c]
           Right(v) == v \in 0 .. m /\ \A c \in 0 .. m - 1 : f[c] <= x <=> c < v
           Good == {k \in Nat : \A r \in Upto(k) : Around(r) => Right(search[r])}
<1>9. 0 \in Good
  <2> SUFFICES ASSUME NEW r \in Upto(0), Around(r) PROVE Right(search[r])
    OBVIOUS
  <2>1. r[1] = r[2] /\ r[1] \in 0 .. m /\ r \in R
    OBVIOUS
  <2>2. search[r] = r[1]
    BY <1>8, <2>1
  <2> QED BY <2>1, <2>2
<1>10. ASSUME NEW k \in Nat, k \in Good PROVE k + 1 \in Good
  <2> SUFFICES ASSUME NEW r \in Upto(k + 1), Around(r) PROVE Right(search[r])
    OBVIOUS
  <2>1. r \in R /\ r[1] \in 0 .. m /\ r[2] \in 0 .. m
    OBVIOUS
  <2>2. CASE r[1] = r[2]
    <3>1. search[r] = r[1]
      BY <1>8, <2>1, <2>2
    <3> QED BY <2>1, <2>2, <3>1
  <2>3. CASE r[1] < r[2]
    <3>0. Mid(r) \in r[1] .. r[2] - 1
      <4> HIDE DEF Right, Around, Good
      <4> QED BY <1>1, <2>1, <2>3
    <3>1. PICK d \in 0 .. m - 1 : d = Mid(r) /\ r[1] <= d /\ d < r[2]
      BY <2>1, <3>0
    <3>2. <<d + 1, r[2]>> \in Upto(k) /\ <<r[1], d>> \in Upto(k)
      BY <2>1, <3>1
    <3>3. CASE x >= f[d]
      <4>1. Around(<<d + 1, r[2]>>)
        BY <2>1, <3>1, <3>3 DEF Sorted
      <4>2. search[r] = search[<<d + 1, r[2]>>]
        <5> HIDE DEF Right, Around, Upto, Good
        <5>1. search[r] = Half(search, r)
          BY <1>8, <2>1
        <5> QED BY <2>1, <2>3, <3>1, <3>3, <5>1
      <4> HIDE DEF Right, Around, Upto
      <4> QED BY <1>10, <3>2, <4>1, <4>2
    <3>4. CASE ~(x >= f[d])
      <4>1. Around(<<r[1], d>>)
        BY <2>1, <3>1, <3>4 DEF Sorted
      <4>2. search[r] = search[<<r[1], d>>]
        <5> HIDE DEF Right, Around, Upto, Good
        <5>1. search[r] = Half(search, r)
          BY <1>8, <2>1
        <5> QED BY <2>1, <2>3, <3>1, <3>4, <5>1
      <4> HIDE DEF Right, Around, Upto
      <4> QED BY <1>10, <3>2, <4>1, <4>2
    <3> QED BY <3>3, <3>4
  <2> QED BY <2>1, <2>2, <2>3
<1>11. m \in Good
  <2> HIDE DEF Good
  <2>1. \A k \in Nat : k \in Good
    BY <1>9, <1>10, SetInduction
  <2> QED BY <2>1
<1>12. Right(search[<<0, m>>])
  <2>1. <<0, m>> \in Upto(m) /\ Around(<<0, m>>)
    OBVIOUS
  <2> HIDE DEF Right, Around, Upto
  <2> QED BY <1>11, <2>1
<1>13. PICK v \in 0 .. m : v = search[<<0, m>>] /\ \A c \in 0 .. m - 1 : f[c] <= x <=> c < v
  BY <1>12
<1>14. UpperBoundLeft(f, m, x) = v - 1
  BY <1>7, <1>13
<1> HIDE DEF Right, Around, Good
<1> QED BY <1>13, <1>14

-----------------------------------------------------------------------------
(* The prefix sum.                                                         *)

LEMMA DegreesAre ==
    ASSUME degrees \in Inputs
    PROVE  N \in Nat \ {0} /\ \A i \in 0 .. N - 1 : Degree(i) \in Nat
<1>1. degrees \in Seq(Nat) /\ degrees # <<>>
  BY LoadAssumption
<1>2. N \in Nat \ {0} /\ degrees \in [1 .. N -> Nat]
  BY <1>1 DEF N
<1>3. ASSUME NEW i \in 0 .. N - 1 PROVE Degree(i) \in Nat
  <2>1. i + 1 \in 1 .. N
    BY <1>2
  <2> QED BY <1>2, <2>1 DEF Degree
<1> QED BY <1>2, <1>3

LEMMA SummedIs ==
    ASSUME degrees \in Inputs, \A i \in Positions : work[i] = Degree(i)
    PROVE  IsSum(Summed)
<1> DEFINE Next1(h, i) == IF i = 0 THEN 0 ELSE h[i - 1] + work[i - 1]
           Some == {k \in Nat : \E h : h = [i \in 0 .. k |-> Next1(h, i)]}
<1>1. N \in Nat \ {0} /\ Positions = 0 .. N - 1 /\ \A i \in 0 .. N - 1 : Degree(i) \in Nat
  BY DegreesAre DEF Positions, N
<1>2. 0 \in Some
  <2>1. [i \in 0 .. 0 |-> 0] = [i \in 0 .. 0 |-> Next1([j \in 0 .. 0 |-> 0], i)]
    OBVIOUS
  <2> HIDE DEF Next1
  <2> QED BY <2>1
<1>3. ASSUME NEW k \in Nat, k \in Some PROVE k + 1 \in Some
  <2>1. PICK h : h = [i \in 0 .. k |-> Next1(h, i)]
    BY <1>3
  <2> DEFINE g == [i \in 0 .. k + 1 |-> IF i <= k THEN h[i] ELSE Next1(h, i)]
  <2>2. ASSUME NEW i \in 0 .. k + 1 PROVE g[i] = Next1(g, i)
    <3>1. g[i] = Next1(h, i)
      <4>1. i <= k => h[i] = Next1(h, i)
        <5> HIDE DEF Next1
        <5> QED BY <2>1
      <4> HIDE DEF Next1
      <4> QED BY <4>1
    <3>2. i # 0 => g[i - 1] = h[i - 1]
      <4> HIDE DEF Next1
      <4> QED OBVIOUS
    <3> HIDE DEF g
    <3> QED BY <3>1, <3>2
  <2>3. g = [i \in 0 .. k + 1 |-> Next1(g, i)]
    <3>1. \A i \in 0 .. k + 1 : g[i] = Next1(g, i)
      BY <2>2
    <3>2. g = [i \in 0 .. k + 1 |-> g[i]]
      <4> HIDE DEF Next1
      <4> QED OBVIOUS
    <3> HIDE DEF g, Next1
    <3> QED BY <3>1, <3>2
  <2> HIDE DEF g, Next1
  <2> QED BY <2>3
<1>4. \E h : h = [i \in 0 .. N |-> Next1(h, i)]
  <2>1. \A k \in Nat : k \in Some
    <3> HIDE DEF Some
    <3> QED BY <1>2, <1>3, SetInduction
  <2> QED BY <1>1, <2>1
<1>5. Summed = CHOOSE h : h = [i \in 0 .. N |-> Next1(h, i)]
  BY DEF Summed, N
<1>6. Summed = [i \in 0 .. N |-> Next1(Summed, i)]
  <2> HIDE DEF Next1
  <2> QED BY <1>4, <1>5
<1>7. Summed[0] = 0
  BY <1>1, <1>6
<1>8. ASSUME NEW i \in 0 .. N - 1 PROVE Summed[i + 1] = Summed[i] + Degree(i)
  <2>1. i + 1 \in 0 .. N /\ i + 1 # 0 /\ (i + 1) - 1 = i
    BY <1>1
  <2>2. Summed[i + 1] = Next1(Summed, i + 1)
    <3> HIDE DEF Next1
    <3> QED BY <1>6, <2>1
  <2>3. work[i] = Degree(i)
    BY <1>1
  <2> QED BY <2>1, <2>2, <2>3
<1>9. \A i \in 0 .. N : Summed[i] \in Nat
  <2> DEFINE T == {i \in Nat : i <= N => Summed[i] \in Nat}
  <2>1. 0 \in T
    BY <1>7
  <2>2. ASSUME NEW i \in Nat, i \in T PROVE i + 1 \in T
    <3>1. CASE i + 1 <= N
      <4>1. i \in 0 .. N - 1 /\ Summed[i] \in Nat
        BY <1>1, <2>2, <3>1
      <4>2. Summed[i] + Degree(i) \in Nat
        BY <1>1, <4>1
      <4> QED BY <1>8, <4>1, <4>2
    <3> QED BY <3>1
  <2>3. \A i \in Nat : i \in T
    <3> HIDE DEF T
    <3> QED BY <2>1, <2>2, SetInduction
  <2> QED BY <1>1, <2>3
<1>10. Summed \in [0 .. N -> Nat]
  <2> HIDE DEF Next1
  <2>1. Summed = [i \in 0 .. N |-> Summed[i]]
    BY <1>6
  <2> QED BY <1>9, <2>1
<1> QED BY <1>1, <1>7, <1>8, <1>10 DEF IsSum

\* The prefix sum grows, and every degree is at most the whole.
LEMMA SumGrows ==
    ASSUME degrees \in Inputs, NEW w, IsSum(w)
    PROVE  Sorted(w, N + 1)
<1>1. N \in Nat \ {0} /\ Positions = 0 .. N - 1 /\ \A i \in 0 .. N - 1 : Degree(i) \in Nat
  BY DegreesAre DEF Positions, N
<1>2. w \in [0 .. N -> Nat] /\ \A i \in 0 .. N - 1 : w[i + 1] = w[i] + Degree(i)
  BY <1>1 DEF IsSum
<1> DEFINE T == {k \in Nat : \A a \in 0 .. N : a + k <= N => w[a] <= w[a + k]}
<1>3. 0 \in T
  BY <1>2
<1>4. ASSUME NEW k \in Nat, k \in T PROVE k + 1 \in T
  <2> SUFFICES ASSUME NEW a \in 0 .. N, a + (k + 1) <= N PROVE w[a] <= w[a + (k + 1)]
    OBVIOUS
  <2>1. PICK b \in 0 .. N - 1 : b = a + k /\ b + 1 = a + (k + 1)
    BY <1>1
  <2>2. w[a] <= w[b]
    BY <1>1, <1>4, <2>1
  <2>3. w[b + 1] = w[b] + Degree(b) /\ Degree(b) \in Nat
    BY <1>1, <1>2
  <2>4. w[a] \in Nat /\ w[b] \in Nat
    BY <1>1, <1>2
  <2>5. w[a] <= w[b + 1]
    BY <2>2, <2>3, <2>4
  <2> QED BY <2>1, <2>5
<1>5. \A k \in Nat : k \in T
  <2> HIDE DEF T
  <2> QED BY <1>3, <1>4, SetInduction
<1>6. ASSUME NEW a \in 0 .. N, NEW b \in 0 .. N, a <= b PROVE w[a] <= w[b]
  <2>1. PICK k \in Nat : k = b - a /\ a + k = b
    BY <1>1, <1>6
  <2>2. k \in T
    BY <1>5
  <2> QED BY <1>1, <2>1, <2>2
<1>7. (N + 1) - 1 = N
  BY <1>1
<1> QED BY <1>6, <1>7 DEF Sorted

LEMMA EdgesAre ==
    ASSUME NEW e
    PROVE  e \in AllEdges <=> /\ e = <<e[1], e[2]>>
                              /\ e[1] \in Positions /\ e[2] \in 0 .. Degree(e[1]) - 1
  BY DEF AllEdges

\* An edge is the edge of its number, and of no other.
LEMMA NumbersAre ==
    ASSUME degrees \in Inputs, IsSum(work)
    PROVE  /\ \A e \in AllEdges : /\ Number(e) \in Nat /\ Number(e) < work[N]
                                  /\ IsEdge(Number(e), e) /\ e \in Int \X Int
           /\ \A x \in Int, e \in Int \X Int :
                  IsEdge(x, e) => /\ e \in AllEdges /\ Number(e) = x
                                  /\ 0 <= x /\ x < work[N]
           /\ \A x \in Int, e \in Int \X Int, f \in Int \X Int :
                  IsEdge(x, e) /\ IsEdge(x, f) => e = f
<1>1. N \in Nat \ {0} /\ Positions = 0 .. N - 1 /\ \A i \in 0 .. N - 1 : Degree(i) \in Nat
  BY DegreesAre DEF Positions, N
<1>2. /\ \A i \in 0 .. N : work[i] \in Nat
      /\ \A i \in 0 .. N - 1 : work[i + 1] = work[i] + Degree(i)
  BY <1>1 DEF IsSum
<1>3. \A a, b \in 0 .. N : a <= b => work[a] <= work[b]
  <2>1. (N + 1) - 1 = N /\ Sorted(work, N + 1)
    BY <1>1, SumGrows
  <2> QED BY <2>1 DEF Sorted
<1>4. ASSUME NEW e \in AllEdges
      PROVE  /\ Number(e) \in Nat /\ Number(e) < work[N]
             /\ IsEdge(Number(e), e) /\ e \in Int \X Int
  <2>1. PICK p \in 0 .. N - 1, o \in Nat : e = <<p, o>> /\ o <= Degree(p) - 1
    BY <1>1, EdgesAre
  <2>2. /\ work[p] \in Nat /\ Degree(p) \in Nat /\ work[p + 1] = work[p] + Degree(p)
        /\ work[p + 1] <= work[N] /\ work[N] \in Nat
    <3>1. p + 1 \in 0 .. N /\ N \in 0 .. N /\ p \in 0 .. N
      BY <1>1
    <3> QED BY <1>1, <1>2, <1>3, <3>1
  <2>3. Number(e) = work[p] + o
    BY <2>1 DEF Number
  <2>4. e[1] = p /\ e[2] = o /\ e \in Int \X Int
    BY <2>1
  <2>5. /\ work[p] <= Number(e) /\ Number(e) < work[p + 1]
        /\ o = Number(e) - work[p] /\ Number(e) \in Nat /\ Number(e) < work[N]
    BY <2>1, <2>2, <2>3
  <2> QED BY <1>1, <2>4, <2>5 DEF IsEdge
<1>5. ASSUME NEW x \in Int, NEW e \in Int \X Int, IsEdge(x, e)
      PROVE  e \in AllEdges /\ Number(e) = x /\ 0 <= x /\ x < work[N]
  <2>1. PICK p \in 0 .. N - 1, o \in Int : /\ e = <<p, o>> /\ work[p] <= x
                                           /\ x < work[p + 1] /\ o = x - work[p]
    BY <1>1, <1>5 DEF IsEdge
  <2>2. /\ work[p] \in Nat /\ Degree(p) \in Nat /\ work[p + 1] = work[p] + Degree(p)
        /\ work[p + 1] <= work[N] /\ work[N] \in Nat
    <3>1. p + 1 \in 0 .. N /\ N \in 0 .. N /\ p \in 0 .. N
      BY <1>1
    <3> QED BY <1>1, <1>2, <1>3, <3>1
  <2>3. Number(e) = x
    BY <2>1, <2>2 DEF Number
  <2>4. o \in 0 .. Degree(p) - 1
    BY <2>1, <2>2
  <2>5. e = <<e[1], e[2]>> /\ e[1] \in Positions /\ e[2] \in 0 .. Degree(e[1]) - 1
    BY <1>1, <2>1, <2>4
  <2>6. 0 <= x /\ x < work[N]
    BY <2>1, <2>2
  <2> QED BY <2>3, <2>5, <2>6, EdgesAre
<1>6. ASSUME NEW x \in Int, NEW e \in Int \X Int, NEW f \in Int \X Int,
             IsEdge(x, e), IsEdge(x, f)
      PROVE  e = f
  <2>1. PICK p \in 0 .. N - 1, o \in Int : /\ e = <<p, o>> /\ work[p] <= x
                                           /\ x < work[p + 1] /\ o = x - work[p]
    BY <1>1, <1>6 DEF IsEdge
  <2>2. PICK q \in 0 .. N - 1, u \in Int : /\ f = <<q, u>> /\ work[q] <= x
                                           /\ x < work[q + 1] /\ u = x - work[q]
    BY <1>1, <1>6 DEF IsEdge
  <2>3. /\ p \in 0 .. N /\ q \in 0 .. N /\ p + 1 \in 0 .. N /\ q + 1 \in 0 .. N
    BY <1>1
  <2>4. /\ work[p] \in Nat /\ work[q] \in Nat /\ work[p + 1] \in Nat /\ work[q + 1] \in Nat
    BY <1>2, <2>3
  <2>5. /\ p < q => work[p + 1] <= work[q]
        /\ q < p => work[q + 1] <= work[p]
    BY <1>3, <2>3
  <2>6. p = q
    BY <2>1, <2>2, <2>4, <2>5
  <2> QED BY <2>1, <2>2, <2>6
<1> QED BY <1>4, <1>5, <1>6

-----------------------------------------------------------------------------
(* What a block has to do.                                                 *)

\* The state of the kernel, where it does not change.
Launched == degrees \in Inputs /\ IsSum(work) /\ DOMAIN block = Blocks

LEMMA SumIs ==
    ASSUME Launched
    PROVE  /\ N \in Nat \ {0} /\ Positions = 0 .. N - 1
           /\ \A c \in 0 .. N : work[c] \in Nat
           /\ \A a, c \in 0 .. N : a <= c => work[a] <= work[c]
           /\ work[0] = 0
<1>1. degrees \in Inputs /\ IsSum(work)
  BY DEF Launched
<1>2. N \in Nat \ {0} /\ Positions = 0 .. N - 1
  BY <1>1, DegreesAre DEF Positions, N
<1>3. (N + 1) - 1 = N /\ Sorted(work, N + 1)
  BY <1>1, <1>2, SumGrows
<1>4. \A a, c \in 0 .. N : a <= c => work[a] <= work[c]
  BY <1>3 DEF Sorted
<1> QED BY <1>1, <1>2, <1>4 DEF IsSum

\* The items of all blocks are the numbers of the edges and fewer than a
\* block more.
LEMMA GridIs ==
    ASSUME Launched
    PROVE  /\ Cardinality(DOMAIN block) \in Nat
           /\ Blocks = 0 .. Cardinality(DOMAIN block) - 1
           /\ work[N] <= Cardinality(DOMAIN block) * P
           /\ \A b \in Blocks : b * P \in Nat /\ b * P < work[N]
<1>1. work[N] \in Nat /\ P \in Nat \ {0} /\ DOMAIN block = Blocks
  BY SumIs, SizesAre DEF Launched
<1>2. PICK g \in Nat : /\ g = CeilDiv(work[N], P)
                       /\ work[N] <= g * P /\ g * P <= work[N] + P - 1
  BY <1>1, CeilDivIs
<1>3. Blocks = 0 .. g - 1
  BY <1>2 DEF Blocks
<1>4. Cardinality(0 .. g - 1) = g
  <2>1. 0 \in Int /\ g - 1 \in Int
    BY <1>2
  <2>2. Cardinality(0 .. g - 1) = IF 0 > g - 1 THEN 0 ELSE (g - 1) - 0 + 1
    BY <2>1, FS_Interval
  <2> QED BY <1>2, <2>2
<1>5. ASSUME NEW b \in Blocks PROVE b * P \in Nat /\ b * P < work[N]
  <2>1. b \in Nat /\ b < g
    BY <1>2, <1>3, <1>5
  <2>2. b * P \in Nat /\ g * P \in Int /\ b * P + P <= g * P
    BY <1>1, <1>2, <2>1, Multiples
  <2> QED BY <1>1, <1>2, <2>2
<1> QED BY <1>1, <1>2, <1>3, <1>4, <1>5

LEMMA BoundsAre ==
    ASSUME Launched, NEW b \in Blocks
    PROVE  /\ Bound(b) \in 0 .. N - 1 /\ Bound(b + 1) \in 0 .. N - 1
           /\ Bound(b) <= Bound(b + 1)
           /\ work[Bound(b)] <= b * P
           /\ \A x \in Int : x < b * P + P /\ x < work[N] => x < work[Bound(b + 1) + 1]
<1>1. PICK g \in Nat : /\ g = Cardinality(DOMAIN block)
                       /\ Blocks = 0 .. g - 1
                       /\ work[N] <= g * P
  BY GridIs
<1>2. b \in Nat /\ b < g /\ P \in Nat
  BY <1>1, SizesAre
<1>3. /\ N \in Nat \ {0} /\ \A c \in 0 .. N : work[c] \in Nat
      /\ \A a, c \in 0 .. N : a <= c => work[a] <= work[c]
      /\ work[0] = 0
  BY SumIs
<1>4. ASSUME NEW c \in Blocks
      PROVE  /\ Bound(c) \in 0 .. N - 1
             /\ \A a \in 0 .. N : work[a] <= c * P <=> a <= Bound(c)
  <2>1. c * P \in Nat /\ c * P < work[N] /\ c # g
    BY <1>1, GridIs
  <2>2. Bound(c) = UpperBoundLeft(work, N + 1, c * P)
    BY <1>1, <2>1 DEF Bound, P, N
  <2>3. (N + 1) - 1 = N /\ N + 1 \in Nat
    BY <1>3
  <2>4. Sorted(work, N + 1) /\ \A a \in 0 .. N : work[a] \in Int
    BY <1>3, <2>3 DEF Sorted
  <2>5. /\ Bound(c) \in -1 .. N
        /\ \A a \in 0 .. N : work[a] <= c * P <=> a <= Bound(c)
    BY <2>1, <2>2, <2>3, <2>4, UpperBoundIs
  <2>6. 0 <= Bound(c) /\ ~(N <= Bound(c))
    <3>1. 0 \in 0 .. N /\ N \in 0 .. N /\ work[0] <= c * P /\ ~(work[N] <= c * P)
      BY <1>3, <2>1
    <3> QED BY <2>5, <3>1
  <2> QED BY <1>3, <2>5, <2>6
<1>5. b * P \in Nat /\ b * P < work[N] /\ work[N] \in Nat
  BY <1>3, GridIs
<1>6. work[Bound(b)] <= b * P
  <2>1. Bound(b) \in 0 .. N /\ Bound(b) <= Bound(b)
    BY <1>3, <1>4
  <2> QED BY <1>4, <2>1
<1>7. CASE b + 1 = g
  <2>1. Bound(b + 1) = N - 1 /\ Bound(b + 1) + 1 = N
    BY <1>1, <1>3, <1>7 DEF Bound, N
  <2> QED BY <1>3, <1>4, <1>6, <2>1
<1>8. CASE b + 1 # g
  <2>1. b + 1 \in Blocks
    BY <1>1, <1>2, <1>8
  <2>2. PICK v \in 0 .. N - 1 : /\ v = Bound(b + 1)
                                /\ \A a \in 0 .. N : work[a] <= (b + 1) * P <=> a <= v
    BY <1>4, <2>1
  <2>3. (b + 1) * P = b * P + P
    BY <1>2
  <2>4. PICK u \in 0 .. N - 1 : u = Bound(b)
    BY <1>4
  <2>5. u <= v
    <3>1. u \in 0 .. N /\ work[u] \in Nat /\ work[u] <= (b + 1) * P
      BY <1>2, <1>3, <1>5, <1>6, <2>3, <2>4
    <3> QED BY <2>2, <3>1
  <2>6. ASSUME NEW x \in Int, x < b * P + P PROVE x < work[v + 1]
    <3>1. v + 1 \in 0 .. N /\ ~(v + 1 <= v) /\ work[v + 1] \in Nat
      BY <1>3, <2>2
    <3>2. ~(work[v + 1] <= (b + 1) * P)
      BY <2>2, <3>1
    <3> QED BY <1>2, <1>5, <2>3, <2>6, <3>1, <3>2
  <2> QED BY <1>4, <1>6, <2>2, <2>4, <2>5, <2>6
<1> QED BY <1>7, <1>8

\* The items of the threads of a block are its numbers, each of one thread.
LEMMA ItemsAre ==
    ASSUME NEW b \in Nat
    PROVE  /\ b * P \in Nat
           /\ \A t \in Threads, i \in Items :
                  /\ Searched(b, t) \in Int /\ Searched(b, t) + i \in Int
                  /\ b * P <= Searched(b, t) + i /\ Searched(b, t) + i < b * P + P
           /\ \A x \in Int : b * P <= x /\ x < b * P + P =>
                  \E t \in Threads, i \in Items : x = Searched(b, t) + i
           /\ \A t, u \in Threads, i, j \in Items :
                  Searched(b, t) + i = Searched(b, u) + j => t = u /\ i = j
<1> DEFINE T == ITEMS_PER_THREAD
           B == BLOCK_SIZE
<1>1. T \in Nat \ {0} /\ B \in Nat \ {0} /\ P \in Nat /\ P = B * T
  BY SizesAre
<1>2. Threads = 0 .. B - 1 /\ Items = 0 .. T - 1
  BY DEF Threads, Items
<1>3. PICK base \in Nat : base = b * P
  BY <1>1
<1>4. \A t : Searched(b, t) = base + t * T
  BY <1>3 DEF Searched, P
<1> HIDE DEF T, B
<1>5. ASSUME NEW t \in 0 .. B - 1 PROVE t * T \in Nat /\ t * T + T <= P
  <2>1. t \in Int /\ B \in Int /\ t < B /\ t \in Nat
    BY <1>1
  <2> QED BY <1>1, <2>1, Multiples
<1>6. ASSUME NEW t \in Threads, NEW i \in Items
      PROVE  /\ Searched(b, t) \in Int /\ Searched(b, t) + i \in Int
             /\ b * P <= Searched(b, t) + i /\ Searched(b, t) + i < b * P + P
  <2>1. PICK k \in Nat : k = t * T /\ k + T <= P /\ Searched(b, t) = base + k
    BY <1>2, <1>4, <1>5
  <2>2. i \in Nat /\ i < T
    BY <1>1, <1>2
  <2> QED BY <1>1, <1>3, <2>1, <2>2
<1>7. ASSUME NEW x \in Int, b * P <= x, x < b * P + P
      PROVE  \E t \in Threads, i \in Items : x = Searched(b, t) + i
  <2>1. PICK y \in Nat : y = x - base /\ y < P
    BY <1>1, <1>3, <1>7
  <2>2. PICK q \in Nat, r \in 0 .. T - 1 : y = q * T + r
    BY <1>1, <2>1, Quotient
  <2>3. q < B
    <3>1. CASE q > B
      <4>1. B * T \in Int /\ q * T \in Int /\ B * T + T <= q * T
        BY <1>1, <3>1, Multiples
      <4> QED BY <1>1, <2>1, <2>2, <4>1
    <3>2. CASE q = B
      BY <1>1, <2>1, <2>2, <3>2
    <3> QED BY <1>1, <3>1, <3>2
  <2>4. q * T \in Nat
    BY <1>1
  <2>5. x = Searched(b, q) + r
    BY <1>1, <1>3, <1>4, <2>1, <2>2, <2>4
  <2> QED BY <1>1, <1>2, <2>3, <2>5
<1>8. ASSUME NEW t \in Threads, NEW u \in Threads, NEW i \in Items, NEW j \in Items,
             Searched(b, t) + i = Searched(b, u) + j
      PROVE  t = u /\ i = j
  <2>1. t \in Nat /\ u \in Nat /\ i \in 0 .. T - 1 /\ j \in 0 .. T - 1
    BY <1>1, <1>2
  <2>2. t * T \in Nat /\ u * T \in Nat
    BY <1>1, <2>1
  <2>3. PICK y \in Nat : y = t * T + i /\ y = u * T + j
    BY <1>1, <1>3, <1>4, <1>8, <2>1, <2>2
  <2>4. /\ t = y \div T /\ i = y % T
        /\ u = y \div T /\ j = y % T
    <3>1. \A q \in Nat, r \in 0 .. T - 1 : y = q * T + r => q = y \div T /\ r = y % T
      BY <1>1, Quotient
    <3> QED BY <2>1, <2>3, <3>1, Zenon
  <2> QED BY <2>4
<1> QED BY <1>1, <1>3, <1>6, <1>7, <1>8

-----------------------------------------------------------------------------
(* The search in a chunk.                                                  *)

Searching(b) == /\ Launched
                /\ b \in Blocks
                /\ BlockOK(b, block[b])
                /\ block[b].at = "search"

LEMMA ChunkIs ==
    ASSUME NEW b, Searching(b)
    PROVE  /\ SmemSize(b) \in 1 .. P
           /\ block[b].start \in Nat /\ block[b].start + SmemSize(b) - 1 <= N
           /\ block[b].start + SmemSize(b) - 1 <= Bound(b + 1) + 1
           /\ \A c \in 0 .. SmemSize(b) - 1 : /\ block[b].smem[c] \in Nat
                                              /\ block[b].smem[c] = work[block[b].start + c]
           /\ Sorted(block[b].smem, SmemSize(b))
           /\ HighLimit(b) = block[b].smem[SmemSize(b) - 1]
           /\ block[b].low \in Int /\ block[b].low <= HighLimit(b)
           /\ \A x \in Int : b * P <= x => (block[b].low <= x <=> block[b].smem[0] <= x)
<1>1. /\ b \in Blocks /\ BlockOK(b, block[b]) /\ block[b].at = "search" /\ Launched
  BY DEF Searching
<1>2. block[b] \in BlockRecord /\ ChunkLeft(b, block[b]) /\ ChunkLoaded(block[b])
  BY <1>1 DEF BlockOK
<1>3. PICK s \in Int, k \in Int, l \in Int :
          s = block[b].start /\ k = block[b].chunk /\ l = block[b].low
  BY <1>2 DEF BlockRecord
<1>4. PICK v \in 0 .. N - 1, u \in 0 .. N - 1 :
          /\ v = Bound(b) /\ u = Bound(b + 1) /\ v <= u /\ work[v] <= b * P
  BY <1>1, BoundsAre
<1>5. /\ v <= s /\ s + k = u + 2 /\ k > 0
      /\ l = work[s] \/ (s = v /\ l = 0)
      /\ \A c \in 0 .. Least(k, P) - 1 : block[b].smem[c] = work[s + c]
  BY <1>2, <1>3, <1>4 DEF ChunkLeft, ChunkLoaded
<1>6. PICK m \in Nat : m = SmemSize(b) /\ m = Least(k, P) /\ 1 <= m /\ m <= P /\ m <= k
  BY <1>3, <1>5, SizesAre DEF SmemSize, Least, P
<1>7. /\ N \in Nat \ {0} /\ \A c \in 0 .. N : work[c] \in Nat
      /\ \A a, c \in 0 .. N : a <= c => work[a] <= work[c]
  BY <1>1, SumIs
<1>8. s \in Nat /\ s + m - 1 <= u + 1 /\ s + m - 1 <= N
  BY <1>4, <1>5, <1>6, <1>7
<1>9. ASSUME NEW c \in 0 .. m - 1
      PROVE  /\ block[b].smem[c] = work[s + c] /\ s + c \in 0 .. N
             /\ block[b].smem[c] \in Nat
  <2>1. s + c \in 0 .. N
    BY <1>6, <1>7, <1>8
  <2> QED BY <1>5, <1>6, <1>7, <2>1
<1>10. Sorted(block[b].smem, m)
  <2> SUFFICES ASSUME NEW a \in 0 .. m - 1, NEW c \in 0 .. m - 1, a <= c
               PROVE  block[b].smem[a] <= block[b].smem[c]
    BY DEF Sorted
  <2>1. s + a <= s + c
    BY <1>8
  <2> QED BY <1>7, <1>9, <2>1
<1>11. ASSUME NEW x \in Int, b * P <= x PROVE l <= x <=> block[b].smem[0] <= x
  <2>1. block[b].smem[0] = work[s] /\ work[s] \in Nat
    <3>1. 0 \in 0 .. m - 1 /\ s + 0 = s
      BY <1>6, <1>8
    <3> QED BY <1>9, <3>1
  <2>2. CASE l = work[s]
    BY <2>1, <2>2
  <2>3. CASE s = v /\ l = 0
    <3>1. b * P \in Nat
      BY <1>1, GridIs
    <3> QED BY <1>4, <1>11, <2>1, <2>3, <3>1
  <2> QED BY <1>5, <2>2, <2>3
<1>12. HighLimit(b) = block[b].smem[m - 1]
  BY <1>6 DEF HighLimit
<1>13. l <= block[b].smem[m - 1]
  <2>1. 0 \in 0 .. m - 1 /\ m - 1 \in 0 .. m - 1 /\ s + 0 = s
    BY <1>6, <1>8
  <2>2. /\ block[b].smem[0] <= block[b].smem[m - 1] /\ block[b].smem[0] = work[s]
        /\ block[b].smem[0] \in Nat /\ block[b].smem[m - 1] \in Nat
    BY <1>9, <1>10, <2>1 DEF Sorted
  <2> QED BY <1>5, <2>2
<1> QED BY <1>3, <1>4, <1>6, <1>8, <1>9, <1>10, <1>11, <1>12, <1>13

\* A thread is at the position of number x, or at one before it.
At(b, x, place) ==
    \E p \in 0 .. SmemSize(b) - 2 :
        /\ place = <<p, x - block[b].smem[p]>>
        /\ block[b].smem[p] <= x /\ x <= block[b].smem[p + 1]

\* Passing over the positions without edges ends in the chunk, at the position
\* of x.
LEMMA MovesTo ==
    ASSUME NEW b, Searching(b), NEW x \in Int, InChunk(b, x), NEW place, At(b, x, place)
    PROVE  \E q \in 0 .. SmemSize(b) - 2 :
               /\ q \in place[1] .. SmemSize(b) - 2 /\ CanMove(b, place[1], q, x)
               /\ Move(b, place, x) = <<q, x - block[b].smem[q]>>
               /\ block[b].smem[q] <= x /\ x < block[b].smem[q + 1]
<1> DEFINE f == block[b].smem
           m == SmemSize(b)
<1>1. /\ m \in 1 .. P /\ P \in Nat /\ \A c \in 0 .. m - 1 : f[c] \in Nat
      /\ \A a, c \in 0 .. m - 1 : a <= c => f[a] <= f[c]
      /\ HighLimit(b) = f[m - 1]
  BY ChunkIs, SizesAre DEF Sorted
<1>2. PICK p \in 0 .. m - 2 : place = <<p, x - f[p]>> /\ f[p] <= x /\ x <= f[p + 1]
  BY DEF At
<1>3. x < f[m - 1]
  BY <1>1 DEF InChunk
<1> HIDE DEF f, m
<1> DEFINE S == {q \in Nat : q \in p .. m - 2 /\ f[q + 1] # x}
<1>4. PICK q \in S : \A c \in S : q <= c
  <2>1. m - 2 \in S
    <3>1. m - 2 \in Nat /\ m - 2 \in p .. m - 2 /\ m - 2 + 1 = m - 1 /\ f[m - 1] \in Nat
      BY <1>1, <1>2
    <3> QED BY <1>3, <3>1
  <2>2. S \in SUBSET Nat /\ S # {}
    BY <2>1
  <2> HIDE DEF S
  <2> QED BY <2>2, LeastElement
<1>5. q \in p .. m - 2 /\ q \in 0 .. m - 2 /\ f[q + 1] # x
  BY <1>1, <1>2, <1>4
<1>6. \A c \in p .. q - 1 : f[c + 1] = x
  <2> SUFFICES ASSUME NEW c \in p .. q - 1, f[c + 1] # x PROVE FALSE
    OBVIOUS
  <2>1. c \in S /\ ~(q <= c)
    BY <1>1, <1>2, <1>5
  <2> QED BY <1>4, <2>1
<1> HIDE DEF S
<1>7. \A c : CanMove(b, p, c, x) <=> f[c + 1] # x /\ \A d \in p .. c - 1 : f[d + 1] = x
  BY DEF CanMove, f
<1>8. CanMove(b, p, q, x)
  BY <1>5, <1>6, <1>7
<1>9. ASSUME NEW c \in p .. ITEMS_PER_BLOCK - 2, CanMove(b, p, c, x) PROVE c = q
  <2>1. c \in Int /\ p <= c /\ q \in Int /\ p <= q
    BY <1>1, <1>2, <1>5 DEF P
  <2>2. ~(c < q)
    <3>1. f[c + 1] # x /\ (c < q => c \in p .. q - 1)
      BY <1>2, <1>5, <1>7, <1>9, <2>1
    <3> QED BY <1>6, <3>1
  <2>3. ~(q < c)
    <3>1. \A d \in p .. c - 1 : f[d + 1] = x
      BY <1>7, <1>9
    <3>2. q < c => q \in p .. c - 1
      BY <1>2, <1>5, <2>1
    <3> QED BY <1>5, <3>1, <3>2
  <2> QED BY <2>1, <2>2, <2>3
<1>10. q = CHOOSE c \in p .. ITEMS_PER_BLOCK - 2 : CanMove(b, p, c, x)
  <2>1. q \in p .. ITEMS_PER_BLOCK - 2
    BY <1>1, <1>2, <1>5 DEF P
  <2> QED BY <1>8, <1>9, <2>1
<1>11. place[1] = p /\ Move(b, place, x) = IF q = p THEN place ELSE <<q, 0>>
  BY <1>2, <1>10 DEF Move
<1>12. f[p] \in Nat /\ f[q] \in Nat /\ f[q + 1] \in Nat /\ f[q] <= f[q + 1]
  <2>1. p \in 0 .. m - 1 /\ q \in 0 .. m - 1 /\ q + 1 \in 0 .. m - 1 /\ q <= q + 1
    BY <1>1, <1>2, <1>5
  <2> QED BY <1>1, <2>1
<1>13. CASE q = p
  <2>1. f[q] <= x /\ x < f[q + 1]
    BY <1>2, <1>5, <1>12, <1>13
  <2> QED BY <1>2, <1>5, <1>8, <1>11, <1>13, <2>1 DEF f, m
<1>14. CASE q # p
  <2>1. f[q] = x
    <3>1. PICK c \in p .. q - 1 : c + 1 = q
      BY <1>1, <1>2, <1>5, <1>14
    <3> QED BY <1>6, <3>1
  <2>2. f[q] <= x /\ x < f[q + 1] /\ x - f[q] = 0
    BY <1>5, <1>12, <2>1
  <2> QED BY <1>5, <1>8, <1>11, <1>14, <2>2 DEF f, m
<1> QED BY <1>13, <1>14

\* Where a thread starts is at its first item of the chunk.
LEMMA EntryAt ==
    ASSUME NEW b, Searching(b), NEW t \in Threads, NEW k \in Items,
           InChunk(b, Searched(b, t) + k),
           k # 0 => Searched(b, t) + (k - 1) < block[b].low
    PROVE  At(b, Searched(b, t) + k, Entry(b, t))
<1> DEFINE f == block[b].smem
           m == SmemSize(b)
           x == Searched(b, t) + k
<1>1. /\ m \in 1 .. P /\ P \in Nat /\ P >= 2 /\ \A c \in 0 .. m - 1 : f[c] \in Nat
      /\ \A a, c \in 0 .. m - 1 : a <= c => f[a] <= f[c]
      /\ HighLimit(b) = f[m - 1] /\ Sorted(f, m)
      /\ block[b].low \in Int
      /\ \A y \in Int : b * P <= y => (block[b].low <= y <=> f[0] <= y)
  BY ChunkIs, SizesAre DEF Sorted
<1>2. b \in Nat /\ b * P \in Nat /\ k \in Nat /\ 0 \in Items
  <2>1. b \in Blocks /\ Launched
    BY DEF Searching
  <2> QED BY <2>1, GridIs, SizesAre DEF Items
<1>3. PICK s \in Int : s = Searched(b, t) /\ b * P <= s /\ x = s + k
  <2>1. Searched(b, t) \in Int /\ b * P <= Searched(b, t) + 0
    BY <1>2, ItemsAre
  <2> QED BY <2>1
<1>4. block[b].low <= x /\ x < f[m - 1] /\ x \in Int /\ b * P <= x
  BY <1>1, <1>2, <1>3 DEF InChunk
<1>5. PICK u \in -1 .. m - 1 : /\ u = UpperBoundLeft(f, m, s)
                               /\ \A c \in 0 .. m - 1 : f[c] <= s <=> c <= u
  <2>1. m \in Nat /\ \A c \in 0 .. m - 1 : f[c] \in Int
    BY <1>1
  <2> HIDE DEF f, m
  <2> QED BY <1>1, <1>3, <2>1, UpperBoundIs
<1>6. Entry(b, t) = LET pos == Least(Largest(0, u), P - 2)
                    IN  <<pos, Largest(s - f[pos], 0)>>
  BY <1>3, <1>5 DEF Entry, P
<1>7. f[0] <= x /\ f[0] \in Nat /\ f[m - 1] \in Nat /\ m >= 2
  <2>1. f[0] <= x /\ 0 \in 0 .. m - 1 /\ m - 1 \in 0 .. m - 1
    BY <1>1, <1>4
  <2> HIDE DEF f, m, x
  <2> QED BY <1>1, <1>4, <2>1
<1> HIDE DEF f, m, x
<1>8. CASE k = 0
  <2>1. x = s
    BY <1>2, <1>3, <1>8
  <2>2. 0 <= u /\ ~(m - 1 <= u)
    <3>1. 0 \in 0 .. m - 1 /\ m - 1 \in 0 .. m - 1 /\ f[0] <= s /\ ~(f[m - 1] <= s)
      BY <1>1, <1>4, <1>7, <2>1
    <3> QED BY <1>5, <3>1
  <2>3. u \in 0 .. m - 2 /\ Least(Largest(0, u), P - 2) = u
    BY <1>1, <1>5, <2>2 DEF Least, Largest
  <2>4. u \in 0 .. m - 1 /\ u + 1 \in 0 .. m - 1 /\ ~(u + 1 <= u)
    BY <1>1, <2>3
  <2>5. f[u] <= s /\ ~(f[u + 1] <= s) /\ f[u] \in Nat /\ f[u + 1] \in Nat
    BY <1>1, <1>5, <2>4
  <2>6. Entry(b, t) = <<u, s - f[u]>>
    BY <1>6, <2>3, <2>5 DEF Largest
  <2>7. f[u] <= s /\ s <= f[u + 1]
    BY <1>3, <2>5
  <2> QED BY <2>1, <2>3, <2>6, <2>7 DEF At, f, m, x
<1>9. CASE k # 0
  <2>1. s + (k - 1) < block[b].low /\ s + (k - 1) \in Int /\ b * P <= s + (k - 1) /\ s <= s + (k - 1)
    BY <1>2, <1>3, <1>9
  <2>2. ~(f[0] <= s + (k - 1))
    BY <1>1, <2>1
  <2>3. f[0] = x /\ ~(f[0] <= s)
    BY <1>2, <1>3, <1>7, <2>1, <2>2
  <2>4. u = -1
    <3>1. 0 \in 0 .. m - 1
      BY <1>1
    <3> QED BY <1>5, <2>3, <3>1
  <2>5. Least(Largest(0, u), P - 2) = 0
    BY <1>1, <2>4 DEF Least, Largest
  <2>6. Largest(s - f[0], 0) = 0
    BY <1>3, <1>7, <2>3 DEF Largest
  <2>7. Entry(b, t) = <<0, 0>> /\ x - f[0] = 0
    BY <1>4, <1>6, <1>7, <2>3, <2>5, <2>6
  <2>8. 0 \in 0 .. m - 2 /\ f[0] <= f[0 + 1]
    <3>1. 0 \in 0 .. m - 1 /\ 1 \in 0 .. m - 1 /\ 0 + 1 = 1 /\ 0 \in 0 .. m - 2
      BY <1>1, <1>7
    <3> QED BY <1>1, <3>1
  <2>9. f[0] <= x /\ x <= f[0 + 1]
    BY <1>7, <2>3, <2>8
  <2> QED BY <2>7, <2>8, <2>9 DEF At, f, m, x
<1> QED BY <1>8, <1>9

\* In front of an item of the chunk a thread is at its position or before it.
LEMMA BeforeAt ==
    ASSUME NEW b, Searching(b), NEW t \in Threads, NEW i \in Items,
           InChunk(b, Searched(b, t) + i)
    PROVE  At(b, Searched(b, t) + i, Before(b, t, i))
<1> DEFINE Onward(k, place) ==
               IF InChunk(b, Searched(b, t) + k)
               THEN LET new == Move(b, place, Searched(b, t) + k)
                    IN  <<new[1], new[2] + 1>>
               ELSE place
           Walk(h, k) == IF k = 0 THEN Entry(b, t) ELSE Onward(k - 1, h[k - 1])
           Some == {m \in Nat : \E h : h = [k \in 0 .. m |-> Walk(h, k)]}
           walk == CHOOSE h : h = [k \in 0 .. i |-> Walk(h, k)]
<1>1. i \in Nat /\ \A k \in 0 .. i : k \in Items
  BY SizesAre DEF Items
<1>2. 0 \in Some
  <2>1. [k \in 0 .. 0 |-> Entry(b, t)] = [k \in 0 .. 0 |-> Walk([j \in 0 .. 0 |-> Entry(b, t)], k)]
    <3> HIDE DEF Onward
    <3> QED OBVIOUS
  <2> HIDE DEF Walk
  <2> QED BY <2>1
<1>3. ASSUME NEW m \in Nat, m \in Some PROVE m + 1 \in Some
  <2>1. PICK h : h = [k \in 0 .. m |-> Walk(h, k)]
    BY <1>3
  <2> DEFINE g == [k \in 0 .. m + 1 |-> IF k <= m THEN h[k] ELSE Walk(h, k)]
  <2> HIDE DEF Onward
  <2>2. ASSUME NEW k \in 0 .. m + 1 PROVE g[k] = Walk(g, k)
    <3>1. g[k] = Walk(h, k)
      <4>1. k <= m => h[k] = Walk(h, k)
        <5> HIDE DEF Walk
        <5> QED BY <2>1
      <4> HIDE DEF Walk
      <4> QED BY <4>1
    <3>2. k # 0 => g[k - 1] = h[k - 1]
      <4> HIDE DEF Walk
      <4> QED OBVIOUS
    <3> HIDE DEF g
    <3> QED BY <3>1, <3>2
  <2>3. g = [k \in 0 .. m + 1 |-> Walk(g, k)]
    <3>1. \A k \in 0 .. m + 1 : g[k] = Walk(g, k)
      BY <2>2
    <3>2. g = [k \in 0 .. m + 1 |-> g[k]]
      <4> HIDE DEF Walk
      <4> QED OBVIOUS
    <3> HIDE DEF g, Walk
    <3> QED BY <3>1, <3>2
  <2> HIDE DEF g, Walk
  <2> QED BY <2>3
<1>4. \E h : h = [k \in 0 .. i |-> Walk(h, k)]
  <2>1. \A m \in Nat : m \in Some
    <3> HIDE DEF Some
    <3> QED BY <1>2, <1>3, SetInduction
  <2> QED BY <1>1, <2>1
<1>5. walk = [k \in 0 .. i |-> Walk(walk, k)]
  <2> HIDE DEF Walk
  <2> QED BY <1>4
<1>6. Before(b, t, i) = walk[i]
  BY DEF Before
<1> HIDE DEF walk
<1>7. /\ walk[0] = Entry(b, t)
      /\ \A k \in 0 .. i - 1 : walk[k + 1] = Onward(k, walk[k])
  <2> HIDE DEF Onward
  <2>1. 0 \in 0 .. i /\ \A k \in 0 .. i - 1 : k + 1 \in 0 .. i /\ k + 1 # 0 /\ (k + 1) - 1 = k
    BY <1>1
  <2>2. \A k \in 0 .. i : walk[k] = Walk(walk, k)
    <3> HIDE DEF Walk
    <3> QED BY <1>5
  <2> QED BY <2>1, <2>2
<1> HIDE DEF Some, Walk
<1> DEFINE x(k) == Searched(b, t) + k
           Reached(k) == /\ InChunk(b, x(k)) => At(b, x(k), walk[k])
                         /\ (\A j \in 0 .. k - 1 : ~InChunk(b, x(j))) => walk[k] = Entry(b, t)
           T == {k \in Nat : k <= i => Reached(k)}
<1>8. b \in Nat /\ block[b].low \in Int /\ HighLimit(b) \in Int /\ Searched(b, t) \in Int
  <2>1. b \in Blocks /\ Launched
    BY DEF Searching
  <2>2. b \in Nat
    BY <2>1, GridIs
  <2>3. 0 \in Items
    BY SizesAre DEF Items
  <2>4. SmemSize(b) - 1 \in 0 .. SmemSize(b) - 1
    BY ChunkIs, SizesAre
  <2>5. HighLimit(b) \in Nat /\ block[b].low \in Int
    BY <2>4, ChunkIs
  <2>6. Searched(b, t) \in Int
    BY <2>2, <2>3, ItemsAre
  <2> QED BY <2>2, <2>5, <2>6
<1>9. 0 \in T
  <2>1. Reached(0)
    <3>1. 0 \in Items
      BY <1>1
    <3>2. InChunk(b, x(0)) => At(b, x(0), Entry(b, t))
      BY <3>1, EntryAt
    <3> HIDE DEF x
    <3> QED BY <1>7, <3>2
  <2> HIDE DEF Reached
  <2> QED BY <2>1
<1>10. ASSUME NEW k \in Nat, k \in T PROVE k + 1 \in T
  <2> SUFFICES ASSUME k + 1 <= i PROVE Reached(k + 1)
    OBVIOUS
  <2>1. k \in 0 .. i - 1 /\ k + 1 \in Items /\ Reached(k) /\ k \in 0 .. k
    BY <1>1, <1>10
  <2>2. walk[k + 1] = Onward(k, walk[k])
    BY <1>7, <2>1
  <2>3. x(k) \in Int /\ x(k + 1) = x(k) + 1
    BY <1>8
  <2>4. CASE InChunk(b, x(k))
    <3>1. At(b, x(k), walk[k])
      BY <2>1, <2>4
    <3> DEFINE f == block[b].smem
    <3>2. PICK q \in 0 .. SmemSize(b) - 2 :
              /\ Move(b, walk[k], x(k)) = <<q, x(k) - f[q]>>
              /\ f[q] <= x(k) /\ x(k) < f[q + 1]
      <4> HIDE DEF x, Onward
      <4> QED BY <2>3, <2>4, <3>1, MovesTo
    <3>3. f[q] \in Int /\ f[q + 1] \in Int
      <4>1. q \in 0 .. SmemSize(b) - 1 /\ q + 1 \in 0 .. SmemSize(b) - 1
        BY ChunkIs
      <4> QED BY <4>1, ChunkIs
    <3>4. walk[k + 1] = <<q, (x(k) - f[q]) + 1>>
      <4> HIDE DEF x
      <4> QED BY <2>2, <2>4, <3>2 DEF x
    <3>5. /\ (x(k) - f[q]) + 1 = x(k + 1) - f[q]
          /\ f[q] <= x(k + 1) /\ x(k + 1) <= f[q + 1]
      <4> HIDE DEF x, f
      <4> QED BY <2>3, <3>2, <3>3
    <3>6. At(b, x(k + 1), walk[k + 1])
      <4> HIDE DEF x, Onward
      <4> QED BY <3>4, <3>5 DEF At
    <3> HIDE DEF x, Onward
    <3> QED BY <2>1, <2>4, <3>6 DEF Reached
  <2>5. CASE ~InChunk(b, x(k))
    <3>1. walk[k + 1] = walk[k]
      BY <2>2, <2>5
    <3>2. ASSUME \A j \in 0 .. (k + 1) - 1 : ~InChunk(b, x(j)) PROVE walk[k + 1] = Entry(b, t)
      <4>1. \A j \in 0 .. k - 1 : ~InChunk(b, x(j))
        <5> HIDE DEF x
        <5> QED BY <3>2
      <4> HIDE DEF x, Onward
      <4> QED BY <2>1, <3>1, <4>1
    <3>3. ASSUME InChunk(b, x(k + 1)) PROVE At(b, x(k + 1), walk[k + 1])
      <4>1. block[b].low <= x(k + 1) /\ x(k + 1) < HighLimit(b)
        BY <3>3 DEF InChunk
      <4>2. x(k) < block[b].low
        <5> HIDE DEF x
        <5> QED BY <1>8, <2>3, <2>5, <4>1 DEF InChunk
      <4>3. ASSUME NEW j \in 0 .. k PROVE ~InChunk(b, x(j))
        <5>1. x(j) <= x(k) /\ x(j) \in Int
          BY <1>8
        <5> HIDE DEF x
        <5> QED BY <1>8, <2>3, <4>2, <5>1 DEF InChunk
      <4>4. walk[k + 1] = Entry(b, t)
        <5>1. (k + 1) - 1 = k
          OBVIOUS
        <5> HIDE DEF x
        <5> QED BY <3>2, <4>3, <5>1
      <4>5. At(b, x(k + 1), Entry(b, t))
        <5>1. (k + 1) - 1 = k
          OBVIOUS
        <5> QED BY <2>1, <3>3, <4>2, <5>1, EntryAt
      <4> QED BY <4>4, <4>5
    <3> HIDE DEF x, Onward
    <3> QED BY <3>2, <3>3
  <2> QED BY <2>4, <2>5
<1>11. Reached(i)
  <2> HIDE DEF Reached
  <2>1. \A k \in Nat : k \in T
    <3> HIDE DEF T
    <3> QED BY <1>9, <1>10, SetInduction
  <2> QED BY <1>1, <2>1
<1> QED BY <1>6, <1>11

\* What an item of the chunk finds.
LEMMA ItemFound ==
    ASSUME NEW b, Searching(b), NEW t \in Threads, NEW i \in Items,
           InChunk(b, Searched(b, t) + i)
    PROVE  LET x     == Searched(b, t) + i
               place == Move(b, Before(b, t, i), x)
           IN  /\ \E q \in Before(b, t, i)[1] .. SmemSize(b) - 2 :
                      CanMove(b, Before(b, t, i)[1], q, x)
               /\ <<block[b].start + place[1], place[2]>> \in Int \X Int
               /\ IsEdge(x, <<block[b].start + place[1], place[2]>>)
<1> DEFINE x == Searched(b, t) + i
           f == block[b].smem
           s == block[b].start
<1>1. x \in Int /\ b \in Blocks /\ Launched
  <2>1. b \in Blocks /\ Launched
    BY DEF Searching
  <2>2. b \in Nat
    BY <2>1, GridIs
  <2> QED BY <2>1, <2>2, ItemsAre
<1>2. At(b, x, Before(b, t, i))
  BY BeforeAt
<1> HIDE DEF x
<1>3. InChunk(b, x)
  BY DEF x
<1>4. PICK q \in 0 .. SmemSize(b) - 2 :
          /\ q \in Before(b, t, i)[1] .. SmemSize(b) - 2
          /\ CanMove(b, Before(b, t, i)[1], q, x)
          /\ Move(b, Before(b, t, i), x) = <<q, x - f[q]>>
          /\ f[q] <= x /\ x < f[q + 1]
  BY <1>1, <1>2, <1>3, MovesTo
<1>5. SmemSize(b) \in Nat /\ s \in Nat /\ s + SmemSize(b) - 1 <= N
  BY ChunkIs, SizesAre
<1>6. N \in Nat /\ Positions = 0 .. N - 1
  BY <1>1, SumIs
<1>7. f[q] = work[s + q] /\ f[q + 1] = work[(s + q) + 1] /\ f[q] \in Nat
  <2>1. q \in 0 .. SmemSize(b) - 1 /\ q + 1 \in 0 .. SmemSize(b) - 1 /\ s + (q + 1) = (s + q) + 1
    BY <1>5
  <2> QED BY <2>1, ChunkIs
<1> HIDE DEF f, s
<1>8. s + q \in 0 .. N - 1 /\ x - f[q] \in Int
  BY <1>1, <1>5, <1>6, <1>7
<1>9. IsEdge(x, <<s + q, x - f[q]>>)
  BY <1>4, <1>6, <1>7, <1>8 DEF IsEdge
<1> QED BY <1>4, <1>8, <1>9 DEF x, f, s

-----------------------------------------------------------------------------
(* The calls of a block.                                                   *)

\* When all chunks have been read, the items of a block are its edges, each
\* once.
LEMMA CallsAre ==
    ASSUME Launched, NEW b \in Blocks, BlockOK(b, block[b]),
           block[b].at = "load", block[b].chunk <= 0
    PROVE  CallsOf(b) = SetToBag(EdgesOf(b))
<1> DEFINE reg == block[b].reg
           num(z) == Searched(b, z[1]) + z[2]
           called == {z \in Threads \X Items : reg[z[1]][z[2]][1] # -1}
           e(z) == reg[z[1]][z[2]]
<1>1. b \in Nat /\ work[N] \in Nat /\ N \in Nat \ {0} /\ P \in Nat
  <2>1. b \in Nat
    BY GridIs
  <2> QED BY <2>1, SumIs, SizesAre
<1>2. block[b] \in BlockRecord /\ ItemsSet(b, block[b]) /\ ChunkLeft(b, block[b])
  BY DEF BlockOK
<1>3. PICK l \in Nat : l = block[b].low /\ l <= work[N] /\
                       \A x \in Int : x < b * P + P /\ x < work[N] => x < l
  <2>1. block[b].low = work[Bound(b + 1) + 1] /\ Bound(b + 1) \in 0 .. N - 1
    BY <1>2, BoundsAre DEF ChunkLeft
  <2>2. PICK u \in 0 .. N : u = Bound(b + 1) + 1
    BY <1>1, <2>1
  <2>3. work[u] \in Nat /\ work[u] <= work[N]
    <3>1. N \in 0 .. N /\ u <= N
      BY <1>1
    <3> QED BY <3>1, SumIs
  <2>4. \A x \in Int : x < b * P + P /\ x < work[N] => x < work[u]
    BY <2>2, BoundsAre
  <2> QED BY <2>1, <2>2, <2>3, <2>4
<1>4. ASSUME NEW z \in Threads \X Items
      PROVE  /\ num(z) \in Int /\ b * P <= num(z) /\ num(z) < b * P + P
             /\ e(z) \in Int \X Int
             /\ IF num(z) < l THEN IsEdge(num(z), e(z)) ELSE e(z) = Fresh(b)
  <2>1. z[1] \in Threads /\ z[2] \in Items
    OBVIOUS
  <2>2. num(z) \in Int /\ b * P <= num(z) /\ num(z) < b * P + P
    BY <1>1, <2>1, ItemsAre
  <2>3. e(z) \in Int \X Int
    BY <1>2, <2>1 DEF BlockRecord
  <2>4. IF num(z) < l THEN IsEdge(num(z), e(z)) ELSE e(z) = Fresh(b)
    BY <1>2, <1>3, <2>1 DEF ItemsSet
  <2> QED BY <2>2, <2>3, <2>4
<1> HIDE DEF num, e
\* The items that no edge has are those of the last block.
<1>5. ASSUME NEW z \in Threads \X Items PROVE z \in called <=> num(z) < l
  <2>1. z \in called <=> e(z)[1] # -1
    BY DEF e
  <2>2. ASSUME num(z) < l PROVE e(z)[1] # -1
    <3>1. e(z)[1] \in Positions /\ Positions = 0 .. N - 1
      BY <1>4, <2>2, SumIs DEF IsEdge
    <3> QED BY <1>1, <3>1
  <2>3. ASSUME ~(num(z) < l) PROVE e(z)[1] = -1
    <3>1. ~(num(z) < work[N])
      BY <1>3, <1>4, <2>3
    <3>2. b + 1 \notin Blocks
      <4>1. ASSUME b + 1 \in Blocks PROVE FALSE
        <5>1. (b + 1) * P \in Nat /\ (b + 1) * P < work[N] /\ (b + 1) * P = b * P + P
          BY <1>1, <4>1, GridIs
        <5>2. b * P \in Nat
          BY <1>1
        <5> QED BY <1>1, <1>4, <3>1, <5>1, <5>2
      <4> QED BY <4>1
    <3> QED BY <1>4, <2>3, <3>2 DEF Fresh
  <2> QED BY <2>1, <2>2, <2>3
<1> HIDE DEF called
<1>6. ASSUME NEW z \in called
      PROVE  z \in Threads \X Items /\ e(z) \in EdgesOf(b) /\ Number(e(z)) = num(z)
  <2>1. z \in Threads \X Items
    BY DEF called
  <2>2. num(z) \in Int /\ e(z) \in Int \X Int /\ IsEdge(num(z), e(z))
    BY <1>4, <1>5, <2>1
  <2>3. e(z) \in AllEdges /\ Number(e(z)) = num(z)
    BY <2>2, NumbersAre DEF Launched
  <2> QED BY <1>4, <2>1, <2>3 DEF EdgesOf
<1>7. ASSUME NEW y \in EdgesOf(b) PROVE \E z \in called : e(z) = y
  <2>1. /\ y \in AllEdges /\ b * P <= Number(y) /\ Number(y) < b * P + P
        /\ Number(y) \in Nat /\ Number(y) < work[N]
        /\ IsEdge(Number(y), y) /\ y \in Int \X Int
    BY NumbersAre DEF EdgesOf, Launched
  <2>2. PICK t \in Threads, i \in Items : Number(y) = Searched(b, t) + i
    <3>1. Number(y) \in Int
      BY <2>1
    <3> QED BY <1>1, <2>1, <3>1, ItemsAre
  <2>3. PICK z \in Threads \X Items : z[1] = t /\ z[2] = i /\ num(z) = Number(y)
    <3>1. PICK z \in Threads \X Items : z[1] = t /\ z[2] = i
      <4>1. <<t, i>> \in Threads \X Items /\ <<t, i>>[1] = t /\ <<t, i>>[2] = i
        OBVIOUS
      <4> QED BY <4>1
    <3>2. num(z) = Number(y)
      BY <2>2, <3>1 DEF num
    <3> QED BY <3>1, <3>2
  <2>4. num(z) < l /\ num(z) \in Int
    BY <1>3, <2>1, <2>3
  <2>5. z \in called /\ e(z) \in Int \X Int /\ IsEdge(num(z), e(z))
    BY <1>4, <1>5, <2>4
  <2>6. e(z) = y
    BY <2>1, <2>3, <2>4, <2>5, NumbersAre DEF Launched
  <2> QED BY <2>5, <2>6
<1>8. ASSUME NEW y \in called, NEW z \in called, e(y) = e(z) PROVE y = z
  <2>1. num(y) = num(z) /\ y \in Threads \X Items /\ z \in Threads \X Items
    BY <1>6, <1>8
  <2>2. y[1] = z[1] /\ y[2] = z[2]
    <3>1. y[1] \in Threads /\ z[1] \in Threads /\ y[2] \in Items /\ z[2] \in Items
      BY <2>1
    <3>2. Searched(b, y[1]) + y[2] = Searched(b, z[1]) + z[2]
      BY <2>1 DEF num
    <3>3. \A t, u \in Threads, i, j \in Items :
              Searched(b, t) + i = Searched(b, u) + j => t = u /\ i = j
      BY <1>1, ItemsAre
    <3>4. PICK t \in Threads, u \in Threads : t = y[1] /\ u = z[1]
      BY <3>1
    <3>5. PICK i \in Items, j \in Items : i = y[2] /\ j = z[2]
      BY <3>1
    <3>6. Searched(b, t) + i = Searched(b, u) + j
      BY <3>2, <3>4, <3>5
    <3> QED BY <3>3, <3>4, <3>5, <3>6
  <2> QED BY <2>1, <2>2
<1>9. CallsOf(b) = [y \in {e(z) : z \in called} |-> Cardinality({z \in called : e(z) = y})]
  BY DEF CallsOf, called, e
<1>10. {e(z) : z \in called} = EdgesOf(b)
  BY <1>6, <1>7
<1>11. ASSUME NEW y \in EdgesOf(b) PROVE Cardinality({z \in called : e(z) = y}) = 1
  <2>1. PICK z \in called : e(z) = y
    BY <1>7
  <2>2. {w \in called : e(w) = y} = {z}
    BY <1>8, <2>1
  <2> QED BY <2>2, FS_Singleton
<1>12. CallsOf(b) = [y \in EdgesOf(b) |-> 1]
  BY <1>9, <1>10, <1>11
<1> QED BY <1>12 DEF SetToBag

\* Two sets that share no edge, as bags.
LEMMA SetsAdd ==
    ASSUME NEW S, NEW R, S \cap R = {}
    PROVE  SetToBag(S) (+) SetToBag(R) = SetToBag(S \cup R)
  BY DEF SetToBag, (+)

LEMMA EmptySetIs == SetToBag({}) = EmptyBag
  BY DEF EmptyBag

-----------------------------------------------------------------------------
(* The threads of VertexBased.                                             *)

\* The group of a thread is its vertex, its lane the remainder of its edges.
LEMMA StridesAre ==
    ASSUME degrees \in Inputs
    PROVE  /\ GroupThreads \in Nat
           /\ \A id \in 0 .. GroupThreads - 1 : \A e :
                  e \in Strided(id) <=> /\ e \in AllEdges /\ e[1] = id \div VW_SIZE
                                        /\ e[2] % VW_SIZE = id % VW_SIZE
<1> DEFINE VW == VW_SIZE
           B == BLOCK_SIZE
<1>1. /\ N \in Nat \ {0} /\ Positions = 0 .. N - 1 /\ VW \in Nat \ {0} /\ B \in Nat \ {0}
      /\ B % VW = 0
  BY DegreesAre, SizesAre, LoadAssumption DEF Positions, N
<1> HIDE DEF VW, B
<1>2. PICK c \in Nat : c = CeilDiv(N, B) /\ N <= c * B
  BY <1>1, CeilDivIs
<1>3. PICK k \in Nat \ {0} : k = c * B /\ N <= k
  <2>1. c * B \in Nat
    BY <1>1, <1>2
  <2> QED BY <1>1, <1>2, <2>1
<1>4. GroupThreads = k * VW
  <2>1. GroupThreads = (c * VW) * B
    BY <1>2 DEF GroupThreads, VW, B, N
  <2>2. (c * VW) * B = (c * B) * VW
    BY <1>1, <1>2
  <2> QED BY <1>3, <2>1, <2>2
<1>5. k * VW \in Nat
  BY <1>1, <1>3
<1>6. GroupThreads \div VW = k
  <2>1. k * VW = k * VW + 0 /\ 0 \in 0 .. VW - 1
    BY <1>1, <1>5
  <2>2. \A q \in Nat, r \in 0 .. VW - 1 : k * VW = q * VW + r => q = (k * VW) \div VW /\ r = (k * VW) % VW
    BY <1>1, <1>5, Quotient
  <2> QED BY <1>3, <1>4, <2>1, <2>2
<1>7. ASSUME NEW p \in 0 .. N - 1 PROVE p % k = p
  <2>1. p = 0 * k + p /\ p \in 0 .. k - 1 /\ p \in Nat /\ 0 \in Nat
    BY <1>1, <1>3
  <2>2. \A q \in Nat, r \in 0 .. k - 1 : p = q * k + r => q = p \div k /\ r = p % k
    <3>1. p \in Nat /\ k \in Nat \ {0}
      BY <1>1
    <3> QED BY ONLY <3>1, Quotient
  <2>3. p = p % k
    BY <2>1, <2>2
  <2> QED BY <2>3
<1>8. PICK d \in Nat : B = d * VW
  <2>1. B = (B \div VW) * VW + (B % VW) /\ B \div VW \in Nat
    BY <1>1, Quotient
  <2>2. (B \div VW) * VW \in Nat
    BY <1>1, <2>1
  <2>3. B = (B \div VW) * VW
    BY <1>1, <2>1, <2>2
  <2> QED BY <2>1, <2>3
<1>9. ASSUME NEW id \in Nat PROVE (id % B) % VW = id % VW
  <2>1. PICK a \in Nat, r \in 0 .. B - 1 : r = id % B /\ id = a * B + r
    <3>1. B \in Nat \ {0}
      BY <1>1
    <3>2. id \div B \in Nat /\ id % B \in 0 .. B - 1 /\ id = (id \div B) * B + (id % B)
      BY ONLY <3>1, Quotient, id \in Nat
    <3> QED BY <3>2
  <2>2. PICK w \in Nat, s \in 0 .. VW - 1 : s = r % VW /\ r = w * VW + s
    <3>1. r \in Nat /\ VW \in Nat \ {0}
      BY <1>1
    <3>2. r \div VW \in Nat /\ r % VW \in 0 .. VW - 1 /\ r = (r \div VW) * VW + (r % VW)
      BY ONLY <3>1, Quotient
    <3> QED BY <3>2
  <2>3. id = (a * d + w) * VW + s
    <3>1. a * B = (a * d) * VW
      BY <1>1, <1>8, <2>1
    <3>2. (a * d + w) * VW = (a * d) * VW + w * VW
      BY <1>1, <1>8, <2>1, <2>2
    <3>3. (a * d) * VW \in Int /\ w * VW \in Int
      BY <1>1, <1>8, <2>1, <2>2
    <3>4. PICK y \in Int, z \in Int : y = (a * d) * VW /\ z = w * VW
      BY <3>3
    <3>5. id = y + r /\ r = z + s
      BY <2>1, <2>2, <3>1, <3>4
    <3>6. id = (y + z) + s
      BY <1>1, <2>2, <3>4, <3>5
    <3> QED BY <3>2, <3>4, <3>6
  <2>4. a * d + w \in Nat
    BY <1>8, <2>1, <2>2
  <2>5. \A q \in Nat, t \in 0 .. VW - 1 : id = q * VW + t => q = id \div VW /\ t = id % VW
    <3>1. VW \in Nat \ {0}
      BY <1>1
    <3> QED BY ONLY <3>1, Quotient, id \in Nat
  <2>6. s = id % VW
    BY <2>2, <2>3, <2>4, <2>5, Zenon
  <2> QED BY <2>1, <2>2, <2>6
<1>10. ASSUME NEW id \in 0 .. GroupThreads - 1, NEW e
       PROVE  e \in Strided(id) <=> /\ e \in AllEdges /\ e[1] = id \div VW
                                    /\ e[2] % VW = id % VW
  <2>1. id \in Nat
    BY <1>4, <1>5
  <2>2. e \in Strided(id) <=> /\ e \in AllEdges /\ e[1] % k = id \div VW
                              /\ e[2] % VW = (id % B) % VW
    BY <1>6 DEF Strided, VW, B
  <2>3. e \in AllEdges => e[1] % k = e[1]
    BY <1>1, <1>7, EdgesAre
  <2> QED BY <1>9, <2>1, <2>2, <2>3
<1> QED BY <1>4, <1>5, <1>10 DEF VW

\* Each edge is one of one thread.
LEMMA StridesPart ==
    ASSUME degrees \in Inputs
    PROVE  /\ \A id, jd \in 0 .. GroupThreads - 1 :
                  id # jd => Strided(id) \cap Strided(jd) = {}
           /\ UNION {Strided(id) : id \in 0 .. GroupThreads - 1} = AllEdges
<1> DEFINE VW == VW_SIZE
<1>1. /\ N \in Nat \ {0} /\ Positions = 0 .. N - 1 /\ VW \in Nat \ {0} /\ BLOCK_SIZE \in Nat \ {0}
      /\ GroupThreads \in Nat /\ \A i \in 0 .. N - 1 : Degree(i) \in Nat
  BY DegreesAre, SizesAre, StridesAre DEF Positions, N
<1> HIDE DEF VW
<1>2. \A id \in 0 .. GroupThreads - 1 : \A e :
          e \in Strided(id) <=> /\ e \in AllEdges /\ e[1] = id \div VW /\ e[2] % VW = id % VW
  BY StridesAre DEF VW
<1>3. ASSUME NEW id \in 0 .. GroupThreads - 1, NEW jd \in 0 .. GroupThreads - 1,
             NEW e, e \in Strided(id), e \in Strided(jd)
      PROVE  id = jd
  <2>1. id \div VW = jd \div VW /\ id % VW = jd % VW
    BY <1>2, <1>3
  <2>2. id = (id \div VW) * VW + (id % VW) /\ jd = (jd \div VW) * VW + (jd % VW)
    BY <1>1, Quotient
  <2> QED BY <2>1, <2>2
<1>4. ASSUME NEW e \in AllEdges PROVE \E id \in 0 .. GroupThreads - 1 : e \in Strided(id)
  <2>1. PICK p \in 0 .. N - 1, o \in Nat : e[1] = p /\ e[2] = o
    BY <1>1, EdgesAre
  <2>2. PICK r \in 0 .. VW - 1 : r = o % VW
    BY <1>1, Quotient
  <2>3. PICK id \in Nat : id = p * VW + r
    <3>1. p * VW \in Nat
      BY <1>1
    <3> QED BY <1>1, <3>1
  <2>4. p = id \div VW /\ r = id % VW
    <3>1. \A q \in Nat, t \in 0 .. VW - 1 : id = q * VW + t => q = id \div VW /\ t = id % VW
      BY <1>1, Quotient
    <3> QED BY <1>1, <2>3, <3>1
  <2>5. id < GroupThreads
    <3>1. PICK c \in Nat : c = CeilDiv(N, BLOCK_SIZE) /\ N <= c * BLOCK_SIZE
      BY <1>1, CeilDivIs
    <3>2. PICK k \in Nat : k = c * BLOCK_SIZE /\ N <= k /\ GroupThreads = k * VW
      <4>1. c * BLOCK_SIZE \in Nat
        BY <1>1, <3>1
      <4>2. GroupThreads = (c * VW) * BLOCK_SIZE
        BY <3>1 DEF GroupThreads, VW, N
      <4>3. (c * VW) * BLOCK_SIZE = (c * BLOCK_SIZE) * VW
        BY <1>1, <3>1
      <4> QED BY <3>1, <4>1, <4>2, <4>3
    <3>3. p * VW \in Int /\ p * VW + VW <= k * VW /\ k * VW \in Int
      <4>1. p \in Int /\ k \in Int /\ p < k /\ VW \in Nat
        BY <1>1, <3>2
      <4> QED BY <4>1, Multiples
    <3>4. PICK y \in Int, z \in Int : y = p * VW /\ z = k * VW /\ y + VW <= z
      BY <3>3
    <3>5. id = y + r /\ GroupThreads = z
      BY <2>3, <3>2, <3>4
    <3>6. VW \in Nat /\ r \in Int /\ r < VW
      BY <1>1
    <3>7. y + r < z
      BY <3>4, <3>6
    <3> QED BY <3>5, <3>7
  <2>6. id \in 0 .. GroupThreads - 1
    BY <1>1, <2>5
  <2>7. e \in Strided(id)
    BY <1>2, <2>1, <2>2, <2>4, <2>6
  <2> QED BY <2>6, <2>7
<1>5. \A id \in 0 .. GroupThreads - 1 : Strided(id) \subseteq AllEdges
  BY <1>2
<1> QED BY <1>3, <1>4, <1>5

-----------------------------------------------------------------------------
(* The invariant is inductive.                                             *)

LEMMA InitKeeps == Init => IInv
<1> SUFFICES ASSUME Init PROVE IInv
  OBVIOUS
<1>1. degrees \in Inputs /\ pc = "call" /\ block = <<>> /\ calls = EmptyBag
  BY DEF Init
<1>2. DOMAIN work = 0 .. N
  BY DEF Init, N
<1>3. Given = {}
  BY <1>1 DEF Given
<1> QED BY <1>1, <1>2, <1>3, EmptySetIs
        DEF IInv, BeforeLaunch, GroupsLeft, SumFirst, BlocksRun, Ended

\* What a block has to do depends on its own record only.
LEMMA BlockFrame ==
    ASSUME UNCHANGED <<degrees, work>>, DOMAIN block' = DOMAIN block,
           NEW c \in Blocks, BlockOK(c, block'[c])
    PROVE  BlockOK(c, block[c])'
<1>1. N' = N /\ Positions' = Positions /\ Blocks' = Blocks
  BY DEF N, Positions, Blocks
<1>2. Bound(c)' = Bound(c) /\ Bound(c + 1)' = Bound(c + 1)
  BY DEF Bound
<1>3. PICK r : r = block'[c]
  OBVIOUS
<1>4. BlockOK(c, r)
  BY <1>3
<1>5. ItemsSet(c, r) => ItemsSet(c, block[c])'
  BY <1>1, <1>3 DEF ItemsSet, IsEdge, Fresh, Searched
<1>6. ChunkLeft(c, r) => ChunkLeft(c, block[c])'
  BY <1>2, <1>3 DEF ChunkLeft
<1>7. ChunkLoaded(r) => ChunkLoaded(block[c])'
  BY <1>3 DEF ChunkLoaded
<1>8. r \in BlockRecord => (block[c] \in BlockRecord)'
  BY <1>3 DEF BlockRecord
<1> QED BY <1>3, <1>4, <1>5, <1>6, <1>7, <1>8 DEF BlockOK

LEMMA BlocksApart ==
    ASSUME Launched, NEW b \in Blocks, NEW c \in Blocks, b # c
    PROVE  EdgesOf(b) \cap EdgesOf(c) = {}
<1>1. b \in Int /\ c \in Int /\ P \in Nat
  BY GridIs, SizesAre
<1>2. ASSUME NEW e \in EdgesOf(b), e \in EdgesOf(c) PROVE FALSE
  <2>1. PICK x \in Nat : /\ x = Number(e) /\ b * P <= x /\ x < b * P + P
                         /\ c * P <= x /\ x < c * P + P
    BY <1>2, NumbersAre DEF EdgesOf, Launched
  <2>2. /\ b < c => b * P + P <= c * P
        /\ c < b => c * P + P <= b * P
        /\ b * P \in Int /\ c * P \in Int
    BY <1>1, Multiples
  <2> QED BY <1>1, <2>1, <2>2
<1> QED BY <1>2

\* A step of a block keeps the invariant, if it does what the block has to do
\* and makes the calls of the block when it ends.
LEMMA BlockKeeps ==
    ASSUME IInv, pc = "blocks", NEW b \in Blocks, block[b].at # "done",
           UNCHANGED <<degrees, pc, work, groups>>,
           DOMAIN block' = DOMAIN block, \A c \in Blocks : c # b => block'[c] = block[c],
           BlockOK(b, block'[b]),
           calls' = IF block'[b].at = "done" THEN calls (+) SetToBag(EdgesOf(b)) ELSE calls
    PROVE  IInv'
<1>1. /\ IsSum(work) /\ DOMAIN block = Blocks /\ degrees \in Inputs
      /\ \A c \in Blocks : BlockOK(c, block[c])
  BY DEF IInv, BlocksRun
<1>2. N' = N /\ Positions' = Positions /\ Blocks' = Blocks
  BY DEF N, Positions, Blocks
<1>3. \A c \in Blocks : BlockOK(c, block[c])'
  <2> SUFFICES ASSUME NEW c \in Blocks PROVE BlockOK(c, block[c])'
    OBVIOUS
  <2>1. BlockOK(c, block'[c])
    BY <1>1
  <2> QED BY <2>1, BlockFrame
<1>4. IsSum(work)'
  BY <1>1, <1>2 DEF IsSum, Degree
<1>5. BlocksRun'
  BY <1>1, <1>2, <1>3, <1>4 DEF BlocksRun
<1> DEFINE Over == {c \in Blocks : block[c].at = "done"}
<1>6. Given = UNION {EdgesOf(c) : c \in Over}
  BY DEF Given
<1>7. \A c : EdgesOf(c)' = EdgesOf(c)
  BY <1>2 DEF EdgesOf, AllEdges, Number, Degree
<1>8. Given' = UNION {EdgesOf(c) : c \in {d \in Blocks : block'[d].at = "done"}}
  BY <1>2, <1>7 DEF Given
<1>9. calls = SetToBag(Given)
  BY DEF IInv
<1>10. CASE block'[b].at # "done"
  <2>1. {d \in Blocks : block'[d].at = "done"} = Over
    BY <1>10
  <2>2. Given' = Given /\ calls' = calls
    BY <1>6, <1>8, <1>10, <2>1
  <2>3. calls' = SetToBag(Given')
    BY <1>9, <2>2
  <2> QED BY <1>2, <1>5, <2>3 DEF IInv, BeforeLaunch, GroupsLeft, SumFirst, Ended
<1>11. CASE block'[b].at = "done"
  <2>1. {d \in Blocks : block'[d].at = "done"} = Over \cup {b}
    BY <1>11
  <2>2. Given' = Given \cup EdgesOf(b)
    BY <1>6, <1>8, <2>1
  <2>3. Given \cap EdgesOf(b) = {}
    <3>1. \A c \in Over : c # b
      OBVIOUS
    <3>2. \A c \in Over : EdgesOf(c) \cap EdgesOf(b) = {}
      BY <1>1, <3>1, BlocksApart DEF Launched
    <3> QED BY <1>6, <3>2
  <2>4. calls' = SetToBag(Given')
    <3>1. calls' = SetToBag(Given) (+) SetToBag(EdgesOf(b))
      BY <1>9, <1>11
    <3> HIDE DEF Over
    <3> QED BY <2>2, <2>3, <3>1, SetsAdd
  <2> QED BY <1>2, <1>5, <2>4 DEF IInv, BeforeLaunch, GroupsLeft, SumFirst, Ended
<1> QED BY <1>10, <1>11

\* What the steps of a block start from.
LEMMA BlockNow ==
    ASSUME IInv, pc = "blocks", NEW b \in DOMAIN block
    PROVE  Launched /\ b \in Blocks /\ BlockOK(b, block[b])
  BY DEF IInv, BlocksRun, Launched

LEMMA FindBoundsKeeps ==
    ASSUME IInv, NEW b \in DOMAIN block, FindBounds(b)
    PROVE  IInv'
<1>1. Launched /\ b \in Blocks /\ BlockOK(b, block[b]) /\ pc = "blocks" /\ block[b].at = "bounds"
  BY BlockNow DEF FindBounds
<1> DEFINE r == [block[b] EXCEPT !.at = "load", !.start = Bound(b), !.chunk = Width(b),
                                 !.smem[0] = Bound(b), !.smem[1] = Bound(b + 1)]
<1>2. UNCHANGED <<degrees, pc, work, groups, calls>>
  BY DEF FindBounds
<1>3. block[b] \in BlockRecord /\ block[b].low = 0 /\ ItemsSet(b, block[b])
  BY <1>1 DEF BlockOK
<1>4. PICK v \in 0 .. N - 1, u \in 0 .. N - 1 : v = Bound(b) /\ u = Bound(b + 1) /\ v <= u
  BY <1>1, BoundsAre
<1>5. PICK k \in Nat : k = Width(b) /\ k > 0 /\ v + k = u + 2
  BY <1>4 DEF Width
<1>6. r = [block[b] EXCEPT !.at = "load", !.start = v, !.chunk = k, !.smem[0] = v, !.smem[1] = u]
  BY <1>4, <1>5
<1>7. /\ r.at = "load" /\ r.start = v /\ r.chunk = k /\ r.low = 0 /\ r.reg = block[b].reg
      /\ r \in BlockRecord
  <2>1. v \in Int /\ u \in Int /\ k \in Int
    BY <1>4
  <2> HIDE DEF r
  <2> QED BY <1>3, <1>6, <2>1 DEF BlockRecord
<1>8. block'[b] = r /\ DOMAIN block' = DOMAIN block /\ \A c \in Blocks : c # b => block'[c] = block[c]
  BY <1>1 DEF FindBounds, Launched
<1> HIDE DEF r
<1>9. ItemsSet(b, r)
  BY <1>3, <1>7 DEF ItemsSet
<1>10. ChunkLeft(b, r)
  BY <1>4, <1>5, <1>7 DEF ChunkLeft
<1>11. BlockOK(b, r)
  BY <1>7, <1>9, <1>10 DEF BlockOK
<1> QED BY <1>1, <1>2, <1>7, <1>8, <1>11, BlockKeeps

LEMMA LoadChunkKeeps ==
    ASSUME IInv, NEW b \in DOMAIN block, LoadChunk(b)
    PROVE  IInv'
<1>1. /\ Launched /\ b \in Blocks /\ BlockOK(b, block[b]) /\ pc = "blocks"
      /\ block[b].at = "load" /\ block[b].chunk > 0
  BY BlockNow DEF LoadChunk
<1>2. block[b] \in BlockRecord /\ ItemsSet(b, block[b]) /\ ChunkLeft(b, block[b])
  BY <1>1 DEF BlockOK
<1>3. PICK s \in Int, k \in Int : s = block[b].start /\ k = block[b].chunk
  BY <1>2 DEF BlockRecord
<1>4. PICK v \in 0 .. N - 1, u \in 0 .. N - 1 : v = Bound(b) /\ u = Bound(b + 1) /\ v <= u
  BY <1>1, BoundsAre
<1>5. v <= s /\ s + k = u + 2 /\ k > 0
  BY <1>1, <1>2, <1>3, <1>4 DEF ChunkLeft
<1>6. PICK m \in Nat : m = SmemSize(b) /\ m = Least(k, P) /\ m <= P /\ m <= k
  BY <1>3, <1>5, SizesAre DEF SmemSize, Least, P
<1> DEFINE f == [c \in DOMAIN block[b].smem |->
                    IF c < SmemSize(b) THEN work[block[b].start + c] ELSE block[b].smem[c]]
           r == [block[b] EXCEPT !.at = "search", !.smem = f]
<1>7. block' = [block EXCEPT ![b] = r] /\ UNCHANGED <<degrees, pc, work, groups, calls>>
  BY DEF LoadChunk
<1>8. block[b].smem \in [0 .. P - 1 -> Int]
  BY <1>2 DEF BlockRecord
<1>9. ASSUME NEW c \in 0 .. P - 1, c < m PROVE work[s + c] \in Int /\ f[c] = work[s + c]
  <2>1. N \in Nat
    BY <1>1, SumIs
  <2>2. P \in Nat
    BY SizesAre
  <2>3. s + c \in 0 .. N
    BY <1>4, <1>5, <1>6, <1>9, <2>1, <2>2
  <2>4. work[s + c] \in Int
    BY <1>1, <2>3, SumIs
  <2> QED BY <1>3, <1>6, <1>8, <1>9, <2>4
<1>10. f \in [0 .. P - 1 -> Int]
  <2>1. \A c \in 0 .. P - 1 : f[c] \in Int
    BY <1>3, <1>6, <1>8, <1>9
  <2>2. f = [c \in 0 .. P - 1 |-> f[c]]
    BY <1>8
  <2> HIDE DEF f
  <2> QED BY <2>1, <2>2
<1> HIDE DEF f
<1>11. /\ r.at = "search" /\ r.start = s /\ r.chunk = k /\ r.low = block[b].low
       /\ r.reg = block[b].reg /\ r.smem = f /\ r \in BlockRecord
  BY <1>2, <1>3, <1>10 DEF BlockRecord
<1>12. block'[b] = r /\ DOMAIN block' = DOMAIN block /\ \A c \in Blocks : c # b => block'[c] = block[c]
  <2> HIDE DEF r
  <2> QED BY <1>1, <1>7 DEF Launched
<1> HIDE DEF r
<1>13. ItemsSet(b, r)
  BY <1>2, <1>11 DEF ItemsSet
<1>14. ChunkLeft(b, r)
  BY <1>2, <1>3, <1>11 DEF ChunkLeft
<1>15. ChunkLoaded(r)
  <2>1. \A c \in 0 .. m - 1 : c \in 0 .. P - 1 /\ c < m
    BY <1>6, SizesAre
  <2>2. \A c \in 0 .. m - 1 : r.smem[c] = work[r.start + c]
    BY <1>9, <1>11, <2>1
  <2> QED BY <1>5, <1>6, <1>11, <2>2 DEF ChunkLoaded
<1>16. BlockOK(b, r)
  BY <1>11, <1>13, <1>14, <1>15 DEF BlockOK
<1> QED BY <1>1, <1>7, <1>11, <1>12, <1>16, BlockKeeps

LEMMA SearchChunkKeeps ==
    ASSUME IInv, NEW b \in DOMAIN block, SearchChunk(b)
    PROVE  IInv'
<1>1. /\ Launched /\ b \in Blocks /\ BlockOK(b, block[b]) /\ pc = "blocks"
      /\ block[b].at = "search"
  BY BlockNow DEF SearchChunk
<1>2. Searching(b)
  BY <1>1 DEF Searching
<1>3. /\ block[b] \in BlockRecord /\ ItemsSet(b, block[b])
      /\ ChunkLeft(b, block[b]) /\ ChunkLoaded(block[b])
  BY <1>1 DEF BlockOK
<1>4. PICK s \in Int, k \in Int, l \in Int :
          s = block[b].start /\ k = block[b].chunk /\ l = block[b].low
  BY <1>3 DEF BlockRecord
<1>5. PICK v \in 0 .. N - 1, u \in 0 .. N - 1 : v = Bound(b) /\ u = Bound(b + 1) /\ v <= u
  BY <1>1, BoundsAre
<1>6. v <= s /\ s + k = u + 2 /\ k > 0
  BY <1>3, <1>4, <1>5 DEF ChunkLeft, ChunkLoaded
<1>7. PICK h \in Nat, m \in 1 .. P :
          /\ h = HighLimit(b) /\ m = SmemSize(b) /\ l <= h
          /\ h = work[s + (m - 1)] /\ m = Least(k, P)
  <2>1. SmemSize(b) \in 1 .. P /\ P \in Nat
    BY <1>2, ChunkIs, SizesAre
  <2>2. SmemSize(b) - 1 \in 0 .. SmemSize(b) - 1
    BY <2>1
  <2>3. /\ HighLimit(b) = block[b].smem[SmemSize(b) - 1] /\ block[b].low <= HighLimit(b)
        /\ block[b].smem[SmemSize(b) - 1] \in Nat
        /\ block[b].smem[SmemSize(b) - 1] = work[block[b].start + (SmemSize(b) - 1)]
    BY <1>2, <2>2, ChunkIs
  <2>4. SmemSize(b) = Least(k, P)
    BY <1>4 DEF SmemSize, P
  <2> QED BY <1>4, <2>1, <2>3, <2>4
<1> DEFINE x(t, i) == Searched(b, t) + i
           place(t, i) == Move(b, Before(b, t, i), x(t, i))
           found(t, i) == <<block[b].start + place(t, i)[1], place(t, i)[2]>>
           reg == [t \in Threads |-> [i \in Items |->
                     IF InChunk(b, x(t, i)) THEN found(t, i) ELSE block[b].reg[t][i]]]
           r == [block[b] EXCEPT !.at = "load", !.start = @ + Stride, !.chunk = @ - Stride,
                                 !.low = HighLimit(b), !.reg = reg]
<1>8. block' = [block EXCEPT ![b] = r] /\ UNCHANGED <<degrees, pc, work, groups, calls>>
  BY DEF SearchChunk
<1>9. P \in Nat /\ P >= 2 /\ Stride = P - 1
  BY SizesAre DEF Stride, P
<1>10. ASSUME NEW t \in Threads, NEW i \in Items
       PROVE  /\ x(t, i) \in Int
              /\ reg[t][i] \in Int \X Int
              /\ IF x(t, i) < h THEN IsEdge(x(t, i), reg[t][i]) ELSE reg[t][i] = Fresh(b)
  <2>1. x(t, i) \in Int
    <3>1. b \in Nat
      BY <1>1, GridIs
    <3> QED BY <3>1, ItemsAre
  <2>2. block[b].reg[t][i] \in Int \X Int
    BY <1>3 DEF BlockRecord
  <2>3. InChunk(b, x(t, i)) <=> l <= x(t, i) /\ x(t, i) < h
    BY <1>4, <1>7 DEF InChunk
  <2>4. CASE InChunk(b, x(t, i))
    <3>1. found(t, i) \in Int \X Int /\ IsEdge(x(t, i), found(t, i))
      BY <1>2, <2>4, ItemFound
    <3>2. reg[t][i] = found(t, i)
      <4> HIDE DEF found, x
      <4> QED BY <2>4
    <3> HIDE DEF reg, found, x
    <3> QED BY <2>1, <2>3, <2>4, <3>1, <3>2
  <2>5. CASE ~InChunk(b, x(t, i))
    <3>1. reg[t][i] = block[b].reg[t][i]
      <4> HIDE DEF found, x
      <4> QED BY <2>5
    <3>2. IF x(t, i) < l THEN IsEdge(x(t, i), reg[t][i]) ELSE reg[t][i] = Fresh(b)
      <4> HIDE DEF reg
      <4> QED BY <1>3, <1>4, <3>1 DEF ItemsSet
    <3> HIDE DEF reg, found, x
    <3>3. x(t, i) < h <=> x(t, i) < l
      BY <1>4, <1>7, <2>1, <2>3, <2>5
    <3> QED BY <2>1, <2>2, <3>1, <3>2, <3>3
  <2> QED BY <2>4, <2>5
<1>11. reg \in [Threads -> [Items -> Int \X Int]]
  <2>1. \A t \in Threads, i \in Items : reg[t][i] \in Int \X Int
    BY <1>10
  <2>2. reg = [t \in Threads |-> [i \in Items |-> reg[t][i]]]
    <3> HIDE DEF found, x
    <3> QED OBVIOUS
  <2> HIDE DEF reg
  <2> QED BY <2>1, <2>2
<1> HIDE DEF reg
<1>12. /\ r.at = "load" /\ r.start = s + (P - 1) /\ r.chunk = k - (P - 1) /\ r.low = h
       /\ r.reg = reg /\ r \in BlockRecord
  <2>1. r = [block[b] EXCEPT !.at = "load", !.start = s + (P - 1), !.chunk = k - (P - 1),
                             !.low = h, !.reg = reg]
    BY <1>3, <1>4, <1>7, <1>9 DEF BlockRecord
  <2>2. s + (P - 1) \in Int /\ k - (P - 1) \in Int /\ h \in Int
    BY <1>9
  <2> HIDE DEF r
  <2> QED BY <1>3, <1>11, <2>1, <2>2 DEF BlockRecord
<1>13. block'[b] = r /\ DOMAIN block' = DOMAIN block /\ \A c \in Blocks : c # b => block'[c] = block[c]
  <2> HIDE DEF r
  <2> QED BY <1>1, <1>8 DEF Launched
<1> HIDE DEF r
<1>14. ItemsSet(b, r)
  BY <1>10, <1>12 DEF ItemsSet
<1>15. ChunkLeft(b, r)
  <2>1. v <= s + (P - 1) /\ s + (P - 1) + (k - (P - 1)) = u + 2
    BY <1>6, <1>9, SumIs, <1>1
  <2>2. k - (P - 1) > 0 => h = work[s + (P - 1)]
    <3>1. k - (P - 1) > 0 => m = P
      BY <1>7, <1>9 DEF Least
    <3> QED BY <1>7, <3>1
  <2>3. k - (P - 1) <= 0 => h = work[u + 1]
    <3>1. k - (P - 1) <= 0 => m = k
      BY <1>7, <1>9 DEF Least
    <3>2. s + (k - 1) = u + 1
      BY <1>6
    <3> QED BY <1>7, <3>1, <3>2
  <2> QED BY <1>5, <1>12, <2>1, <2>2, <2>3 DEF ChunkLeft
<1>16. BlockOK(b, r)
  BY <1>12, <1>14, <1>15 DEF BlockOK
<1> QED BY <1>1, <1>8, <1>12, <1>13, <1>16, BlockKeeps

LEMMA CallItemsKeeps ==
    ASSUME IInv, NEW b \in DOMAIN block, CallItems(b)
    PROVE  IInv'
<1>1. /\ Launched /\ b \in Blocks /\ BlockOK(b, block[b]) /\ pc = "blocks"
      /\ block[b].at = "load" /\ block[b].chunk <= 0
  BY BlockNow DEF CallItems
<1> DEFINE r == [block[b] EXCEPT !.at = "done"]
<1>2. /\ block' = [block EXCEPT ![b] = r] /\ UNCHANGED <<degrees, pc, work, groups>>
      /\ calls' = calls (+) CallsOf(b)
  BY DEF CallItems
<1>3. CallsOf(b) = SetToBag(EdgesOf(b))
  BY <1>1, CallsAre
<1>4. block[b] \in BlockRecord
  BY <1>1 DEF BlockOK
<1>5. r.at = "done" /\ r \in BlockRecord
  BY <1>4 DEF BlockRecord
<1>6. block'[b] = r /\ DOMAIN block' = DOMAIN block /\ \A c \in Blocks : c # b => block'[c] = block[c]
  <2> HIDE DEF r
  <2> QED BY <1>1, <1>2 DEF Launched
<1> HIDE DEF r
<1>7. BlockOK(b, r)
  BY <1>5 DEF BlockOK
<1> QED BY <1>1, <1>2, <1>3, <1>5, <1>6, <1>7, BlockKeeps

LEMMA BlocksDoneKeeps ==
    ASSUME IInv, BlocksDone
    PROVE  IInv'
<1>1. /\ pc = "blocks" /\ pc' = "done" /\ UNCHANGED <<degrees, work, block, groups, calls>>
      /\ \A b \in DOMAIN block : block[b].at = "done"
  BY DEF BlocksDone
<1>2. Launched
  BY <1>1 DEF IInv, BlocksRun, Launched
<1>3. calls = SetToBag(UNION {EdgesOf(b) : b \in Blocks})
  <2>1. {c \in Blocks : block[c].at = "done"} = Blocks
    BY <1>1, <1>2 DEF Launched
  <2> QED BY <1>1, <2>1 DEF IInv, Given
\* The number of every edge is one of a block.
<1>4. UNION {EdgesOf(b) : b \in Blocks} = AllEdges
  <2>1. ASSUME NEW e \in AllEdges PROVE \E b \in Blocks : e \in EdgesOf(b)
    <3>1. PICK x \in Nat : x = Number(e) /\ x < work[N]
      BY <1>2, NumbersAre DEF Launched
    <3>2. PICK g \in Nat : Blocks = 0 .. g - 1 /\ work[N] <= g * P
      BY <1>2, GridIs
    <3>3. P \in Nat \ {0} /\ work[N] \in Nat
      <4>1. N \in Nat /\ work[N] \in Nat
        BY <1>2, SumIs
      <4> QED BY <4>1, SizesAre
    <3>4. PICK b \in Nat, r \in 0 .. P - 1 : x = b * P + r
      <4>1. /\ x \div P \in Nat /\ x % P \in 0 .. P - 1
            /\ x = (x \div P) * P + (x % P)
        BY <3>3, Quotient
      <4> QED BY <4>1
    <3>5. b < g
      <4>1. CASE b > g
        <5>1. g * P \in Int /\ b * P \in Int /\ g * P + P <= b * P
          BY <3>2, <3>3, <4>1, Multiples
        <5> QED BY <3>1, <3>2, <3>3, <3>4, <5>1
      <4>2. CASE b = g
        <5>1. g * P \in Int
          BY <3>2, <3>3
        <5> QED BY <3>1, <3>2, <3>3, <3>4, <4>2, <5>1
      <4> QED BY <3>2, <3>4, <4>1, <4>2
    <3>6. b * P <= x /\ x < b * P + P /\ b \in Blocks
      <4>1. b * P \in Int
        BY <3>3
      <4> QED BY <3>2, <3>3, <3>4, <3>5, <4>1
    <3> QED BY <3>1, <3>6 DEF EdgesOf
  <2> QED BY <2>1 DEF EdgesOf
<1>5. N' = N /\ AllEdges' = AllEdges
  BY <1>1 DEF N, AllEdges, Positions, Degree
<1>6. calls' = SetToBag(Given')
  BY <1>1, <1>3, <1>4, <1>5 DEF Given
<1>7. Ended'
  BY <1>1 DEF Ended
<1> QED BY <1>1, <1>5, <1>6, <1>7
        DEF IInv, BeforeLaunch, GroupsLeft, SumFirst, BlocksRun

LEMMA ComputeWorkKeeps ==
    ASSUME IInv, ComputeWork
    PROVE  IInv'
<1>1. /\ pc = "call" /\ pc' = "sum" /\ UNCHANGED <<degrees, block, groups, calls>>
      /\ work' = [i \in DOMAIN work |-> IF i \in Positions THEN Degree(i) ELSE work[i]]
  BY DEF ComputeWork
<1>2. /\ degrees \in Inputs /\ DOMAIN work = 0 .. N /\ block = <<>>
      /\ calls = SetToBag(Given)
  BY <1>1 DEF IInv, BeforeLaunch
<1>3. N \in Nat /\ Positions = 0 .. N - 1
  BY <1>2, DegreesAre DEF Positions, N
<1>4. N' = N /\ Positions' = Positions /\ \A i : Degree(i)' = Degree(i)
  BY <1>1 DEF N, Positions, Degree
<1>5. DOMAIN work' = 0 .. N
  BY <1>1, <1>2
<1>6. SumFirst'
  <2>1. \A i \in Positions : work'[i] = Degree(i)
    BY <1>1, <1>2, <1>3
  <2> QED BY <1>4, <2>1 DEF SumFirst
<1>7. Given = {} /\ Given' = {}
  BY <1>1 DEF Given
<1> QED BY <1>1, <1>2, <1>4, <1>5, <1>6, <1>7
        DEF IInv, BeforeLaunch, GroupsLeft, BlocksRun, Ended

LEMMA PrefixSumKeeps ==
    ASSUME IInv, PrefixSum
    PROVE  IInv'
<1> DEFINE grid == CeilDiv(Summed[N], P)
<1>1. /\ pc = "sum" /\ work' = Summed /\ pc' = IF grid = 0 THEN "done" ELSE "blocks"
      /\ block' = [b \in 0 .. grid - 1 |-> NewBlock(b = grid - 1)]
      /\ UNCHANGED <<degrees, groups, calls>>
  BY DEF PrefixSum, N, P
<1>2. degrees \in Inputs /\ calls = SetToBag({}) /\ IsSum(Summed)
  <2>1. degrees \in Inputs /\ \A i \in Positions : work[i] = Degree(i)
    BY <1>1 DEF IInv, SumFirst
  <2>2. Given = {}
    BY <1>1 DEF Given
  <2> QED BY <2>1, <2>2, SummedIs DEF IInv
<1>3. /\ N \in Nat \ {0} /\ Positions = 0 .. N - 1 /\ P \in Nat \ {0}
      /\ \A i \in 0 .. N - 1 : Degree(i) \in Nat
  BY <1>2, DegreesAre, SizesAre DEF Positions, N
<1>4. N' = N /\ Positions' = Positions /\ AllEdges' = AllEdges /\ \A i : Degree(i)' = Degree(i)
  BY <1>1 DEF N, Positions, Degree, AllEdges
<1>5. IsSum(work)' /\ DOMAIN work' = 0 .. N
  BY <1>1, <1>2, <1>4 DEF IsSum
<1>6. PICK total \in Nat : total = Summed[N]
  BY <1>2, <1>3 DEF IsSum
<1>7. PICK g \in Nat : g = grid /\ total <= g * P /\ Blocks' = 0 .. g - 1
  <2>1. grid \in Nat /\ total <= grid * P
    BY <1>3, <1>6, CeilDivIs
  <2>2. Blocks' = 0 .. grid - 1
    BY <1>1, <1>4 DEF Blocks
  <2> QED BY <2>1, <2>2
<1> HIDE DEF grid
<1>8. CASE g = 0
  <2>1. AllEdges = {}
    <3> SUFFICES ASSUME NEW e \in AllEdges PROVE FALSE
      OBVIOUS
    <3>1. PICK p \in 0 .. N - 1 : Degree(p) > 0
      <4>1. e[1] \in 0 .. N - 1 /\ e[2] \in 0 .. Degree(e[1]) - 1
        BY <1>3, EdgesAre
      <4> QED BY <1>3, <4>1
    <3>2. /\ Summed[p] \in Nat /\ Summed[p + 1] = Summed[p] + Degree(p)
          /\ Summed[p + 1] <= Summed[N]
      <4>1. p \in 0 .. N /\ p + 1 \in 0 .. (N + 1) - 1 /\ N \in 0 .. (N + 1) - 1 /\ p + 1 <= N
        BY <1>3
      <4>2. Sorted(Summed, N + 1)
        BY <1>2, SumGrows
      <4> QED BY <1>2, <1>3, <4>1, <4>2 DEF IsSum, Sorted
    <3>3. total = 0
      BY <1>3, <1>6, <1>7, <1>8
    <3> QED BY <1>3, <1>6, <3>1, <3>2, <3>3
  <2>2. pc' = "done" /\ DOMAIN block' = {}
    BY <1>1, <1>7, <1>8
  <2>3. calls' = SetToBag(Given')
    BY <1>1, <1>2, <1>4, <2>1, <2>2 DEF Given
  <2> QED BY <1>1, <1>2, <1>4, <1>5, <2>2, <2>3
          DEF IInv, BeforeLaunch, GroupsLeft, SumFirst, BlocksRun, Ended
<1>9. CASE g # 0
  <2>1. pc' = "blocks" /\ DOMAIN block' = Blocks'
    BY <1>1, <1>7, <1>9
  <2>2. ASSUME NEW b \in Blocks' PROVE BlockOK(b, block[b])' /\ block'[b].at = "bounds"
    <3> DEFINE r == NewBlock(b = g - 1)
    <3>1. block'[b] = r /\ b \in Nat /\ b <= g - 1
      BY <1>1, <1>7
    <3>2. r.at = "bounds" /\ r.low = 0 /\ r \in BlockRecord
      <4>1. Unset \in Int /\ -1 \in Int
        BY DEF Unset
      <4>2. [c \in 0 .. ITEMS_PER_BLOCK - 1 |-> Unset] \in [0 .. P - 1 -> Int]
        BY <4>1 DEF P
      <4>3. <<IF b = g - 1 THEN -1 ELSE Unset, Unset>> \in Int \X Int
        BY <4>1
      <4>4. r.reg = [t \in Threads |-> [i \in Items |-> <<IF b = g - 1 THEN -1 ELSE Unset, Unset>>]]
        BY DEF NewBlock
      <4>5. r.reg \in [Threads -> [Items -> Int \X Int]]
        BY <4>3, <4>4
      <4>6. r.smem = [c \in 0 .. ITEMS_PER_BLOCK - 1 |-> Unset]
        BY DEF NewBlock
      <4>7. PICK cells \in [0 .. P - 1 -> Int], regs \in [Threads -> [Items -> Int \X Int]] :
                cells = r.smem /\ regs = r.reg
        <5> HIDE DEF r
        <5> QED BY <4>2, <4>5, <4>6
      <4>8. r = [at |-> "bounds", smem |-> cells, start |-> 0, chunk |-> 0, low |-> 0, reg |-> regs]
        BY <4>7 DEF NewBlock
      <4>9. [at |-> "bounds", smem |-> cells, start |-> 0, chunk |-> 0, low |-> 0, reg |-> regs]
                \in BlockRecord
        BY DEF BlockRecord
      <4> HIDE DEF r
      <4> QED BY <4>8, <4>9
    <3>3. ASSUME NEW t \in Threads, NEW i \in Items
          PROVE  ~(Searched(b, t) + i < 0) /\ r.reg[t][i] = Fresh(b)'
      <4>1. Searched(b, t) + i \in Int /\ b * P \in Nat /\ b * P <= Searched(b, t) + i
        BY <3>1, ItemsAre
      <4>2. b + 1 \in Blocks' <=> ~(b = g - 1)
        BY <1>7, <3>1
      <4>3. r.reg[t][i] = <<IF b = g - 1 THEN -1 ELSE Unset, Unset>>
        BY DEF NewBlock
      <4> QED BY <4>1, <4>2, <4>3 DEF Fresh
    <3>4. ItemsSet(b, block[b])'
      <4>1. \A t \in Threads, i \in Items : Searched(b, t)' = Searched(b, t)
        BY DEF Searched
      <4> HIDE DEF r
      <4> QED BY <3>1, <3>2, <3>3, <4>1 DEF ItemsSet
    <3>5. (block[b] \in BlockRecord)'
      <4> HIDE DEF r
      <4> QED BY <3>1, <3>2 DEF BlockRecord
    <3> HIDE DEF r
    <3> QED BY <3>1, <3>2, <3>4, <3>5 DEF BlockOK
  <2>3. Given' = {}
    <3>1. \A b \in Blocks' : block'[b].at # "done"
      BY <2>2
    <3> QED BY <2>1, <3>1 DEF Given
  <2>4. BlocksRun'
    BY <1>5, <2>1, <2>2 DEF BlocksRun
  <2> QED BY <1>1, <1>2, <1>4, <1>5, <2>1, <2>3, <2>4
          DEF IInv, BeforeLaunch, GroupsLeft, SumFirst, Ended
<1> QED BY <1>8, <1>9

LEMMA LaunchGroupsKeeps ==
    ASSUME IInv, LaunchGroups
    PROVE  IInv'
<1>1. /\ pc = "call" /\ pc' = "groups" /\ groups' = 0 .. GroupThreads - 1
      /\ UNCHANGED <<degrees, work, block, calls>>
  BY DEF LaunchGroups
<1>2. calls = SetToBag({}) /\ block = <<>>
  <2>1. Given = {}
    BY <1>1 DEF Given
  <2> QED BY <1>1, <2>1 DEF IInv, BeforeLaunch
<1>3. N' = N /\ GroupThreads' = GroupThreads
  BY <1>1 DEF N, GroupThreads
<1>4. Given' = {}
  BY <1>1, <1>3 DEF Given
<1> QED BY <1>1, <1>2, <1>3, <1>4
        DEF IInv, BeforeLaunch, GroupsLeft, SumFirst, BlocksRun, Ended

LEMMA RunThreadKeeps ==
    ASSUME IInv, NEW id \in groups, RunThread(id)
    PROVE  IInv'
<1>1. /\ pc = "groups" /\ groups' = groups \ {id} /\ calls' = calls (+) SetToBag(Strided(id))
      /\ UNCHANGED <<degrees, pc, work, block>>
  BY DEF RunThread
<1>2. /\ degrees \in Inputs /\ groups \subseteq 0 .. GroupThreads - 1
      /\ calls = SetToBag(Given)
  BY <1>1 DEF IInv, GroupsLeft
<1> DEFINE Over == (0 .. GroupThreads - 1) \ groups
<1>3. N' = N /\ GroupThreads' = GroupThreads /\ \A jd : Strided(jd)' = Strided(jd)
  BY <1>1 DEF N, GroupThreads, Strided, AllEdges, Positions, Degree
<1>4. Given = UNION {Strided(jd) : jd \in Over}
  BY <1>1 DEF Given
<1>5. Given' = UNION {Strided(jd) : jd \in Over \cup {id}}
  <2>1. (0 .. GroupThreads - 1) \ groups' = Over \cup {id}
    BY <1>1, <1>2
  <2>2. Given' = UNION {Strided(jd) : jd \in (0 .. GroupThreads - 1) \ groups'}
    BY <1>1, <1>3 DEF Given
  <2> QED BY <2>1, <2>2
<1>6. Given' = Given \cup Strided(id)
  BY <1>4, <1>5
<1>7. Given \cap Strided(id) = {}
  <2>1. \A jd \in Over : jd # id /\ jd \in 0 .. GroupThreads - 1
    OBVIOUS
  <2>2. \A jd \in Over : Strided(jd) \cap Strided(id) = {}
    BY <1>2, <2>1, StridesPart
  <2> QED BY <1>4, <2>2
<1>8. calls' = SetToBag(Given')
  BY <1>1, <1>2, <1>6, <1>7, SetsAdd
<1> QED BY <1>1, <1>2, <1>3, <1>8
        DEF IInv, BeforeLaunch, GroupsLeft, SumFirst, BlocksRun, Ended

LEMMA GroupsDoneKeeps ==
    ASSUME IInv, GroupsDone
    PROVE  IInv'
<1>1. /\ pc = "groups" /\ groups = {} /\ pc' = "done"
      /\ UNCHANGED <<degrees, work, block, groups, calls>>
  BY DEF GroupsDone
<1>2. degrees \in Inputs /\ calls = SetToBag(Given) /\ block = <<>>
  BY <1>1 DEF IInv, BeforeLaunch
<1>3. Given = AllEdges
  <2>1. (0 .. GroupThreads - 1) \ groups = 0 .. GroupThreads - 1
    BY <1>1
  <2> QED BY <1>1, <1>2, <2>1, StridesPart DEF Given
<1>4. N' = N /\ AllEdges' = AllEdges
  BY <1>1 DEF N, AllEdges, Positions, Degree
<1>5. calls' = SetToBag(Given')
  BY <1>1, <1>2, <1>3, <1>4 DEF Given
<1>6. Ended'
  <2>1. DOMAIN block' = {}
    BY <1>1, <1>2
  <2> QED BY <2>1 DEF Ended
<1> QED BY <1>1, <1>4, <1>5, <1>6
        DEF IInv, BeforeLaunch, GroupsLeft, SumFirst, BlocksRun

LEMMA NextKeeps == IInv /\ [Next]_vars => IInv'
<1> SUFFICES ASSUME IInv, [Next]_vars PROVE IInv'
  OBVIOUS
<1>1. CASE LaunchGroups
  BY <1>1, LaunchGroupsKeeps
<1>2. CASE ComputeWork
  BY <1>2, ComputeWorkKeeps
<1>3. CASE PrefixSum
  BY <1>3, PrefixSumKeeps
<1>4. ASSUME NEW b \in DOMAIN block, RunBlock(b) PROVE IInv'
  <2>1. CASE FindBounds(b)
    BY <2>1, FindBoundsKeeps
  <2>2. CASE LoadChunk(b)
    BY <2>2, LoadChunkKeeps
  <2>3. CASE SearchChunk(b)
    BY <2>3, SearchChunkKeeps
  <2>4. CASE CallItems(b)
    BY <2>4, CallItemsKeeps
  <2> QED BY <1>4, <2>1, <2>2, <2>3, <2>4 DEF RunBlock
<1>5. CASE BlocksDone
  BY <1>5, BlocksDoneKeeps
<1>6. ASSUME NEW id \in groups, RunThread(id) PROVE IInv'
  BY <1>6, RunThreadKeeps
<1>7. CASE GroupsDone
  BY <1>7, GroupsDoneKeeps
<1>8. CASE UNCHANGED vars
  <2>1. UNCHANGED <<degrees, pc, work, block, groups, calls>>
    BY <1>8 DEF vars
  <2>2. /\ N' = N /\ Positions' = Positions /\ Blocks' = Blocks /\ AllEdges' = AllEdges
        /\ GroupThreads' = GroupThreads /\ \A i : Degree(i)' = Degree(i)
    BY <2>1 DEF N, Positions, Blocks, AllEdges, GroupThreads, Degree
  <2>3. BlocksRun'
    <3>1. ASSUME pc = "blocks", NEW b \in Blocks PROVE BlockOK(b, block[b])'
      <4>1. BlockOK(b, block'[b])
        BY <2>1, <3>1 DEF IInv, BlocksRun
      <4> QED BY <2>1, <4>1, BlockFrame
    <3>2. IsSum(work) => IsSum(work)'
      BY <2>1, <2>2 DEF IsSum
    <3> QED BY <2>1, <2>2, <3>1, <3>2 DEF IInv, BlocksRun
  <2>4. Given' = Given
    <3>1. \A id : Strided(id)' = Strided(id)
      BY <2>2 DEF Strided
    <3>2. \A b : EdgesOf(b)' = EdgesOf(b)
      BY <2>1, <2>2 DEF EdgesOf, Number
    <3> QED BY <2>1, <2>2, <3>1, <3>2 DEF Given
  <2>5. calls' = SetToBag(Given')
    BY <2>1, <2>4 DEF IInv
  <2> QED BY <2>1, <2>2, <2>3, <2>5
          DEF IInv, BeforeLaunch, GroupsLeft, SumFirst, Ended
<1> QED BY <1>1, <1>2, <1>3, <1>4, <1>5, <1>6, <1>7, <1>8 DEF Next, Run

LEMMA Invariance == Spec => []IInv
  BY InitKeeps, NextKeeps, PTL DEF Spec

-----------------------------------------------------------------------------
(* The theorems.                                                           *)

\* forAllEdges calls the operator for edges only, for none twice, and when its
\* kernel has ended it has called it for all: with both strategies, whatever
\* the sizes of a block and of a thread's share, and wherever positions
\* without edges, blocks and chunks end.
THEOREM EdgesOnce == Spec => []EachEdgeOnce
<1>1. ASSUME IInv PROVE EachEdgeOnce
  <2>1. calls = SetToBag(Given)
    BY <1>1 DEF IInv
  <2>2. BagToSet(calls) = Given /\ \A e \in Given : calls[e] = 1
    BY <2>1 DEF BagToSet, SetToBag
  <2>3. pc = "done" => Given = AllEdges
    BY DEF Given
  <2>4. Given \subseteq AllEdges
    <3>1. \A id : Strided(id) \subseteq AllEdges
      BY DEF Strided
    <3>2. \A b : EdgesOf(b) \subseteq AllEdges
      BY DEF EdgesOf
    <3> QED BY <3>1, <3>2 DEF Given
  <2> QED BY <2>2, <2>3, <2>4 DEF EachEdgeOnce
<1> QED BY <1>1, Invariance, PTL

\* A thread of a block that passes over positions without edges finds the
\* position of its item before the cells that an earlier chunk has left behind
\* (the asserts of threadPartitionAuxLoop).
THEOREM SearchesStayInChunk == Spec => []SearchStaysInChunk
<1>1. ASSUME IInv PROVE SearchStaysInChunk
  <2> SUFFICES ASSUME NEW b \in DOMAIN block, block[b].at = "search",
                      NEW t \in Threads, NEW i \in Items,
                      InChunk(b, Searched(b, t) + i)
               PROVE  \E q \in Before(b, t, i)[1] .. SmemSize(b) - 2 :
                          CanMove(b, Before(b, t, i)[1], q, Searched(b, t) + i)
    BY DEF SearchStaysInChunk
  <2>1. pc = "blocks"
    <3>1. pc \in {"call", "sum", "groups"} => DOMAIN block = {}
      BY <1>1 DEF IInv, BeforeLaunch
    <3>2. pc # "done"
      BY <1>1 DEF IInv, Ended
    <3> QED BY <1>1, <3>1, <3>2 DEF IInv
  <2>2. Searching(b)
    BY <1>1, <2>1, BlockNow DEF Searching
  <2> QED BY <2>2, ItemFound
<1> QED BY <1>1, Invariance, PTL

-----------------------------------------------------------------------------
(* TriangleCounting: how the positions of a list are divided.              *)

\* The shares of n items begin where the last ones end, and reach n.
LEMMA DivideIs ==
    ASSUME NEW n \in Nat, NEW T \in Nat \ {0}
    PROVE  /\ Divide(n, T, 0) = 0 /\ Divide(n, T, T) = n
           /\ \A t \in Nat : /\ Divide(n, T, t) \in Nat
                             /\ Divide(n, T, t) <= Divide(n, T, t + 1)
           /\ n > 0 => Divide(n, T, 1) > 0
<1>1. PICK q \in Nat, r \in 0 .. T - 1 : q = n \div T /\ r = n % T /\ n = T * q + r
  BY QuotientOf
<1>2. \A t \in Nat : Divide(n, T, t) = t * q + (IF t < r THEN t ELSE r)
  BY <1>1 DEF Divide, Lesser
<1>3. ASSUME NEW t \in Nat PROVE t * q \in Nat /\ (t + 1) * q = t * q + q
  OBVIOUS
<1>4. 0 * q = 0 /\ 1 * q = q
  BY <1>1
<1>5. Divide(n, T, 0) = 0 /\ Divide(n, T, T) = n
  BY <1>1, <1>2, <1>4
<1>6. ASSUME NEW t \in Nat
      PROVE  Divide(n, T, t) \in Nat /\ Divide(n, T, t) <= Divide(n, T, t + 1)
  <2>1. PICK a \in Nat : a = t * q /\ (t + 1) * q = a + q
    BY <1>3
  <2>2. /\ Divide(n, T, t) = a + (IF t < r THEN t ELSE r)
        /\ Divide(n, T, t + 1) = a + q + (IF t + 1 < r THEN t + 1 ELSE r)
    BY <1>2, <2>1
  <2> QED BY <1>1, <2>2
<1>7. n > 0 => Divide(n, T, 1) > 0
  <2>1. Divide(n, T, 1) = q + (IF 1 < r THEN 1 ELSE r)
    BY <1>2, <1>4
  <2>2. q = 0 => n = r
    BY <1>1
  <2> QED BY <1>1, <2>1, <2>2
<1> QED BY <1>5, <1>6, <1>7

\* The parts lie in the order of their threads.
LEMMA DivideGrows ==
    ASSUME NEW n \in Nat, NEW T \in Nat \ {0}, NEW s \in Nat, NEW t \in Nat, s <= t
    PROVE  Divide(n, T, s) <= Divide(n, T, t)
<1> DEFINE A == {k \in Nat : Divide(n, T, s) <= Divide(n, T, s + k)}
<1>1. 0 \in A
  <2>1. Divide(n, T, s) \in Nat /\ s + 0 = s
    BY DivideIs
  <2> QED BY <2>1
<1>2. ASSUME NEW k \in Nat, k \in A PROVE k + 1 \in A
  <2>1. PICK m \in Nat : m = s + k /\ m + 1 = s + (k + 1)
    OBVIOUS
  <2>2. /\ Divide(n, T, m) \in Nat /\ Divide(n, T, s) \in Nat /\ Divide(n, T, m + 1) \in Nat
        /\ Divide(n, T, m) <= Divide(n, T, m + 1)
    <3>1. m + 1 \in Nat
      OBVIOUS
    <3> QED BY <3>1, DivideIs
  <2>3. Divide(n, T, s) <= Divide(n, T, m)
    BY <1>2, <2>1
  <2>4. Divide(n, T, s) <= Divide(n, T, m + 1)
    BY <2>2, <2>3
  <2> QED BY <2>1, <2>4
<1>3. \A k \in Nat : k \in A
  <2> HIDE DEF A
  <2> QED BY <1>1, <1>2, SetInduction
<1>4. PICK k \in Nat : t = s + k
  <2>1. t - s \in Nat /\ t = s + (t - s)
    OBVIOUS
  <2> QED BY <2>1
<1> QED BY <1>3, <1>4

\* Item k, counted from 1, is in one share.
LEMMA OneShare ==
    ASSUME NEW n \in Nat, NEW T \in Nat \ {0}, NEW k \in 1 .. n
    PROVE  /\ \E t \in 0 .. T - 1 : Divide(n, T, t) < k /\ k <= Divide(n, T, t + 1)
           /\ \A s, t \in 0 .. T - 1 :
                 (/\ Divide(n, T, s) < k /\ k <= Divide(n, T, s + 1)
                  /\ Divide(n, T, t) < k /\ k <= Divide(n, T, t + 1)) => s = t
<1> DEFINE S == {t \in 1 .. T : k <= Divide(n, T, t)}
<1>1. PICK x \in S : \A y \in S : x <= y
  <2>1. T \in S
    BY DivideIs
  <2>2. S \in SUBSET Nat /\ S # {}
    BY <2>1
  <2> HIDE DEF S
  <2> QED BY <2>2, LeastElement
<1>2. PICK t \in 0 .. T - 1 : t + 1 = x
  <2>1. x - 1 \in 0 .. T - 1 /\ (x - 1) + 1 = x
    OBVIOUS
  <2> QED BY <2>1
<1>3. Divide(n, T, t) < k
  <2>1. CASE t = 0
    BY <2>1, DivideIs
  <2>2. CASE t # 0
    <3>1. t \in 1 .. T /\ ~(x <= t)
      BY <1>2, <2>2
    <3>2. ~(k <= Divide(n, T, t))
      BY <1>1, <3>1
    <3> QED BY <3>2, DivideIs
  <2> QED BY <2>1, <2>2
<1>4. \E s \in 0 .. T - 1 : Divide(n, T, s) < k /\ k <= Divide(n, T, s + 1)
  BY <1>2, <1>3
<1>5. ASSUME NEW a \in 0 .. T - 1, NEW b \in 0 .. T - 1, a < b,
             Divide(n, T, b) < k, k <= Divide(n, T, a + 1)
      PROVE  FALSE
  <2>1. a + 1 \in Nat /\ b \in Nat /\ a + 1 <= b
    BY <1>5
  <2>2. Divide(n, T, a + 1) <= Divide(n, T, b)
    BY <2>1, DivideGrows
  <2>3. Divide(n, T, a + 1) \in Nat /\ Divide(n, T, b) \in Nat
    BY <2>1, DivideIs
  <2> QED BY <1>5, <2>2, <2>3
<1>6. ASSUME NEW a \in 0 .. T - 1, NEW b \in 0 .. T - 1,
             Divide(n, T, a) < k, k <= Divide(n, T, a + 1),
             Divide(n, T, b) < k, k <= Divide(n, T, b + 1)
      PROVE  a = b
  <2>1. ~(a < b) /\ ~(b < a)
    BY <1>5, <1>6
  <2> QED BY <2>1
<1> QED BY <1>4, <1>6

\* A sorted list of vertices without duplicates.
Strict(l) == l \in Seq(Nat) /\ \A i \in 1 .. Len(l) - 1 : l[i] < l[i + 1]

\* Its cells, counted from 0.
LEMMA CellsGrow ==
    ASSUME NEW l, Strict(l)
    PROVE  /\ Len(l) \in Nat
           /\ \A i \in 0 .. Len(l) - 1 : Cell(l, i) \in Nat
           /\ \A i, j \in 0 .. Len(l) - 1 : i < j => Cell(l, i) < Cell(l, j)
<1>1. l \in Seq(Nat) /\ \A i \in 1 .. Len(l) - 1 : l[i] < l[i + 1]
  BY DEF Strict
<1>2. PICK n \in Nat : n = Len(l) /\ l \in [1 .. n -> Nat]
  BY <1>1
<1>3. ASSUME NEW i \in 0 .. n - 1 PROVE Cell(l, i) \in Nat
  <2>1. i + 1 \in 1 .. n
    BY <1>2
  <2> QED BY <1>2, <2>1 DEF Cell
<1> DEFINE A == {k \in Nat : \A i \in 0 .. n - 1 : i + (k + 1) \in 0 .. n - 1
                               => Cell(l, i) < Cell(l, i + (k + 1))}
<1>4. ASSUME NEW i \in 0 .. n - 1, i + 1 \in 0 .. n - 1 PROVE Cell(l, i) < Cell(l, i + 1)
  <2>1. i + 1 \in 1 .. n - 1
    BY <1>4
  <2> QED BY <1>1, <1>2, <2>1 DEF Cell
<1>5. 0 \in A
  BY <1>4
<1>6. ASSUME NEW k \in Nat, k \in A PROVE k + 1 \in A
  <2> SUFFICES ASSUME NEW i \in 0 .. n - 1, i + (k + 1 + 1) \in 0 .. n - 1
               PROVE  Cell(l, i) < Cell(l, i + (k + 1 + 1))
    OBVIOUS
  <2>1. PICK j \in 0 .. n - 1 : j = i + (k + 1) /\ j + 1 = i + (k + 1 + 1)
    <3>1. i + (k + 1) \in 0 .. n - 1
      OBVIOUS
    <3> QED BY <3>1
  <2>2. j + 1 \in 0 .. n - 1
    BY <2>1
  <2>3. Cell(l, i) < Cell(l, j) /\ Cell(l, j) < Cell(l, j + 1)
    BY <1>4, <1>6, <2>1, <2>2
  <2>4. Cell(l, i) \in Nat /\ Cell(l, j) \in Nat /\ Cell(l, j + 1) \in Nat
    BY <1>3, <2>2
  <2> QED BY <2>1, <2>3, <2>4
<1>7. \A k \in Nat : k \in A
  <2> HIDE DEF A
  <2> QED BY <1>5, <1>6, SetInduction
<1>8. ASSUME NEW i \in 0 .. n - 1, NEW j \in 0 .. n - 1, i < j PROVE Cell(l, i) < Cell(l, j)
  <2>1. PICK k \in Nat : k = j - i - 1 /\ j = i + (k + 1)
    <3>1. j - i - 1 \in Nat /\ j = i + (j - i - 1 + 1)
      BY <1>8
    <3> QED BY <3>1
  <2> QED BY <1>7, <2>1
<1> QED BY <1>2, <1>3, <1>8

-----------------------------------------------------------------------------
(* The search for an element.                                              *)

\* The binary search finds an element exactly if the list has it.
LEMMA FoundIs ==
    ASSUME NEW v, Strict(v), NEW x \in Nat
    PROVE  Found(v, x) <=> \E c \in 0 .. Len(v) - 1 : Cell(v, c) = x
<1>1. PICK n \in Nat : /\ n = Len(v)
                       /\ \A i \in 0 .. n - 1 : Cell(v, i) \in Nat
                       /\ \A i, j \in 0 .. n - 1 : i < j => Cell(v, i) < Cell(v, j)
  BY CellsGrow
<1> DEFINE R == (0 .. n) \X (-1 .. n - 1)
           Mid(r) == (r[1] + r[2]) \div 2
           Half(g, r) == IF r[1] > r[2] THEN FALSE
                         ELSE IF Cell(v, Mid(r)) = x THEN TRUE
                         ELSE IF Cell(v, Mid(r)) > x THEN g[<<r[1], Mid(r) - 1>>]
                         ELSE g[<<Mid(r) + 1, r[2]>>]
           rank == [r \in R |-> IF r[1] > r[2] THEN 0 ELSE r[2] - r[1] + 1]
           F == [g \in [R -> BOOLEAN] |-> [r \in R |-> Half(g, r)]]
           search == CHOOSE g : g = [r \in R |-> Half(g, r)]
<1>2. ASSUME NEW r \in R, r[1] <= r[2]
      PROVE  /\ Mid(r) \in r[1] .. r[2] /\ Mid(r) \in 0 .. n - 1
             /\ <<Mid(r) + 1, r[2]>> \in R /\ <<r[1], Mid(r) - 1>> \in R
             /\ rank[<<Mid(r) + 1, r[2]>>] < rank[r] /\ rank[<<r[1], Mid(r) - 1>>] < rank[r]
  <2>1. r[1] \in 0 .. n /\ r[2] \in -1 .. n - 1
    OBVIOUS
  <2>2. Mid(r) \in r[1] .. r[2]
    BY <1>2, <2>1
  <2>3. /\ Mid(r) \in 0 .. n - 1
        /\ <<Mid(r) + 1, r[2]>> \in R /\ <<r[1], Mid(r) - 1>> \in R
    <3> HIDE DEF Mid
    <3> QED BY <2>1, <2>2
  <2> HIDE DEF Mid
  <2> QED BY <1>2, <2>1, <2>2, <2>3
<1>3. rank \in [R -> Nat]
  OBVIOUS
<1> HIDE DEF Mid
<1>4. ASSUME NEW g \in [R -> BOOLEAN], NEW r \in R PROVE Half(g, r) \in BOOLEAN
  <2>1. CASE r[1] > r[2]
    BY <2>1
  <2>2. CASE ~(r[1] > r[2])
    <3>1. r[1] <= r[2]
      BY <2>2
    <3>2. <<Mid(r) + 1, r[2]>> \in R /\ <<r[1], Mid(r) - 1>> \in R
      BY <1>2, <3>1
    <3> HIDE DEF R
    <3>3. g[<<Mid(r) + 1, r[2]>>] \in BOOLEAN /\ g[<<r[1], Mid(r) - 1>>] \in BOOLEAN
      BY <3>2
    <3>4. CASE Cell(v, Mid(r)) = x
      BY <3>4
    <3>5. CASE Cell(v, Mid(r)) # x /\ Cell(v, Mid(r)) > x
      BY <2>2, <3>3, <3>5
    <3>6. CASE Cell(v, Mid(r)) # x /\ ~(Cell(v, Mid(r)) > x)
      BY <2>2, <3>3, <3>6
    <3> QED BY <3>4, <3>5, <3>6
  <2> QED BY <2>1, <2>2
<1>5. F \in [[R -> BOOLEAN] -> [R -> BOOLEAN]]
  <2> HIDE DEF Half
  <2> QED BY <1>4
<1>6. ASSUME NEW g \in [R -> BOOLEAN], NEW h \in [R -> BOOLEAN], NEW r \in R,
             \A y \in R : rank[y] < rank[r] => g[y] = h[y]
      PROVE  F[g][r] = F[h][r]
  <2>1. Half(g, r) = Half(h, r)
    <3> HIDE DEF rank
    <3>1. CASE r[1] <= r[2]
      <4>1. g[<<Mid(r) + 1, r[2]>>] = h[<<Mid(r) + 1, r[2]>>]
        BY <1>2, <1>6, <3>1
      <4>2. g[<<r[1], Mid(r) - 1>>] = h[<<r[1], Mid(r) - 1>>]
        BY <1>2, <1>6, <3>1
      <4> QED BY <4>1, <4>2
    <3>2. CASE ~(r[1] <= r[2])
      <4>1. r[1] > r[2]
        <5>1. r[1] \in Int /\ r[2] \in Int
          OBVIOUS
        <5> QED BY <3>2, <5>1
      <4> QED BY <4>1
    <3> QED BY <3>1, <3>2
  <2> HIDE DEF Half
  <2> QED BY <2>1
<1>7. \E g : g = [r \in R |-> Half(g, r)]
  <2>1. IsRecursion(R, BOOLEAN, rank, F)
    <3> HIDE DEF R, rank, F
    <3> QED BY <1>3, <1>5, <1>6 DEF IsRecursion
  <2>2. \E g : g \in [R -> BOOLEAN] /\ g = F[g]
    <3> HIDE DEF R, rank, F
    <3> QED BY <2>1, FixedPoint
  <2> HIDE DEF Half
  <2> QED BY <2>2
<1>8. search = [r \in R |-> Half(search, r)]
  <2> HIDE DEF Half
  <2> QED BY <1>7
<1>9. Found(v, x) = search[<<0, n - 1>>]
  BY <1>1 DEF Found, Mid
<1> HIDE DEF search
<1>10. \A r \in R : search[r] = Half(search, r)
  <2> HIDE DEF Half
  <2> QED BY <1>8
<1> DEFINE Inside(r) == \E c \in r[1] .. r[2] : Cell(v, c) = x
           A == {k \in Nat : \A r \in R : rank[r] <= k => (search[r] <=> Inside(r))}
<1>11. ASSUME NEW r \in R, r[1] <= r[2]
       PROVE  Inside(r) <=> IF Cell(v, Mid(r)) = x THEN TRUE
                            ELSE IF Cell(v, Mid(r)) > x THEN Inside(<<r[1], Mid(r) - 1>>)
                            ELSE Inside(<<Mid(r) + 1, r[2]>>)
  <2>1. PICK d \in 0 .. n - 1 : d = Mid(r) /\ d \in r[1] .. r[2]
    BY <1>2, <1>11
  <2>2. PICK a \in 0 .. n, b \in -1 .. n - 1 : a = r[1] /\ b = r[2]
    OBVIOUS
  <2>3. CASE Cell(v, d) = x
    BY <2>1, <2>3
  <2>4. CASE Cell(v, d) > x
    <3>1. ASSUME NEW c \in a .. b, Cell(v, c) = x PROVE c \in a .. d - 1
      <4>1. /\ c \in 0 .. n - 1 /\ d \in 0 .. n - 1
            /\ Cell(v, c) \in Nat /\ Cell(v, d) \in Nat
        <5>1. c \in 0 .. n - 1
          BY <2>2, <3>1
        <5> QED BY <1>1, <5>1
      <4>2. c # d
        BY <2>4, <3>1, <4>1
      <4>3. ~(d < c)
        <5>1. d < c => Cell(v, d) < Cell(v, c)
          BY <1>1, <4>1
        <5> QED BY <2>4, <3>1, <4>1, <5>1
      <4> QED BY <2>1, <3>1, <4>1, <4>2, <4>3
    <3> QED BY <1>1, <2>1, <2>2, <2>4, <3>1
  <2>5. CASE Cell(v, d) < x
    <3>1. ASSUME NEW c \in a .. b, Cell(v, c) = x PROVE c \in d + 1 .. b
      <4>1. /\ c \in 0 .. n - 1 /\ d \in 0 .. n - 1
            /\ Cell(v, c) \in Nat /\ Cell(v, d) \in Nat
        <5>1. c \in 0 .. n - 1
          BY <2>2, <3>1
        <5> QED BY <1>1, <5>1
      <4>2. c # d
        BY <2>5, <3>1, <4>1
      <4>3. ~(c < d)
        <5>1. c < d => Cell(v, c) < Cell(v, d)
          BY <1>1, <4>1
        <5> QED BY <2>5, <3>1, <4>1, <5>1
      <4> QED BY <2>1, <3>1, <4>1, <4>2, <4>3
    <3>2. Inside(r) <=> Inside(<<d + 1, b>>)
      <4>1. d + 1 .. b \subseteq a .. b
        BY <2>1, <2>2
      <4> QED BY <2>1, <2>2, <3>1, <4>1
    <3>3. Cell(v, d) # x /\ ~(Cell(v, d) > x)
      BY <1>1, <2>5
    <3> HIDE DEF Inside
    <3> QED BY <2>1, <2>2, <3>2, <3>3
  <2>6. Cell(v, d) \in Nat
    BY <1>1
  <2> QED BY <2>3, <2>4, <2>5, <2>6
<1>12. ASSUME NEW r \in R, r[1] > r[2] PROVE search[r] <=> Inside(r)
  <2>1. ~search[r]
    BY <1>10, <1>12
  <2>2. \A c \in r[1] .. r[2] : FALSE
    BY <1>12
  <2> QED BY <2>1, <2>2
<1>13. 0 \in A
  <2> SUFFICES ASSUME NEW r \in R, rank[r] <= 0 PROVE search[r] <=> Inside(r)
    OBVIOUS
  <2>1. r[1] > r[2]
    OBVIOUS
  <2> HIDE DEF Inside, rank
  <2> QED BY <1>12, <2>1
<1>14. ASSUME NEW k \in Nat, k \in A PROVE k + 1 \in A
  <2> SUFFICES ASSUME NEW r \in R, rank[r] <= k + 1 PROVE search[r] <=> Inside(r)
    OBVIOUS
  <2>1. CASE r[1] > r[2]
    <3> HIDE DEF Inside, rank
    <3> QED BY <1>12, <2>1
  <2>2. CASE ~(r[1] > r[2])
    <3>0. r[1] <= r[2] /\ rank[r] \in Nat
      BY <1>3, <2>2
    <3>1. PICK p \in R, q \in R : /\ p = <<Mid(r) + 1, r[2]>> /\ q = <<r[1], Mid(r) - 1>>
                                  /\ rank[p] < rank[r] /\ rank[q] < rank[r]
      <4> HIDE DEF rank, Inside, A
      <4> QED BY <1>2, <3>0
    <3> HIDE DEF Inside
    <3>2. (search[p] <=> Inside(p)) /\ (search[q] <=> Inside(q))
      <4>1. rank[p] <= k /\ rank[q] <= k
        <5>1. rank[p] \in Nat /\ rank[q] \in Nat
          BY <1>3
        <5> HIDE DEF rank
        <5> QED BY <3>0, <3>1, <5>1
      <4> HIDE DEF rank
      <4> QED BY <1>14, <4>1
    <3>3. search[r] = Half(search, r)
      <4> HIDE DEF Half
      <4> QED BY <1>10
    <3>4. Inside(r) <=> IF Cell(v, Mid(r)) = x THEN TRUE
                        ELSE IF Cell(v, Mid(r)) > x THEN Inside(q)
                        ELSE Inside(p)
      BY <1>11, <3>0, <3>1
    <3> HIDE DEF rank, A
    <3> QED BY <2>2, <3>1, <3>2, <3>3, <3>4
  <2> QED BY <2>1, <2>2
<1>15. \A k \in Nat : k \in A
  <2> HIDE DEF A
  <2> QED BY <1>13, <1>14, SetInduction
<1>16. <<0, n - 1>> \in R
  OBVIOUS
<1>17. search[<<0, n - 1>>] <=> Inside(<<0, n - 1>>)
  <2>1. PICK r \in R : r = <<0, n - 1>>
    BY <1>16
  <2>2. rank[r] \in Nat
    BY <1>3
  <2> HIDE DEF rank, Inside
  <2>3. rank[r] \in A /\ rank[r] <= rank[r]
    BY <1>15, <2>2
  <2> QED BY <2>1, <2>3
<1> QED BY <1>1, <1>9, <1>17

-----------------------------------------------------------------------------
(* The merge of two lists counts their common elements.                    *)

\* A renaming of the elements keeps their number.
LEMMA SameSize ==
    ASSUME NEW S, IsFiniteSet(S), NEW b, \A x, y \in S : b[x] = b[y] => x = y
    PROVE  /\ IsFiniteSet({b[x] : x \in S})
           /\ Cardinality({b[x] : x \in S}) = Cardinality(S)
<1> DEFINE Image(T) == {b[x] : x \in T}
           A == {T \in SUBSET S : IsFiniteSet(Image(T)) /\ Cardinality(Image(T)) = Cardinality(T)}
<1>1. {} \in A
  <2>1. Image({}) = {}
    OBVIOUS
  <2> HIDE DEF Image
  <2> QED BY <2>1, FS_EmptySet
<1>2. ASSUME NEW T \in SUBSET S, NEW x \in S \ T, T \in A PROVE T \cup {x} \in A
  <2>1. Image(T \cup {x}) = Image(T) \cup {b[x]} /\ b[x] \notin Image(T)
    OBVIOUS
  <2>2. IsFiniteSet(T) /\ x \notin T /\ IsFiniteSet(Image(T)) /\ Cardinality(Image(T)) = Cardinality(T)
    BY <1>2, FS_Subset
  <2> HIDE DEF Image
  <2>3. IsFiniteSet(Image(T \cup {x}))
    <3>1. IsFiniteSet(Image(T) \cup {b[x]})
      BY <2>2, FS_AddElement
    <3> QED BY <2>1, <3>1
  <2>4. Cardinality(T \cup {x}) = Cardinality(T) + 1
    BY <2>2, FS_AddElement
  <2>5. Cardinality(Image(T) \cup {b[x]}) = Cardinality(Image(T)) + 1
    BY <2>1, <2>2, FS_AddElement
  <2> QED BY <2>1, <2>2, <2>3, <2>4, <2>5
<1>3. S \in A
  <2> HIDE DEF A
  <2> QED BY <1>1, <1>2, FiniteInduction
<1> QED BY <1>3

\* The items that lie in share t, when item x has the number k[x].
Lying(S, k, n, T, t) == {x \in S : Divide(n, T, t) < k[x] /\ k[x] <= Divide(n, T, t + 1)}

\* Items that are numbered within 1 .. n and divided evenly are counted once each.
LEMMA SharesCount ==
    ASSUME NEW n \in Nat, NEW T \in Nat \ {0}, NEW S, IsFiniteSet(S), NEW k,
           \A x \in S : k[x] \in 1 .. n, NEW count,
           \A t \in 0 .. T - 1 : count[t] = Cardinality(Lying(S, k, n, T, t))
    PROVE  SumFunctionOnSet(count, 0 .. T - 1) = Cardinality(S)
<1> DEFINE Lies(x, t) == Divide(n, T, t) < k[x] /\ k[x] <= Divide(n, T, t + 1)
           key == [x \in S |-> CHOOSE t \in 0 .. T - 1 : Lies(x, t)]
           Group(t) == {x \in S : key[x] = t}
           g == [t \in 0 .. T - 1 |-> Cardinality(Group(t))]
<1>1. ASSUME NEW x \in S
      PROVE  /\ \E t \in 0 .. T - 1 : Lies(x, t)
             /\ \A s, t \in 0 .. T - 1 : Lies(x, s) /\ Lies(x, t) => s = t
  <2>1. PICK i \in 1 .. n : i = k[x]
    OBVIOUS
  <2> QED BY <2>1, OneShare
<1> HIDE DEF Lies
<1>2. ASSUME NEW x \in S PROVE key[x] \in 0 .. T - 1 /\ Lies(x, key[x])
  BY <1>1
<1>3. ASSUME NEW t \in 0 .. T - 1 PROVE Group(t) = {x \in S : Lies(x, t)}
  BY <1>1, <1>2
<1> HIDE DEF key
<1>4. IsFiniteSet(0 .. T - 1)
  BY FS_Interval
<1>5. SumFunctionOnSet([t \in 0 .. T - 1 |-> Cardinality({x \in S : key[x] = t})], 0 .. T - 1)
        = Cardinality(S)
  <2>1. PICK K : K = 0 .. T - 1
    OBVIOUS
  <2>2. IsFiniteSet(K) /\ \A x \in S : key[x] \in K
    BY <1>2, <1>4, <2>1
  <2>3. SumFunctionOnSet([t \in K |-> Cardinality({x \in S : key[x] = t})], K)
          = Cardinality(S)
    BY ONLY IsFiniteSet(S), <2>2, CountGroups
  <2> QED BY <2>1, <2>3
<1>6. SumFunctionOnSet(count, 0 .. T - 1) = SumFunctionOnSet(g, 0 .. T - 1)
  <2>1. ASSUME NEW t \in 0 .. T - 1 PROVE count[t] \in Int /\ g[t] = count[t]
    <3>1. count[t] = Cardinality({x \in S : Lies(x, t)})
      BY DEF Lies, Lying
    <3>2. IsFiniteSet({x \in S : Lies(x, t)})
      BY FS_Subset
    <3>3. count[t] \in Nat
      BY <3>1, <3>2, FS_CardinalityType
    <3> HIDE DEF Group
    <3>4. g[t] = Cardinality(Group(t))
      OBVIOUS
    <3> HIDE DEF g
    <3>5. Cardinality(Group(t)) = count[t]
      BY <1>3, <3>1
    <3> QED BY <3>3, <3>4, <3>5
  <2> HIDE DEF g
  <2> QED BY <1>4, <2>1, SumSame
<1> QED BY <1>5, <1>6

\* However many threads share the search, they find each element once.
LEMMA ImbalancedIs ==
    ASSUME NEW u, Strict(u), NEW v, Strict(v), NEW T \in Nat \ {0}, NEW count,
           \A t \in 0 .. T - 1 : count[t] = ImbalancedCount(u, v, T, t)
    PROVE  SumFunctionOnSet(count, 0 .. T - 1)
             = Cardinality({i \in 0 .. Len(u) - 1 :
                               \E j \in 0 .. Len(v) - 1 : Cell(v, j) = Cell(u, i)})
<1>1. PICK n \in Nat : n = Len(u) /\ \A i \in 0 .. n - 1 : Cell(u, i) \in Nat
  BY CellsGrow
<1> DEFINE InBoth(i) == \E j \in 0 .. Len(v) - 1 : Cell(v, j) = Cell(u, i)
           S == {i \in 0 .. n - 1 : InBoth(i)}
           k == [i \in S |-> i + 1]
<1>2. \A i \in S : k[i] \in 1 .. n
  OBVIOUS
<1>3. IsFiniteSet(S)
  <2>1. IsFiniteSet(0 .. n - 1)
    BY FS_Interval
  <2> QED BY <2>1, FS_Subset
<1>4. ASSUME NEW t \in 0 .. T - 1
      PROVE  count[t] = Cardinality(Lying(S, k, n, T, t))
  <2>1. PICK a \in Nat, b \in Nat : /\ a = Divide(n, T, t) /\ b = Divide(n, T, t + 1)
                                    /\ b <= n
    <3>1. t \in Nat /\ t + 1 \in Nat /\ t + 1 <= T
      OBVIOUS
    <3>2. Divide(n, T, t + 1) <= n
      BY <3>1, DivideIs, DivideGrows
    <3>3. Divide(n, T, t) \in Nat /\ Divide(n, T, t + 1) \in Nat
      BY <3>1, DivideIs
    <3> QED BY <3>2, <3>3
  <2>2. {i \in a .. b - 1 : Found(v, Cell(u, i))} = {i \in S : a < k[i] /\ k[i] <= b}
    <3>1. ASSUME NEW i \in 0 .. n - 1 PROVE Found(v, Cell(u, i)) <=> InBoth(i)
      BY <1>1, FoundIs
    <3>2. ASSUME NEW i \in a .. b - 1 PROVE i \in 0 .. n - 1 /\ a < i + 1 /\ i + 1 <= b
      BY <2>1
    <3>3. ASSUME NEW i \in 0 .. n - 1, a < i + 1, i + 1 <= b PROVE i \in a .. b - 1
      BY <2>1, <3>3
    <3> HIDE DEF InBoth
    <3> QED BY <3>1, <3>2, <3>3
  <2>3. count[t] = Cardinality({i \in a .. b - 1 : Found(v, Cell(u, i))})
    BY <1>1, <2>1 DEF ImbalancedCount
  <2> QED BY <2>1, <2>2, <2>3 DEF Lying
<1>5. SumFunctionOnSet(count, 0 .. T - 1) = Cardinality(S)
  <2>1. PICK R, l : R = S /\ l = k
    OBVIOUS
  <2>2. /\ \A i \in R : l[i] \in 1 .. n
        /\ \A t \in 0 .. T - 1 :
              count[t] = Cardinality(Lying(R, l, n, T, t))
    <3> HIDE DEF S, k
    <3> QED BY <1>2, <1>4, <2>1
  <2>3. IsFiniteSet(R)
    BY <1>3, <2>1
  <2>4. SumFunctionOnSet(count, 0 .. T - 1) = Cardinality(R)
    BY ONLY <2>2, <2>3, n \in Nat, T \in Nat \ {0}, SharesCount
  <2> QED BY <2>1, <2>4
<1> QED BY <1>1, <1>5

\* The common elements of the positions i .. p of u and j .. q of v.
Matches(u, v, i, j, p, q) == {x \in (i .. p) \X (j .. q) : Cell(u, x[1]) = Cell(v, x[2])}

\* What is left when the merge passes a cell of u, of v, or of both.
LEMMA MatchesStep ==
    ASSUME NEW u, Strict(u), NEW v, Strict(v),
           NEW p \in 0 .. Len(u) - 1, NEW q \in 0 .. Len(v) - 1,
           NEW i \in 0 .. p, NEW j \in 0 .. q
    PROVE  /\ Cell(u, i) \in Nat /\ Cell(v, j) \in Nat
           /\ Cell(u, i) < Cell(v, j) =>
                 Matches(u, v, i, j, p, q) = Matches(u, v, i + 1, j, p, q)
           /\ Cell(u, i) > Cell(v, j) =>
                 Matches(u, v, i, j, p, q) = Matches(u, v, i, j + 1, p, q)
           /\ Cell(u, i) = Cell(v, j) =>
                 Matches(u, v, i, j, p, q) = {<<i, j>>} \cup Matches(u, v, i + 1, j + 1, p, q)
<1>1. /\ Len(u) \in Nat /\ Len(v) \in Nat
      /\ \A k \in 0 .. Len(u) - 1 : Cell(u, k) \in Nat
      /\ \A k \in 0 .. Len(v) - 1 : Cell(v, k) \in Nat
      /\ \A k, l \in 0 .. Len(u) - 1 : k < l => Cell(u, k) < Cell(u, l)
      /\ \A k, l \in 0 .. Len(v) - 1 : k < l => Cell(v, k) < Cell(v, l)
  BY CellsGrow
<1>2. ASSUME NEW k \in i .. p
      PROVE  k \in 0 .. Len(u) - 1 /\ Cell(u, k) \in Nat /\ Cell(u, i) \in Nat
             /\ (k # i => Cell(u, i) < Cell(u, k)) /\ (k # i => k \in i + 1 .. p)
  <2>1. k \in 0 .. Len(u) - 1 /\ i \in 0 .. Len(u) - 1 /\ (k # i => i < k)
    BY <1>1
  <2> QED BY <1>1, <2>1
<1>3. ASSUME NEW l \in j .. q
      PROVE  l \in 0 .. Len(v) - 1 /\ Cell(v, l) \in Nat /\ Cell(v, j) \in Nat
             /\ (l # j => Cell(v, j) < Cell(v, l)) /\ (l # j => l \in j + 1 .. q)
  <2>1. l \in 0 .. Len(v) - 1 /\ j \in 0 .. Len(v) - 1 /\ (l # j => j < l)
    BY <1>1
  <2> QED BY <1>1, <2>1
<1>4. i + 1 .. p \subseteq i .. p /\ j + 1 .. q \subseteq j .. q /\ i \in i .. p /\ j \in j .. q
  OBVIOUS
<1>5. Cell(u, i) \in Nat /\ Cell(v, j) \in Nat
  BY <1>2, <1>3, <1>4
<1>6. ASSUME Cell(u, i) < Cell(v, j)
      PROVE  Matches(u, v, i, j, p, q) = Matches(u, v, i + 1, j, p, q)
  <2>1. ASSUME NEW l \in j .. q PROVE Cell(u, i) # Cell(v, l)
    BY <1>3, <1>5, <1>6
  <2>2. ASSUME NEW k \in i .. p, NEW l \in j .. q, Cell(u, k) = Cell(v, l) PROVE k \in i + 1 .. p
    BY <1>2, <2>1, <2>2
  <2> QED BY <1>4, <2>2 DEF Matches
<1>7. ASSUME Cell(u, i) > Cell(v, j)
      PROVE  Matches(u, v, i, j, p, q) = Matches(u, v, i, j + 1, p, q)
  <2>1. ASSUME NEW k \in i .. p PROVE Cell(u, k) # Cell(v, j)
    BY <1>2, <1>5, <1>7
  <2>2. ASSUME NEW k \in i .. p, NEW l \in j .. q, Cell(u, k) = Cell(v, l) PROVE l \in j + 1 .. q
    BY <1>3, <2>1, <2>2
  <2> QED BY <1>4, <2>2 DEF Matches
<1>8. ASSUME Cell(u, i) = Cell(v, j)
      PROVE  Matches(u, v, i, j, p, q) = {<<i, j>>} \cup Matches(u, v, i + 1, j + 1, p, q)
  <2>1. ASSUME NEW k \in i .. p, NEW l \in j .. q, Cell(u, k) = Cell(v, l)
        PROVE  (k = i /\ l = j) \/ (k \in i + 1 .. p /\ l \in j + 1 .. q)
    BY <1>2, <1>3, <1>8, <2>1
  <2>2. Matches(u, v, i, j, p, q) \subseteq {<<i, j>>} \cup Matches(u, v, i + 1, j + 1, p, q)
    BY <2>1 DEF Matches
  <2>3. {<<i, j>>} \cup Matches(u, v, i + 1, j + 1, p, q) \subseteq Matches(u, v, i, j, p, q)
    BY <1>4, <1>8 DEF Matches
  <2> QED BY <2>2, <2>3
<1> QED BY <1>5, <1>6, <1>7, <1>8

\* They are finitely many, and none when a list has been passed.
LEMMA MatchesFinite ==
    ASSUME NEW u, NEW v, NEW i \in Int, NEW j \in Int, NEW p \in Int, NEW q \in Int
    PROVE  /\ IsFiniteSet(Matches(u, v, i, j, p, q))
           /\ i > p \/ j > q => Matches(u, v, i, j, p, q) = {}
<1>1. IsFiniteSet((i .. p) \X (j .. q))
  BY FS_Interval, FS_Product
<1>2. Matches(u, v, i, j, p, q) \subseteq (i .. p) \X (j .. q)
  BY DEF Matches
<1> QED BY <1>1, <1>2, FS_Subset DEF Matches

\* One step of the merge, at positions i and j: the common element it counts
\* and, unless a part ends, where it goes on.
MergeStep(u, v, p, q, g, i, j) ==
    LET geq  == Cell(u, i) >= Cell(v, j)
        leq  == Cell(u, i) <= Cell(v, j)
        endU == i = p
        endV == j = q
    IN  IF i > p \/ j > q THEN 0
        ELSE Bit(geq /\ leq)
             + IF (endU /\ leq) \/ (endV /\ geq) THEN 0
               ELSE g[<<i + Bit((leq /\ ~endU) \/ endV),
                        j + Bit((geq /\ ~endV) \/ endU)>>]

\* What it does, by the two elements.
StepIs(u, v, p, q, g, i, j) ==
    LET step == MergeStep(u, v, p, q, g, i, j)
    IN  /\ Cell(u, i) = Cell(v, j) => step = 1 + IF i = p \/ j = q THEN 0 ELSE g[<<i + 1, j + 1>>]
        /\ Cell(u, i) < Cell(v, j) => step = IF i = p THEN 0 ELSE g[<<i + 1, j>>]
        /\ Cell(u, i) > Cell(v, j) => step = IF j = q THEN 0 ELSE g[<<i, j + 1>>]

\* A step of the merge adds what it leaves behind.
LEMMA MergeStepIs ==
    ASSUME NEW u, NEW v, NEW p \in Nat, NEW q \in Nat, NEW i \in 0 .. p, NEW j \in 0 .. q, NEW g,
           Cell(u, i) \in Nat, Cell(v, j) \in Nat,
           g[<<i + 1, j>>] \in Nat, g[<<i, j + 1>>] \in Nat, g[<<i + 1, j + 1>>] \in Nat
    PROVE  StepIs(u, v, p, q, g, i, j)
<1>0. PICK a \in Nat, b \in Nat : a = Cell(u, i) /\ b = Cell(v, j)
  OBVIOUS
<1> SUFFICES /\ a = b => MergeStep(u, v, p, q, g, i, j)
                   = 1 + IF i = p \/ j = q THEN 0 ELSE g[<<i + 1, j + 1>>]
             /\ a < b => MergeStep(u, v, p, q, g, i, j) = IF i = p THEN 0 ELSE g[<<i + 1, j>>]
             /\ a > b => MergeStep(u, v, p, q, g, i, j) = IF j = q THEN 0 ELSE g[<<i, j + 1>>]
  BY <1>0 DEF StepIs
<1> DEFINE next(x, y) == IF (i = p /\ a <= b) \/ (j = q /\ a >= b) THEN 0
                         ELSE g[<<i + x, j + y>>]
<1>1. MergeStep(u, v, p, q, g, i, j)
        = Bit(a >= b /\ a <= b) + next(Bit((a <= b /\ ~(i = p)) \/ j = q),
                                       Bit((a >= b /\ ~(j = q)) \/ i = p))
  <2>1. ~(i > p \/ j > q)
    OBVIOUS
  <2> HIDE DEF next
  <2>2. MergeStep(u, v, p, q, g, i, j)
        = Bit(a >= b /\ a <= b)
          + IF (i = p /\ a <= b) \/ (j = q /\ a >= b) THEN 0
            ELSE g[<<i + Bit((a <= b /\ ~(i = p)) \/ j = q), j + Bit((a >= b /\ ~(j = q)) \/ i = p)>>]
    BY ONLY <1>0, <2>1, Zenon DEF MergeStep
  <2> QED BY <2>2, Zenon DEF next
<1>2. \A c \in BOOLEAN : Bit(c) = IF c THEN 1 ELSE 0
  BY DEF Bit
<1>3. i + 0 = i /\ j + 0 = j
  OBVIOUS
<1>4. CASE a = b
  <2>1. CASE i = p \/ j = q
    <3>1. next(Bit((a <= b /\ ~(i = p)) \/ j = q), Bit((a >= b /\ ~(j = q)) \/ i = p)) = 0
      BY <1>4, <2>1
    <3>2. Bit(a >= b /\ a <= b) = 1
      BY <1>4 DEF Bit
    <3> HIDE DEF next
    <3> QED BY <1>1, <1>4, <2>1, <3>1, <3>2
  <2>2. CASE i # p /\ j # q
    <3>1. Bit((a <= b /\ ~(i = p)) \/ j = q) = 1 /\ Bit((a >= b /\ ~(j = q)) \/ i = p) = 1
      BY <1>4, <2>2 DEF Bit
    <3>2. next(1, 1) = g[<<i + 1, j + 1>>]
      BY <2>2
    <3>3. Bit(a >= b /\ a <= b) = 1
      BY <1>4 DEF Bit
    <3> HIDE DEF next
    <3> QED BY <1>1, <1>4, <2>2, <3>1, <3>2, <3>3
  <2> QED BY <2>1, <2>2
<1>5. CASE a < b
  <2>1. Bit(a >= b /\ a <= b) = 0
    BY <1>5 DEF Bit
  <2>2. CASE i = p
    <3>1. next(Bit((a <= b /\ ~(i = p)) \/ j = q), Bit((a >= b /\ ~(j = q)) \/ i = p)) = 0
      BY <1>5, <2>2
    <3> HIDE DEF next
    <3> QED BY <1>1, <1>5, <2>1, <2>2, <3>1
  <2>3. CASE i # p
    <3>1. Bit((a <= b /\ ~(i = p)) \/ j = q) = 1 /\ Bit((a >= b /\ ~(j = q)) \/ i = p) = 0
      BY <1>5, <2>3 DEF Bit
    <3>2. next(1, 0) = g[<<i + 1, j>>]
      BY <1>3, <1>5, <2>3
    <3>3. g[<<i + 1, j>>] \in Nat
      BY <2>3
    <3> HIDE DEF next
    <3> QED BY <1>1, <1>5, <2>1, <2>3, <3>1, <3>2, <3>3
  <2> QED BY <2>2, <2>3
<1>6. CASE a > b
  <2>1. Bit(a >= b /\ a <= b) = 0
    BY <1>6 DEF Bit
  <2>2. CASE j = q
    <3>1. next(Bit((a <= b /\ ~(i = p)) \/ j = q), Bit((a >= b /\ ~(j = q)) \/ i = p)) = 0
      BY <1>6, <2>2
    <3> HIDE DEF next
    <3> QED BY <1>1, <1>6, <2>1, <2>2, <3>1
  <2>3. CASE j # q
    <3>1. Bit((a <= b /\ ~(i = p)) \/ j = q) = 0 /\ Bit((a >= b /\ ~(j = q)) \/ i = p) = 1
      BY <1>6, <2>3 DEF Bit
    <3>2. next(0, 1) = g[<<i, j + 1>>]
      BY <1>3, <1>6, <2>3
    <3>3. g[<<i, j + 1>>] \in Nat
      BY <2>3
    <3> HIDE DEF next
    <3> QED BY <1>1, <1>6, <2>1, <2>3, <3>1, <3>2, <3>3
  <2> QED BY <2>2, <2>3
<1> QED BY <1>4, <1>5, <1>6

\* A thread counts the common elements of its share.
LEMMA MergedIs ==
    ASSUME NEW u, Strict(u), NEW v, Strict(v), NEW share,
           share.first.u \in 0 .. Len(u), share.first.v \in 0 .. Len(v),
           share.last.u \in 0 .. Len(u) - 1, share.last.v \in 0 .. Len(v) - 1
    PROVE  Merged(u, v, share) = Cardinality(Matches(u, v, share.first.u, share.first.v,
                                                           share.last.u, share.last.v))
<1>1. PICK n \in Nat, m \in Nat : n = Len(u) /\ m = Len(v)
  BY CellsGrow
<1>2. PICK p \in Nat, q \in Nat : /\ p = share.last.u /\ q = share.last.v
                                  /\ p < n /\ q < m
  BY <1>1
<1> DEFINE D == (0 .. n) \X (0 .. m)
           Half(g, r) == MergeStep(u, v, p, q, g, r[1], r[2])
           merge == CHOOSE g : g = [r \in D |-> Half(g, r)]
           rank == [r \in D |-> (n - r[1]) + (m - r[2])]
           F == [g \in [D -> Nat] |-> [r \in D |-> Half(g, r)]]
           A(i) == Cell(u, i)
           B(j) == Cell(v, j)
<1>3. Merged(u, v, share) = merge[<<share.first.u, share.first.v>>]
  BY <1>1, <1>2 DEF Merged, MergeStep
<1>4. \A i \in 0 .. p : A(i) \in Nat
  BY <1>1, <1>2, CellsGrow
<1>5. \A j \in 0 .. q : B(j) \in Nat
  BY <1>1, <1>2, CellsGrow
<1> HIDE DEF A, B
<1>0. ASSUME NEW i \in 0 .. p, NEW j \in 0 .. q
      PROVE  <<i + 1, j>> \in D /\ <<i, j + 1>> \in D /\ <<i + 1, j + 1>> \in D
  <2>1. i \in 0 .. n /\ i + 1 \in 0 .. n /\ j \in 0 .. m /\ j + 1 \in 0 .. m
    <3>1. p < n /\ q < m
      BY <1>2
    <3> QED BY ONLY <3>1, i \in 0 .. p, j \in 0 .. q, p \in Nat, q \in Nat, n \in Nat, m \in Nat
  <2> QED BY <2>1
<1>61. ASSUME NEW g \in [D -> Nat], NEW i \in 0 .. p, NEW j \in 0 .. q
       PROVE  g[<<i + 1, j>>] \in Nat /\ g[<<i, j + 1>>] \in Nat /\ g[<<i + 1, j + 1>>] \in Nat
  <2> HIDE DEF D
  <2> QED BY <1>0
<1>6. ASSUME NEW g, NEW i \in 0 .. p, NEW j \in 0 .. q,
             g[<<i + 1, j>>] \in Nat, g[<<i, j + 1>>] \in Nat, g[<<i + 1, j + 1>>] \in Nat
      PROVE  /\ A(i) = B(j) => Half(g, <<i, j>>)
                                 = 1 + IF i = p \/ j = q THEN 0 ELSE g[<<i + 1, j + 1>>]
             /\ A(i) < B(j) => Half(g, <<i, j>>) = IF i = p THEN 0 ELSE g[<<i + 1, j>>]
             /\ A(i) > B(j) => Half(g, <<i, j>>) = IF j = q THEN 0 ELSE g[<<i, j + 1>>]
  <2>2. PICK a \in Nat, b \in Nat : a = A(i) /\ b = B(j)
    BY <1>4, <1>5
  <2>3. Half(g, <<i, j>>) = MergeStep(u, v, p, q, g, i, j)
    OBVIOUS
  <2> HIDE DEF Half
  <2>4. Cell(u, i) \in Nat /\ Cell(v, j) \in Nat
    BY <2>2 DEF A, B
  <2> DEFINE s == MergeStep(u, v, p, q, g, i, j)
  <2>5. /\ Cell(u, i) = Cell(v, j) => s = 1 + IF i = p \/ j = q THEN 0 ELSE g[<<i + 1, j + 1>>]
        /\ Cell(u, i) < Cell(v, j) => s = IF i = p THEN 0 ELSE g[<<i + 1, j>>]
        /\ Cell(u, i) > Cell(v, j) => s = IF j = q THEN 0 ELSE g[<<i, j + 1>>]
    <3>1. g[<<i + 1, j>>] \in Nat /\ g[<<i, j + 1>>] \in Nat /\ g[<<i + 1, j + 1>>] \in Nat
      BY <1>6
    <3> HIDE DEF s
    <3>2. s = MergeStep(u, v, p, q, g, i, j)
      BY DEF s
    <3>3. StepIs(u, v, p, q, g, i, j)
      BY ONLY <2>4, <3>1, p \in Nat, q \in Nat, i \in 0 .. p, j \in 0 .. q, MergeStepIs
    <3> QED BY ONLY <3>2, <3>3 DEF StepIs
  <2> HIDE DEF s
  <2>6. Half(g, <<i, j>>) = s
    BY <2>3 DEF s
  <2> QED BY ONLY <2>5, <2>6 DEF A, B
<1>7. ASSUME NEW g, NEW i \in 0 .. n, NEW j \in 0 .. m, i > p \/ j > q
      PROVE  Half(g, <<i, j>>) = 0
  BY <1>7 DEF MergeStep
<1>71. ASSUME NEW i \in 0 .. n, NEW j \in 0 .. m, ~(i > p \/ j > q)
       PROVE  i \in 0 .. p /\ j \in 0 .. q
  BY <1>71
<1>72. ASSUME NEW i \in 0 .. p, NEW j \in 0 .. q
       PROVE  A(i) = B(j) \/ A(i) < B(j) \/ A(i) > B(j)
  <2>1. A(i) \in Nat /\ B(j) \in Nat
    BY <1>4, <1>5
  <2> QED BY <2>1
<1> HIDE DEF Half
<1>8. ASSUME NEW g \in [D -> Nat], NEW r \in D
      PROVE  Half(g, r) \in Nat
  <2>1. PICK i \in 0 .. n, j \in 0 .. m : r = <<i, j>>
    OBVIOUS
  <2> HIDE DEF D
  <2>2. CASE i > p \/ j > q
    BY <1>7, <2>1, <2>2
  <2>3. CASE ~(i > p \/ j > q)
    <3>1. i \in 0 .. p /\ j \in 0 .. q
      BY <1>71, <2>3
    <3>2. g[<<i + 1, j>>] \in Nat /\ g[<<i, j + 1>>] \in Nat /\ g[<<i + 1, j + 1>>] \in Nat
      BY <1>61, <3>1
    <3>3. A(i) = B(j) => Half(g, <<i, j>>)
                                 = 1 + IF i = p \/ j = q THEN 0 ELSE g[<<i + 1, j + 1>>]
      BY <1>6, <3>1, <3>2
    <3>4. A(i) < B(j) => Half(g, <<i, j>>) = IF i = p THEN 0 ELSE g[<<i + 1, j>>]
      BY <1>6, <3>1, <3>2
    <3>5. A(i) > B(j) => Half(g, <<i, j>>) = IF j = q THEN 0 ELSE g[<<i, j + 1>>]
      BY <1>6, <3>1, <3>2
    <3>6. A(i) = B(j) \/ A(i) < B(j) \/ A(i) > B(j)
      BY <1>72, <3>1
    <3> QED BY ONLY <2>1, <3>2, <3>3, <3>4, <3>5, <3>6
  <2> QED BY <2>2, <2>3
<1>9. F \in [[D -> Nat] -> [D -> Nat]]
  <2> HIDE DEF D
  <2> QED BY <1>8
<1>10. rank \in [D -> Nat]
  OBVIOUS
<1>11. ASSUME NEW g \in [D -> Nat], NEW h \in [D -> Nat], NEW r \in D,
              \A y \in D : rank[y] < rank[r] => g[y] = h[y]
       PROVE  F[g][r] = F[h][r]
  <2>1. PICK i \in 0 .. n, j \in 0 .. m : r = <<i, j>>
    OBVIOUS
  <2>2. ASSUME i \in 0 .. p, j \in 0 .. q
        PROVE  /\ g[<<i + 1, j>>] = h[<<i + 1, j>>] /\ g[<<i, j + 1>>] = h[<<i, j + 1>>]
               /\ g[<<i + 1, j + 1>>] = h[<<i + 1, j + 1>>]
    <3>1. /\ rank[<<i + 1, j>>] = (n - (i + 1)) + (m - j) /\ rank[<<i, j + 1>>] = (n - i) + (m - (j + 1))
          /\ rank[<<i + 1, j + 1>>] = (n - (i + 1)) + (m - (j + 1))
          /\ rank[r] = (n - i) + (m - j)
      BY <1>0, <2>1, <2>2
    <3>2. /\ rank[<<i + 1, j>>] < rank[r] /\ rank[<<i, j + 1>>] < rank[r]
          /\ rank[<<i + 1, j + 1>>] < rank[r]
      <4> HIDE DEF rank
      <4> QED BY ONLY <3>1, n \in Nat, m \in Nat, i \in 0 .. n, j \in 0 .. m
    <3> HIDE DEF rank, D
    <3> QED BY <1>0, <1>11, <2>2, <3>2
  <2>3. Half(g, <<i, j>>) = Half(h, <<i, j>>)
    <3> HIDE DEF D
    <3>1. CASE i > p \/ j > q
      BY <1>7, <3>1
    <3>2. CASE ~(i > p \/ j > q)
      <4>1. i \in 0 .. p /\ j \in 0 .. q
        BY <1>71, <3>2
      <4>2. ASSUME NEW d \in [D -> Nat]
            PROVE  /\ A(i) = B(j) => Half(d, <<i, j>>)
                                 = 1 + IF i = p \/ j = q THEN 0 ELSE d[<<i + 1, j + 1>>]
                   /\ A(i) < B(j) => Half(d, <<i, j>>) = IF i = p THEN 0 ELSE d[<<i + 1, j>>]
                   /\ A(i) > B(j) => Half(d, <<i, j>>) = IF j = q THEN 0 ELSE d[<<i, j + 1>>]
        <5>1. d[<<i + 1, j>>] \in Nat /\ d[<<i, j + 1>>] \in Nat /\ d[<<i + 1, j + 1>>] \in Nat
          BY <1>61, <4>1
        <5> QED BY <1>6, <4>1, <5>1
      <4>3. A(i) = B(j) \/ A(i) < B(j) \/ A(i) > B(j)
        BY <1>72, <4>1
      <4>4. /\ g[<<i + 1, j>>] = h[<<i + 1, j>>] /\ g[<<i, j + 1>>] = h[<<i, j + 1>>]
            /\ g[<<i + 1, j + 1>>] = h[<<i + 1, j + 1>>]
        BY <2>2, <4>1
      <4>5. CASE A(i) = B(j)
        <5>1. /\ Half(g, <<i, j>>) = 1 + IF i = p \/ j = q THEN 0 ELSE g[<<i + 1, j + 1>>]
              /\ Half(h, <<i, j>>) = 1 + IF i = p \/ j = q THEN 0 ELSE h[<<i + 1, j + 1>>]
          BY <4>2, <4>5
        <5> QED BY ONLY <4>4, <5>1
      <4>6. CASE A(i) < B(j)
        <5>1. /\ Half(g, <<i, j>>) = IF i = p THEN 0 ELSE g[<<i + 1, j>>]
              /\ Half(h, <<i, j>>) = IF i = p THEN 0 ELSE h[<<i + 1, j>>]
          BY <4>2, <4>6
        <5> QED BY ONLY <4>4, <5>1
      <4>7. CASE A(i) > B(j)
        <5>1. /\ Half(g, <<i, j>>) = IF j = q THEN 0 ELSE g[<<i, j + 1>>]
              /\ Half(h, <<i, j>>) = IF j = q THEN 0 ELSE h[<<i, j + 1>>]
          BY <4>2, <4>7
        <5> QED BY ONLY <4>4, <5>1
      <4> QED BY <4>3, <4>5, <4>6, <4>7
    <3> QED BY <3>1, <3>2
  <2> QED BY <2>1, <2>3
<1>12. \E g : g \in [D -> Nat] /\ g = [r \in D |-> Half(g, r)]
  <2>1. IsRecursion(D, Nat, rank, F)
    <3> HIDE DEF D, rank, F
    <3> QED BY <1>9, <1>10, <1>11 DEF IsRecursion
  <2>2. \E g : g \in [D -> Nat] /\ g = F[g]
    <3> HIDE DEF D, rank, F
    <3> QED BY <2>1, FixedPoint
  <2> QED BY <2>2
<1>13. merge = [r \in D |-> Half(merge, r)]
  BY <1>12
<1> HIDE DEF merge
<1>14. \A r \in D : merge[r] = Half(merge, r)
  BY <1>13
<1> DEFINE Left(i, j) == Matches(u, v, i, j, p, q)
           Good == {k \in Nat : \A i \in 0 .. n, j \in 0 .. m : (n - i) + (m - j) <= k
                                   => merge[<<i, j>>] = Cardinality(Left(i, j))}
<1>15. \A i \in 0 .. n, j \in 0 .. m : IsFiniteSet(Left(i, j)) /\ Cardinality(Left(i, j)) \in Nat
                                 /\ (i > p \/ j > q => Cardinality(Left(i, j)) = 0)
  BY MatchesFinite, FS_CardinalityType, FS_EmptySet
<1>151. ASSUME NEW i \in 0 .. p, NEW j \in 0 .. q
        PROVE  i \in 0 .. n /\ j \in 0 .. m /\ i + 1 \in 0 .. n /\ j + 1 \in 0 .. m
  <2> HIDE DEF D, rank, F, Good
  <2> QED BY <1>2
<1>16. ASSUME NEW i \in 0 .. p, NEW j \in 0 .. q
       PROVE  /\ A(i) < B(j) => Left(i, j) = Left(i + 1, j)
              /\ A(i) > B(j) => Left(i, j) = Left(i, j + 1)
              /\ A(i) = B(j) => Cardinality(Left(i, j)) = 1 + Cardinality(Left(i + 1, j + 1))
              /\ Cardinality(Left(i + 1, j + 1)) \in Nat
  <2>0. p \in 0 .. Len(u) - 1 /\ q \in 0 .. Len(v) - 1
    BY <1>1, <1>2
  <2>1. /\ A(i) < B(j) => Left(i, j) = Left(i + 1, j)
        /\ A(i) > B(j) => Left(i, j) = Left(i, j + 1)
        /\ A(i) = B(j) => Left(i, j) = {<<i, j>>} \cup Left(i + 1, j + 1)
    BY ONLY <2>0, Strict(u), Strict(v), i \in 0 .. p, j \in 0 .. q, MatchesStep DEF A, B
  <2>2. <<i, j>> \notin Left(i + 1, j + 1)
    <3>1. \A x \in Left(i + 1, j + 1) : x[1] \in i + 1 .. p
      BY DEF Matches
    <3>2. i \notin i + 1 .. p /\ <<i, j>>[1] = i
      OBVIOUS
    <3> HIDE DEF Left
    <3> QED BY <3>1, <3>2
  <2>3. i + 1 \in 0 .. n /\ j + 1 \in 0 .. m
    BY <1>151
  <2>4. PICK R : R = Left(i + 1, j + 1)
    OBVIOUS
  <2>5. IsFiniteSet(R) /\ Cardinality(R) \in Nat /\ <<i, j>> \notin R
    BY <1>15, <2>2, <2>3, <2>4
  <2>6. Cardinality(R \cup {<<i, j>>}) = Cardinality(R) + 1
    BY <2>5, FS_AddElement
  <2>7. {<<i, j>>} \cup R = R \cup {<<i, j>>}
    OBVIOUS
  <2> HIDE DEF Left
  <2>8. A(i) = B(j) => Cardinality(Left(i, j)) = Cardinality(R) + 1
    BY <2>1, <2>4, <2>6, <2>7
  <2>9. Cardinality(R) + 1 = 1 + Cardinality(R)
    BY <2>5
  <2> QED BY <2>1, <2>4, <2>5, <2>8, <2>9
<1> HIDE DEF Left
<1>161. ASSUME NEW i \in 0 .. n, NEW j \in 0 .. m, i > p \/ j > q
        PROVE  merge[<<i, j>>] = Cardinality(Left(i, j))
  <2>1. merge[<<i, j>>] = Half(merge, <<i, j>>)
    BY <1>14
  <2> QED BY <1>7, <1>15, <1>161, <2>1
<1>17. 0 \in Good
  <2> SUFFICES ASSUME NEW i \in 0 .. n, NEW j \in 0 .. m, (n - i) + (m - j) <= 0
               PROVE  merge[<<i, j>>] = Cardinality(Left(i, j))
    <3> HIDE DEF Left
    <3> QED OBVIOUS
  <2>1. i > p
    BY <1>2
  <2> QED BY <1>161, <2>1
<1>18. ASSUME NEW k \in Nat, k \in Good PROVE k + 1 \in Good
  <2>0. \A i \in 0 .. n, j \in 0 .. m : (n - i) + (m - j) <= k
                                   => merge[<<i, j>>] = Cardinality(Left(i, j))
    BY <1>18
  <2> SUFFICES ASSUME NEW i \in 0 .. n, NEW j \in 0 .. m, (n - i) + (m - j) <= k + 1
               PROVE  merge[<<i, j>>] = Cardinality(Left(i, j))
    OBVIOUS
  <2> HIDE DEF Good
  <2>1. CASE i > p \/ j > q
    BY <1>161, <2>1
  <2>2. CASE ~(i > p \/ j > q)
    <3>1. i \in 0 .. p /\ j \in 0 .. q
      BY <1>71, <2>2
    <3>11. i + 1 \in 0 .. n /\ j + 1 \in 0 .. m
      BY <1>151, <3>1
    <3>2. /\ merge[<<i + 1, j>>] = Cardinality(Left(i + 1, j))
          /\ merge[<<i, j + 1>>] = Cardinality(Left(i, j + 1))
          /\ merge[<<i + 1, j + 1>>] = Cardinality(Left(i + 1, j + 1))
      <4>1. /\ (n - (i + 1)) + (m - j) <= k /\ (n - i) + (m - (j + 1)) <= k
            /\ (n - (i + 1)) + (m - (j + 1)) <= k
        OBVIOUS
      <4> QED BY <2>0, <3>11, <4>1
    <3>3. /\ i = p => Cardinality(Left(i + 1, j)) = 0 /\ Cardinality(Left(i + 1, j + 1)) = 0
          /\ j = q => Cardinality(Left(i, j + 1)) = 0 /\ Cardinality(Left(i + 1, j + 1)) = 0
      <4>1. (i = p => i + 1 > p) /\ (j = q => j + 1 > q)
        OBVIOUS
      <4> QED BY <1>15, <3>11, <4>1
    <3>4. merge[<<i, j>>] = Half(merge, <<i, j>>)
      BY <1>14
    <3>5. /\ merge[<<i + 1, j>>] \in Nat /\ merge[<<i, j + 1>>] \in Nat
          /\ merge[<<i + 1, j + 1>>] \in Nat
      BY <1>15, <3>2, <3>11
    <3> HIDE DEF D
    <3>7. CASE A(i) = B(j)
      <4>1. Half(merge, <<i, j>>) = 1 + IF i = p \/ j = q THEN 0 ELSE merge[<<i + 1, j + 1>>]
        BY <1>6, <3>1, <3>5, <3>7
      <4> QED BY <1>16, <3>1, <3>2, <3>3, <3>4, <3>7, <4>1
    <3>8. CASE A(i) < B(j)
      <4>1. Half(merge, <<i, j>>) = IF i = p THEN 0 ELSE merge[<<i + 1, j>>]
        BY <1>6, <3>1, <3>5, <3>8
      <4> QED BY <1>16, <3>1, <3>2, <3>3, <3>4, <3>8, <4>1
    <3>9. CASE A(i) > B(j)
      <4>1. Half(merge, <<i, j>>) = IF j = q THEN 0 ELSE merge[<<i, j + 1>>]
        BY <1>6, <3>1, <3>5, <3>9
      <4> QED BY <1>16, <3>1, <3>2, <3>3, <3>4, <3>9, <4>1
    <3> QED BY <1>72, <3>1, <3>7, <3>8, <3>9
  <2> QED BY <2>1, <2>2
<1>19. \A k \in Nat : k \in Good
  <2> HIDE DEF Good
  <2> QED BY <1>17, <1>18, SetInduction
<1>20. ASSUME NEW i \in 0 .. n, NEW j \in 0 .. m PROVE merge[<<i, j>>] = Cardinality(Left(i, j))
  <2>1. PICK k \in Nat : k = (n - i) + (m - j)
    <3>1. (n - i) + (m - j) \in Nat
      OBVIOUS
    <3> QED BY <3>1
  <2>2. k \in Good /\ (n - i) + (m - j) <= k
    <3> HIDE DEF Good
    <3> QED BY ONLY <1>19, <2>1, n \in Nat, m \in Nat, i \in 0 .. n, j \in 0 .. m
  <2> QED BY <2>2
<1> QED BY <1>1, <1>2, <1>3, <1>20 DEF Left

-----------------------------------------------------------------------------
(* The path of the merge, and the search for its point on a diagonal.      *)

\* The two lists of an intersection: sorted, and neither is empty.
Lists(u, v) == Strict(u) /\ Strict(v) /\ Len(u) # 0 /\ Len(v) # 0

\* The points the merge of the lists passes through.
OnPath(u, v, i, j) ==
    /\ i \in 0 .. Len(u) - 1
    /\ j \in 0 .. Len(v) - 1
    /\ i = 0 \/ j = Len(v) - 1 \/ Cell(u, i) < Cell(v, j + 1)
    /\ j = 0 \/ i = Len(u) - 1 \/ Cell(u, i + 1) >= Cell(v, j)

\* Their lengths and cells.
LEMMA ListsAre ==
    ASSUME NEW u, NEW v, Lists(u, v)
    PROVE  \E n \in Nat \ {0}, m \in Nat \ {0} :
              /\ n = Len(u) /\ m = Len(v)
              /\ \A i \in 0 .. n - 1 : Cell(u, i) \in Nat
              /\ \A j \in 0 .. m - 1 : Cell(v, j) \in Nat
              /\ \A i, k \in 0 .. n - 1 : i < k => Cell(u, i) < Cell(u, k)
              /\ \A j, l \in 0 .. m - 1 : j < l => Cell(v, j) < Cell(v, l)
<1>1. Strict(u) /\ Strict(v) /\ Len(u) \in Nat \ {0} /\ Len(v) \in Nat \ {0}
  BY CellsGrow DEF Lists
<1>2. /\ \A i \in 0 .. Len(u) - 1 : Cell(u, i) \in Nat
      /\ \A j \in 0 .. Len(v) - 1 : Cell(v, j) \in Nat
      /\ \A i, k \in 0 .. Len(u) - 1 : i < k => Cell(u, i) < Cell(u, k)
      /\ \A j, l \in 0 .. Len(v) - 1 : j < l => Cell(v, j) < Cell(v, l)
  BY <1>1, CellsGrow
<1> QED BY <1>1, <1>2

\* The path never turns back.
LEMMA PathGrows ==
    ASSUME NEW u, NEW v, Lists(u, v), NEW i, NEW j, OnPath(u, v, i, j),
           NEW k, NEW l, OnPath(u, v, k, l), i + j <= k + l
    PROVE  i <= k /\ j <= l
<1>1. PICK n \in Nat \ {0}, m \in Nat \ {0} :
              /\ n = Len(u) /\ m = Len(v)
              /\ \A a \in 0 .. n - 1 : Cell(u, a) \in Nat
              /\ \A b \in 0 .. m - 1 : Cell(v, b) \in Nat
              /\ \A a, c \in 0 .. n - 1 : a < c => Cell(u, a) < Cell(u, c)
              /\ \A b, c \in 0 .. m - 1 : b < c => Cell(v, b) < Cell(v, c)
  BY ListsAre
<1>2. /\ i \in 0 .. n - 1 /\ j \in 0 .. m - 1 /\ k \in 0 .. n - 1 /\ l \in 0 .. m - 1
      /\ i = 0 \/ j = m - 1 \/ Cell(u, i) < Cell(v, j + 1)
      /\ j = 0 \/ i = n - 1 \/ Cell(u, i + 1) >= Cell(v, j)
      /\ k = 0 \/ l = m - 1 \/ Cell(u, k) < Cell(v, l + 1)
      /\ l = 0 \/ k = n - 1 \/ Cell(u, k + 1) >= Cell(v, l)
  BY <1>1 DEF OnPath
<1>3. ASSUME i > k PROVE FALSE
  <2>1. j < l /\ k + 1 \in 0 .. n - 1 /\ j + 1 \in 0 .. m - 1 /\ k + 1 <= i /\ j + 1 <= l
    BY <1>2, <1>3
  <2>2. Cell(u, i) < Cell(v, j + 1) /\ Cell(u, k + 1) >= Cell(v, l)
    BY <1>2, <1>3, <2>1
  <2>3. Cell(u, k + 1) <= Cell(u, i)
    <3>1. k + 1 = i \/ k + 1 < i
      BY <1>2, <2>1
    <3>2. /\ k + 1 \in 0 .. n - 1 /\ i \in 0 .. n - 1
          /\ Cell(u, k + 1) \in Nat /\ Cell(u, i) \in Nat
      BY <1>1, <1>2, <2>1
    <3>3. k + 1 < i => Cell(u, k + 1) < Cell(u, i)
      BY ONLY <1>1, <3>2
    <3> QED BY ONLY <3>1, <3>2, <3>3
  <2>4. Cell(v, j + 1) <= Cell(v, l)
    <3>1. j + 1 = l \/ j + 1 < l
      BY <1>2, <2>1
    <3>2. /\ j + 1 \in 0 .. m - 1 /\ l \in 0 .. m - 1
          /\ Cell(v, j + 1) \in Nat /\ Cell(v, l) \in Nat
      BY <1>1, <1>2, <2>1
    <3>3. j + 1 < l => Cell(v, j + 1) < Cell(v, l)
      BY ONLY <1>1, <3>2
    <3> QED BY ONLY <3>1, <3>2, <3>3
  <2>5. /\ Cell(u, i) \in Nat /\ Cell(v, j + 1) \in Nat
        /\ Cell(u, k + 1) \in Nat /\ Cell(v, l) \in Nat
    BY <1>1, <1>2, <2>1
  <2> QED BY ONLY <2>2, <2>3, <2>4, <2>5
<1>4. ASSUME j > l PROVE FALSE
  <2>1. i < k /\ i + 1 \in 0 .. n - 1 /\ l + 1 \in 0 .. m - 1 /\ i + 1 <= k /\ l + 1 <= j
    BY <1>2, <1>4
  <2>2. Cell(u, k) < Cell(v, l + 1) /\ Cell(u, i + 1) >= Cell(v, j)
    BY <1>2, <1>4, <2>1
  <2>3. Cell(u, i + 1) <= Cell(u, k)
    <3>1. i + 1 = k \/ i + 1 < k
      BY <1>2, <2>1
    <3>2. /\ i + 1 \in 0 .. n - 1 /\ k \in 0 .. n - 1
          /\ Cell(u, i + 1) \in Nat /\ Cell(u, k) \in Nat
      BY <1>1, <1>2, <2>1
    <3>3. i + 1 < k => Cell(u, i + 1) < Cell(u, k)
      BY ONLY <1>1, <3>2
    <3> QED BY ONLY <3>1, <3>2, <3>3
  <2>4. Cell(v, l + 1) <= Cell(v, j)
    <3>1. l + 1 = j \/ l + 1 < j
      BY <1>2, <2>1
    <3>2. /\ l + 1 \in 0 .. m - 1 /\ j \in 0 .. m - 1
          /\ Cell(v, l + 1) \in Nat /\ Cell(v, j) \in Nat
      BY <1>1, <1>2, <2>1
    <3>3. l + 1 < j => Cell(v, l + 1) < Cell(v, j)
      BY ONLY <1>1, <3>2
    <3> QED BY ONLY <3>1, <3>2, <3>3
  <2>5. /\ Cell(u, k) \in Nat /\ Cell(v, l + 1) \in Nat
        /\ Cell(u, i + 1) \in Nat /\ Cell(v, j) \in Nat
    BY <1>1, <1>2, <2>1
  <2> QED BY ONLY <2>2, <2>3, <2>4, <2>5
<1> QED BY <1>2, <1>3, <1>4

\* The path begins and ends in the corners and passes every common element.
LEMMA PathHas ==
    ASSUME NEW u, NEW v, Lists(u, v)
    PROVE  /\ OnPath(u, v, 0, 0) /\ OnPath(u, v, Len(u) - 1, Len(v) - 1)
           /\ \A i \in 0 .. Len(u) - 1, j \in 0 .. Len(v) - 1 :
                 Cell(u, i) = Cell(v, j) => OnPath(u, v, i, j)
<1>1. PICK n \in Nat \ {0}, m \in Nat \ {0} :
              /\ n = Len(u) /\ m = Len(v)
              /\ \A a \in 0 .. n - 1 : Cell(u, a) \in Nat
              /\ \A b \in 0 .. m - 1 : Cell(v, b) \in Nat
              /\ \A a, c \in 0 .. n - 1 : a < c => Cell(u, a) < Cell(u, c)
              /\ \A b, c \in 0 .. m - 1 : b < c => Cell(v, b) < Cell(v, c)
  BY ListsAre
<1>2. OnPath(u, v, 0, 0) /\ OnPath(u, v, n - 1, m - 1)
  BY <1>1 DEF OnPath
<1>3. ASSUME NEW i \in 0 .. n - 1, NEW j \in 0 .. m - 1, Cell(u, i) = Cell(v, j)
      PROVE  OnPath(u, v, i, j)
  <2>1. ASSUME j # m - 1 PROVE Cell(u, i) < Cell(v, j + 1)
    <3>1. j + 1 \in 0 .. m - 1 /\ j < j + 1
      BY <2>1
    <3> QED BY <1>1, <1>3, <3>1
  <2>2. ASSUME i # n - 1 PROVE Cell(u, i + 1) >= Cell(v, j)
    <3>1. i + 1 \in 0 .. n - 1 /\ i < i + 1
      BY <2>2
    <3>2. Cell(u, i) < Cell(u, i + 1) /\ Cell(u, i) \in Nat /\ Cell(u, i + 1) \in Nat
      BY <1>1, <3>1
    <3> QED BY <1>3, <3>2
  <2> QED BY <1>1, <2>1, <2>2 DEF OnPath
<1> QED BY <1>1, <1>2, <1>3

\* The point after one of the path is the next one of the path.
LEMMA AfterIs ==
    ASSUME NEW u, NEW v, Lists(u, v), NEW p, OnPath(u, v, p.u, p.v),
           p.u + p.v < TotalWork(u, v) - 1
    PROVE  /\ OnPath(u, v, After(u, v, p).u, After(u, v, p).v)
           /\ After(u, v, p).u + After(u, v, p).v = p.u + p.v + 1
<1>1. PICK n \in Nat \ {0}, m \in Nat \ {0} :
              /\ n = Len(u) /\ m = Len(v)
              /\ \A a \in 0 .. n - 1 : Cell(u, a) \in Nat
              /\ \A b \in 0 .. m - 1 : Cell(v, b) \in Nat
              /\ \A a, c \in 0 .. n - 1 : a < c => Cell(u, a) < Cell(u, c)
              /\ \A b, c \in 0 .. m - 1 : b < c => Cell(v, b) < Cell(v, c)
  BY ListsAre
<1>2. PICK i \in 0 .. n - 1, j \in 0 .. m - 1 :
         /\ i = p.u /\ j = p.v /\ i + j < n + m - 2
         /\ i = 0 \/ j = m - 1 \/ Cell(u, i) < Cell(v, j + 1)
         /\ j = 0 \/ i = n - 1 \/ Cell(u, i + 1) >= Cell(v, j)
  <2>1. PICK i \in 0 .. n - 1, j \in 0 .. m - 1 : i = p.u /\ j = p.v
    BY <1>1 DEF OnPath
  <2>2. i + j < n + m - 2
    BY <1>1, <2>1 DEF TotalWork
  <2>3. /\ i = 0 \/ j = m - 1 \/ Cell(u, i) < Cell(v, j + 1)
        /\ j = 0 \/ i = n - 1 \/ Cell(u, i + 1) >= Cell(v, j)
    BY <1>1, <2>1 DEF OnPath
  <2> QED BY <2>1, <2>2, <2>3
<1> DEFINE toV == (i < n - 1 /\ j < m - 1 /\ Cell(u, i + 1) >= Cell(v, j + 1)) \/ i = n - 1
<1>3. After(u, v, p) = IF toV THEN [u |-> i, v |-> j + 1] ELSE [u |-> i + 1, v |-> j]
  <2>1. Bit(TRUE) = 1 /\ Bit(FALSE) = 0 /\ i + 0 = i /\ j + 0 = j
    BY DEF Bit
  <2>2. After(u, v, p) = LET inU == i < n - 1
                             inV == j < m - 1
                             tV == IF inU /\ inV THEN Cell(u, i + 1) >= Cell(v, j + 1) ELSE inV
                             tU == IF inU /\ inV THEN ~tV ELSE inU
                         IN  [u |-> i + Bit(tU), v |-> j + Bit(tV)]
    BY <1>1, <1>2 DEF After
  <2>3. CASE i < n - 1 /\ j < m - 1 /\ Cell(u, i + 1) >= Cell(v, j + 1)
    BY <2>1, <2>2, <2>3 DEF Bit
  <2>4. CASE i < n - 1 /\ j < m - 1 /\ ~(Cell(u, i + 1) >= Cell(v, j + 1))
    BY <2>1, <2>2, <2>4 DEF Bit
  <2>5. CASE i = n - 1
    BY <1>2, <2>1, <2>2, <2>5 DEF Bit
  <2>6. CASE i < n - 1 /\ j = m - 1
    BY <1>2, <2>1, <2>2, <2>6 DEF Bit
  <2> QED BY <2>3, <2>4, <2>5, <2>6
<1>4. CASE toV
  <2>1. j + 1 \in 0 .. m - 1
    BY <1>2, <1>4
  <2>2. i = 0 \/ j + 1 = m - 1 \/ Cell(u, i) < Cell(v, j + 1 + 1)
    <3> SUFFICES ASSUME i # 0, j + 1 # m - 1 PROVE Cell(u, i) < Cell(v, j + 1 + 1)
      OBVIOUS
    <3>1. j + 1 + 1 \in 0 .. m - 1 /\ j + 1 < j + 1 + 1 /\ j # m - 1
      BY <2>1
    <3>2. Cell(v, j + 1) < Cell(v, j + 1 + 1) /\ Cell(u, i) < Cell(v, j + 1)
      BY <1>1, <1>2, <2>1, <3>1
    <3>3. Cell(v, j + 1) \in Nat /\ Cell(v, j + 1 + 1) \in Nat /\ Cell(u, i) \in Nat
      BY <1>1, <2>1, <3>1
    <3> QED BY <3>2, <3>3
  <2>3. OnPath(u, v, i, j + 1)
    BY <1>1, <1>4, <2>1, <2>2 DEF OnPath
  <2> QED BY <1>2, <1>3, <1>4, <2>3
<1>5. CASE ~toV
  <2>1. i + 1 \in 0 .. n - 1
    BY <1>2, <1>5
  <2>2. j = 0 \/ i + 1 = n - 1 \/ Cell(u, i + 1 + 1) >= Cell(v, j)
    <3> SUFFICES ASSUME j # 0, i + 1 # n - 1 PROVE Cell(u, i + 1 + 1) >= Cell(v, j)
      OBVIOUS
    <3>1. i + 1 + 1 \in 0 .. n - 1 /\ i + 1 < i + 1 + 1 /\ i # n - 1
      BY <2>1
    <3>2. Cell(u, i + 1) < Cell(u, i + 1 + 1) /\ Cell(u, i + 1) >= Cell(v, j)
      BY <1>1, <1>2, <2>1, <3>1
    <3>3. Cell(u, i + 1) \in Nat /\ Cell(u, i + 1 + 1) \in Nat /\ Cell(v, j) \in Nat
      BY <1>1, <2>1, <3>1
    <3> QED BY <3>2, <3>3
  <2>3. j = m - 1 \/ Cell(u, i + 1) < Cell(v, j + 1)
    <3> SUFFICES ASSUME j # m - 1 PROVE Cell(u, i + 1) < Cell(v, j + 1)
      OBVIOUS
    <3>1. j + 1 \in 0 .. m - 1 /\ i < n - 1 /\ j < m - 1
      BY <2>1
    <3>2. Cell(u, i + 1) \in Nat /\ Cell(v, j + 1) \in Nat
      BY <1>1, <2>1, <3>1
    <3> QED BY <1>5, <3>1, <3>2
  <2>4. OnPath(u, v, i + 1, j)
    BY <1>1, <2>1, <2>2, <2>3 DEF OnPath
  <2> QED BY <1>2, <1>3, <1>5, <2>4
<1> QED BY <1>4, <1>5

\* One step of the search on diagonal d, when the range is low to high.
PathStep(u, v, d, g, low, high) ==
    LET i == (low + high) \div 2
        j == d - 1 - i
        below == Bit(Cell(u, i + 1) < Cell(v, j))
    IN  IF low = high THEN [u |-> i, v |-> j]
        ELSE IF Cell(u, i) >= Cell(v, j) THEN g[<<i, high>>]
        ELSE IF Cell(u, i + 1) < Cell(v, j - 1) THEN g[<<low, i + 1>>]
        ELSE [u |-> i + below, v |-> j - below]

\* The range still holds the point of the path: the corners at its ends lie on
\* either side of it, or are those of the diagonal.
Around(u, v, d, low, high) ==
    /\ low \in 0 .. d - 1 /\ high \in 0 .. low
    /\ low < Len(u) /\ high > d - 1 - Len(v)
    /\ low = d - 1 \/ low = Len(u) - 1 \/ Cell(u, low) >= Cell(v, d - 1 - low)
    /\ high = 0 \/ high = d - Len(v) \/ Cell(u, high) < Cell(v, d - 1 - high)

\* The search ends at the point of the path on its diagonal.
LEMMA PathPointIs ==
    ASSUME NEW u, NEW v, Lists(u, v), NEW d \in 1 .. TotalWork(u, v)
    PROVE  /\ OnPath(u, v, PathPoint(u, v, d).u, PathPoint(u, v, d).v)
           /\ PathPoint(u, v, d).u + PathPoint(u, v, d).v = d - 1
<1>1. PICK n \in Nat \ {0}, m \in Nat \ {0} :
              /\ n = Len(u) /\ m = Len(v)
              /\ \A a \in 0 .. n - 1 : Cell(u, a) \in Nat
              /\ \A b \in 0 .. m - 1 : Cell(v, b) \in Nat
              /\ \A a, c \in 0 .. n - 1 : a < c => Cell(u, a) < Cell(u, c)
              /\ \A b, c \in 0 .. m - 1 : b < c => Cell(v, b) < Cell(v, c)
  BY ListsAre
<1>2. d \in Nat /\ 1 <= d /\ d <= n + m - 1
  BY <1>1 DEF TotalWork
<1> DEFINE R == {r \in (0 .. d - 1) \X (0 .. d - 1) : r[2] <= r[1]}
           Points == [u : Int, v : Int]
           Half(g, r) == PathStep(u, v, d, g, r[1], r[2])
           search == CHOOSE g : g = [r \in R |-> Half(g, r)]
           rank == [r \in R |-> r[1] - r[2]]
           F == [g \in [R -> Points] |-> [r \in R |-> Half(g, r)]]
           Good(p) == OnPath(u, v, p.u, p.v) /\ p.u + p.v = d - 1
<1>3. PathPoint(u, v, d) = search[<<Lesser(d, n) - 1, d - Lesser(d, m)>>]
  BY <1>1, <1>2 DEF PathPoint, PathStep
<1>4. ASSUME NEW low \in 0 .. d - 1, NEW high \in 0 .. d - 1, high < low
      PROVE  \E i \in Nat : /\ i = (low + high) \div 2 /\ high <= i /\ i < low
                            /\ <<i, high>> \in R /\ <<low, i + 1>> \in R
  <2>1. PICK i \in Nat : i = (low + high) \div 2 /\ high <= i /\ i < low
    <3>1. /\ (low + high) \div 2 \in Nat /\ high <= (low + high) \div 2
          /\ (low + high) \div 2 < low
      BY <1>2, <1>4
    <3> QED BY <3>1
  <2>2. i \in 0 .. d - 1 /\ i + 1 \in 0 .. d - 1 /\ high <= i /\ i + 1 <= low
    BY <1>2, <2>1
  <2> QED BY <2>1, <2>2
<1>5. ASSUME NEW low \in 0 .. d - 1, (low + low) \div 2 # low PROVE FALSE
  BY <1>2, <1>5
\* What a step does.
<1> DEFINE Goes(g, low, high, i) ==
              IF Cell(u, i) >= Cell(v, d - 1 - i) THEN g[<<i, high>>]
              ELSE IF Cell(u, i + 1) < Cell(v, d - 1 - i - 1) THEN g[<<low, i + 1>>]
              ELSE [u |-> i + Bit(Cell(u, i + 1) < Cell(v, d - 1 - i)),
                    v |-> d - 1 - i - Bit(Cell(u, i + 1) < Cell(v, d - 1 - i))]
<1>6. ASSUME NEW g, NEW low \in 0 .. d - 1
      PROVE  Half(g, <<low, low>>) = [u |-> low, v |-> d - 1 - low]
  <2>1. Half(g, <<low, low>>) = PathStep(u, v, d, g, low, low)
    OBVIOUS
  <2>2. (low + low) \div 2 = low
    BY <1>5
  <2> HIDE DEF Half
  <2> QED BY <2>1, <2>2 DEF PathStep
<1>61. ASSUME NEW g, NEW low \in 0 .. d - 1, NEW high \in 0 .. d - 1, high < low,
              NEW i, i = (low + high) \div 2
       PROVE  Half(g, <<low, high>>) = Goes(g, low, high, i)
  <2>1. Half(g, <<low, high>>) = PathStep(u, v, d, g, low, high)
    OBVIOUS
  <2>2. low # high
    BY <1>61
  <2>3. PathStep(u, v, d, g, low, high) = Goes(g, low, high, i)
    BY ONLY <1>61, <2>2, Zenon DEF PathStep
  <2> HIDE DEF Half, Goes
  <2> QED BY <2>1, <2>3
<1> HIDE DEF Goes
<1> HIDE DEF Half
<1>7. ASSUME NEW g \in [R -> Points], NEW r \in R PROVE Half(g, r) \in Points
  <2>1. PICK low \in 0 .. d - 1, high \in 0 .. d - 1 : r = <<low, high>> /\ high <= low
    OBVIOUS
  <2>2. CASE low = high
    <3>1. Half(g, r) = [u |-> low, v |-> d - 1 - low]
      <4>1. r = <<low, low>>
        BY <2>1, <2>2
      <4> QED BY <1>6, <4>1
    <3> HIDE DEF R
    <3> QED BY <1>2, <3>1
  <2>3. CASE high < low
    <3>1. PICK i \in Nat : /\ i = (low + high) \div 2 /\ high <= i /\ i < low
                            /\ <<i, high>> \in R /\ <<low, i + 1>> \in R
      BY <1>4, <2>3
    <3>2. Half(g, r) = Goes(g, low, high, i)
      BY <1>61, <2>1, <2>3, <3>1
    <3>3. PICK b \in Int : b = Bit(Cell(u, i + 1) < Cell(v, d - 1 - i))
      BY DEF Bit
    <3>4. [u |-> i + b, v |-> d - 1 - i - b] \in Points
      BY <1>2
    <3>5. g[<<i, high>>] \in Points /\ g[<<low, i + 1>>] \in Points
      <4> HIDE DEF R, Points
      <4> QED BY <3>1
    <3> HIDE DEF R, Points
    <3> QED BY ONLY <3>2, <3>3, <3>4, <3>5 DEF Goes
  <2> QED BY <2>1, <2>2, <2>3
<1>8. ASSUME NEW g \in [R -> Points], NEW h \in [R -> Points], NEW r \in R,
             \A y \in R : rank[y] < rank[r] => g[y] = h[y]
      PROVE  F[g][r] = F[h][r]
  <2>1. PICK low \in 0 .. d - 1, high \in 0 .. d - 1 : r = <<low, high>> /\ high <= low
    OBVIOUS
  <2>2. CASE low = high
    <3>1. Half(g, r) = Half(h, r)
      <4> HIDE DEF R, Points, rank, F
      <4>1. r = <<low, low>>
        BY <2>1, <2>2
      <4> QED BY <1>6, <4>1
    <3> QED BY <3>1
  <2>3. CASE high < low
    <3>1. PICK i \in Nat : /\ i = (low + high) \div 2 /\ high <= i /\ i < low
                            /\ <<i, high>> \in R /\ <<low, i + 1>> \in R
      BY <1>4, <2>3
    <3>2. rank[<<i, high>>] < rank[r] /\ rank[<<low, i + 1>>] < rank[r]
      <4>1. rank[<<i, high>>] = i - high /\ rank[<<low, i + 1>>] = low - (i + 1) /\ rank[r] = low - high
        BY <2>1, <3>1
      <4> HIDE DEF rank, R
      <4> QED BY <1>2, <3>1, <4>1
    <3>3. g[<<i, high>>] = h[<<i, high>>] /\ g[<<low, i + 1>>] = h[<<low, i + 1>>]
      <4> HIDE DEF rank, R
      <4> QED BY <1>8, <3>1, <3>2
    <3>4. Half(g, r) = Goes(g, low, high, i) /\ Half(h, r) = Goes(h, low, high, i)
      BY <1>61, <2>1, <2>3, <3>1
    <3>5. Half(g, r) = Half(h, r)
      BY ONLY <3>3, <3>4 DEF Goes
    <3> QED BY <3>5
  <2> QED BY <2>1, <2>2, <2>3
<1>9. \E g : g \in [R -> Points] /\ g = [r \in R |-> Half(g, r)]
  <2>1. IsRecursion(R, Points, rank, F)
    <3>1. rank \in [R -> Nat]
      <4> SUFFICES ASSUME NEW r \in R PROVE r[1] - r[2] \in Nat
        OBVIOUS
      <4> QED BY <1>2
    <3>2. Points # {}
      <4>1. [u |-> 0, v |-> 0] \in Points
        OBVIOUS
      <4> QED BY <4>1
    <3>3. F \in [[R -> Points] -> [R -> Points]]
      <4> HIDE DEF R, Points
      <4> QED BY <1>7
    <3> HIDE DEF R, Points, rank, F
    <3> QED BY <3>1, <3>2, <3>3, <1>8 DEF IsRecursion
  <2>2. \E g : g \in [R -> Points] /\ g = F[g]
    <3> HIDE DEF R, Points, rank, F
    <3> QED BY <2>1, FixedPoint
  <2> QED BY <2>2
<1>10. search = [r \in R |-> Half(search, r)]
  BY <1>9
<1> HIDE DEF search
<1> HIDE DEF Points, rank, F
<1>11. \A r \in R : search[r] = Half(search, r)
  BY <1>10
<1>12. ASSUME NEW low, Around(u, v, d, low, low) PROVE Good([u |-> low, v |-> d - 1 - low])
  <2>1. /\ low \in 0 .. d - 1 /\ low < n /\ low > d - 1 - m
        /\ low = d - 1 \/ low = n - 1 \/ Cell(u, low) >= Cell(v, d - 1 - low)
        /\ low = 0 \/ low = d - m \/ Cell(u, low) < Cell(v, d - 1 - low)
    BY <1>1, <1>12 DEF Around
  <2>2. PICK j \in 0 .. m - 1 : j = d - 1 - low
    <3>1. d - 1 - low \in 0 .. m - 1
      BY <1>2, <2>1
    <3> QED BY <3>1
  <2>3. low \in 0 .. n - 1
    BY <2>1
  <2>4. low = 0 \/ j = m - 1 \/ Cell(u, low) < Cell(v, j + 1)
    <3> SUFFICES ASSUME low # 0, j # m - 1 PROVE Cell(u, low) < Cell(v, j + 1)
      OBVIOUS
    <3>1. j + 1 \in 0 .. m - 1 /\ j < j + 1 /\ low # d - m
      BY <1>2, <2>1, <2>2
    <3>2. Cell(u, low) < Cell(v, j) /\ Cell(v, j) < Cell(v, j + 1)
      BY <1>1, <2>1, <2>2, <3>1
    <3>3. Cell(u, low) \in Nat /\ Cell(v, j) \in Nat /\ Cell(v, j + 1) \in Nat
      BY <1>1, <2>2, <2>3, <3>1
    <3> QED BY ONLY <3>2, <3>3
  <2>5. j = 0 \/ low = n - 1 \/ Cell(u, low + 1) >= Cell(v, j)
    <3> SUFFICES ASSUME j # 0, low # n - 1 PROVE Cell(u, low + 1) >= Cell(v, j)
      OBVIOUS
    <3>1. low + 1 \in 0 .. n - 1 /\ low < low + 1 /\ low # d - 1
      BY <1>2, <2>1, <2>2
    <3>2. Cell(u, low) >= Cell(v, j) /\ Cell(u, low) < Cell(u, low + 1)
      BY <1>1, <2>1, <2>2, <2>3, <3>1
    <3>3. Cell(u, low) \in Nat /\ Cell(u, low + 1) \in Nat /\ Cell(v, j) \in Nat
      BY <1>1, <2>2, <2>3, <3>1
    <3> QED BY <3>2, <3>3
  <2>6. OnPath(u, v, low, j)
    BY <1>1, <2>2, <2>3, <2>4, <2>5 DEF OnPath
  <2>7. low + j = d - 1
    BY <1>2, <2>1, <2>2
  <2> QED BY <2>2, <2>6, <2>7
<1>13. ASSUME NEW low, NEW high, Around(u, v, d, low, high), high < low,
              NEW i \in Nat, high <= i, i < low, NEW j, j = d - 1 - i
       PROVE  /\ Cell(u, i) >= Cell(v, j) => Around(u, v, d, i, high)
              /\ Cell(u, i + 1) < Cell(v, j - 1) => Around(u, v, d, low, i + 1)
              /\ ~(Cell(u, i) >= Cell(v, j)) /\ ~(Cell(u, i + 1) < Cell(v, j - 1)) =>
                    Good([u |-> i + Bit(Cell(u, i + 1) < Cell(v, j)),
                          v |-> j - Bit(Cell(u, i + 1) < Cell(v, j))])
  <2>1. /\ low \in 0 .. d - 1 /\ high \in 0 .. low /\ low < n /\ high > d - 1 - m
        /\ low = d - 1 \/ low = n - 1 \/ Cell(u, low) >= Cell(v, d - 1 - low)
        /\ high = 0 \/ high = d - m \/ Cell(u, high) < Cell(v, d - 1 - high)
    BY <1>1, <1>13 DEF Around
  <2>2. /\ i \in 0 .. n - 1 /\ i + 1 \in 0 .. n - 1 /\ i < i + 1
        /\ j \in 0 .. m - 1 /\ j - 1 \in 0 .. m - 1 /\ j - 1 < j
        /\ i \in 0 .. d - 1 /\ i + 1 \in 0 .. low /\ high \in 0 .. i
        /\ i < n /\ i + 1 > d - 1 - m /\ d - 1 - (i + 1) = j - 1 /\ i + j = d - 1
    BY <1>2, <1>13, <2>1
  <2>3. PICK a \in Nat, b \in Nat, c \in Nat, e \in Nat :
           /\ a = Cell(u, i) /\ b = Cell(u, i + 1) /\ c = Cell(v, j - 1) /\ e = Cell(v, j)
           /\ a < b /\ c < e
    BY <1>1, <2>2
  <2>4. Cell(u, i) >= Cell(v, j) => Around(u, v, d, i, high)
    BY <1>1, <1>13, <2>1, <2>2 DEF Around
  <2>5. Cell(u, i + 1) < Cell(v, j - 1) => Around(u, v, d, low, i + 1)
    BY <1>1, <1>13, <2>1, <2>2 DEF Around
  <2>6. ASSUME a < e, b >= c, b < e PROVE OnPath(u, v, i + 1, j - 1)
    <3>1. ASSUME i + 1 # n - 1 PROVE Cell(u, i + 1 + 1) >= c
      <4>1. i + 1 + 1 \in 0 .. n - 1 /\ i + 1 < i + 1 + 1
        BY <2>2, <3>1
      <4>2. b < Cell(u, i + 1 + 1) /\ Cell(u, i + 1 + 1) \in Nat
        BY <1>1, <2>2, <2>3, <4>1
      <4> QED BY <2>6, <4>2
    <3>2. j - 1 + 1 = j
      BY <2>2
    <3>3. Cell(u, i + 1) < Cell(v, j - 1 + 1)
      BY <2>3, <2>6, <3>2
    <3>4. i + 1 = Len(u) - 1 \/ Cell(u, i + 1 + 1) >= Cell(v, j - 1)
      BY <1>1, <2>3, <3>1
    <3> QED BY <1>1, <2>2, <3>3, <3>4 DEF OnPath
  <2>7. ASSUME a < e, b >= c, ~(b < e) PROVE OnPath(u, v, i, j)
    <3>1. ASSUME j # m - 1 PROVE a < Cell(v, j + 1)
      <4>1. j + 1 \in 0 .. m - 1 /\ j < j + 1
        BY <2>2, <3>1
      <4>2. e < Cell(v, j + 1) /\ Cell(v, j + 1) \in Nat
        BY <1>1, <2>2, <2>3, <4>1
      <4> QED BY <2>7, <4>2
    <3>2. j = Len(v) - 1 \/ Cell(u, i) < Cell(v, j + 1)
      BY <1>1, <2>3, <3>1
    <3>3. Cell(u, i + 1) >= Cell(v, j)
      BY <2>3, <2>7
    <3> QED BY <1>1, <2>2, <3>2, <3>3 DEF OnPath
  <2>8. ASSUME ~(Cell(u, i) >= Cell(v, j)), ~(Cell(u, i + 1) < Cell(v, j - 1))
        PROVE  Good([u |-> i + Bit(Cell(u, i + 1) < Cell(v, j)),
                     v |-> j - Bit(Cell(u, i + 1) < Cell(v, j))])
    <3>1. a < e /\ b >= c
      BY <2>3, <2>8
    <3>2. CASE b < e
      <4>1. Bit(Cell(u, i + 1) < Cell(v, j)) = 1
        BY <2>3, <3>2 DEF Bit
      <4>2. OnPath(u, v, i + 1, j - 1) /\ (i + 1) + (j - 1) = d - 1
        BY <2>2, <2>6, <3>1, <3>2
      <4> QED BY <4>1, <4>2
    <3>3. CASE ~(b < e)
      <4>1. Bit(Cell(u, i + 1) < Cell(v, j)) = 0
        BY <2>3, <3>3 DEF Bit
      <4>2. OnPath(u, v, i, j) /\ i + j = d - 1 /\ i + 0 = i /\ j - 0 = j
        BY <2>2, <2>7, <3>1, <3>3
      <4> QED BY <4>1, <4>2
    <3> QED BY <3>2, <3>3
  <2> HIDE DEF Good
  <2> QED BY <2>4, <2>5, <2>8
<1> HIDE DEF Good
<1> DEFINE A == {k \in Nat : \A low \in 0 .. d - 1, high \in 0 .. d - 1 :
                   Around(u, v, d, low, high) /\ low - high <= k => Good(search[<<low, high>>])}
<1>14. ASSUME NEW low \in 0 .. d - 1, NEW high \in 0 .. d - 1, high = low,
              Around(u, v, d, low, high)
       PROVE  Good(search[<<low, high>>])
  <2>1. <<low, low>> \in R
    OBVIOUS
  <2>2. search[<<low, low>>] = [u |-> low, v |-> d - 1 - low]
    BY <1>6, <1>11, <2>1
  <2> QED BY <1>12, <1>14, <2>2
<1>15. 0 \in A
  <2> SUFFICES ASSUME NEW low \in 0 .. d - 1, NEW high \in 0 .. d - 1,
                      Around(u, v, d, low, high), low - high <= 0
               PROVE  Good(search[<<low, high>>])
    OBVIOUS
  <2>1. high \in 0 .. low
    BY DEF Around
  <2>2. high = low
    BY <1>2, <2>1
  <2> QED BY <1>14, <2>2
<1>16. ASSUME NEW k \in Nat, k \in A PROVE k + 1 \in A
  <2>0. \A low \in 0 .. d - 1, high \in 0 .. d - 1 :
           Around(u, v, d, low, high) /\ low - high <= k => Good(search[<<low, high>>])
    BY <1>16
  <2> SUFFICES ASSUME NEW low \in 0 .. d - 1, NEW high \in 0 .. d - 1,
                      Around(u, v, d, low, high), low - high <= k + 1
               PROVE  Good(search[<<low, high>>])
    OBVIOUS
  <2> HIDE DEF A
  <2>1. high \in 0 .. low
    BY DEF Around
  <2>2. CASE high = low
    BY <1>14, <2>2
  <2>3. CASE high # low
    <3>1. high < low
      BY <1>2, <2>1, <2>3
    <3>2. PICK i \in Nat : /\ i = (low + high) \div 2 /\ high <= i /\ i < low
                            /\ <<i, high>> \in R /\ <<low, i + 1>> \in R
      BY <1>4, <3>1
    <3>3. search[<<low, high>>] = Goes(search, low, high, i)
      <4>1. <<low, high>> \in R
        BY <3>1
      <4> HIDE DEF R
      <4> QED BY <1>11, <1>61, <3>1, <3>2, <4>1
    <3> DEFINE j == d - 1 - i
    <3>4. /\ Cell(u, i) >= Cell(v, j) => Around(u, v, d, i, high)
          /\ Cell(u, i + 1) < Cell(v, j - 1) => Around(u, v, d, low, i + 1)
          /\ ~(Cell(u, i) >= Cell(v, j)) /\ ~(Cell(u, i + 1) < Cell(v, j - 1)) =>
                    Good([u |-> i + Bit(Cell(u, i + 1) < Cell(v, j)),
                          v |-> j - Bit(Cell(u, i + 1) < Cell(v, j))])
      BY <1>13, <3>1, <3>2
    <3>5. /\ i \in 0 .. d - 1 /\ i + 1 \in 0 .. d - 1
          /\ i - high <= k /\ low - (i + 1) <= k
      BY <1>2, <3>1, <3>2
    <3>6. CASE Cell(u, i) >= Cell(v, j)
      <4>1. Good(search[<<i, high>>])
        BY <2>0, <3>4, <3>5, <3>6
      <4>2. search[<<low, high>>] = search[<<i, high>>]
        BY <3>3, <3>6 DEF Goes
      <4> QED BY <4>1, <4>2
    <3>7. CASE ~(Cell(u, i) >= Cell(v, j)) /\ Cell(u, i + 1) < Cell(v, j - 1)
      <4>1. Good(search[<<low, i + 1>>])
        BY <2>0, <3>4, <3>5, <3>7
      <4>2. search[<<low, high>>] = search[<<low, i + 1>>]
        BY <3>3, <3>7 DEF Goes
      <4> QED BY <4>1, <4>2
    <3>8. CASE ~(Cell(u, i) >= Cell(v, j)) /\ ~(Cell(u, i + 1) < Cell(v, j - 1))
      <4>1. search[<<low, high>>] = [u |-> i + Bit(Cell(u, i + 1) < Cell(v, j)),
                                     v |-> j - Bit(Cell(u, i + 1) < Cell(v, j))]
        BY <3>3, <3>8 DEF Goes
      <4> QED BY <3>4, <3>8, <4>1
    <3> QED BY <3>6, <3>7, <3>8
  <2> QED BY <2>2, <2>3
<1>17. \A k \in Nat : k \in A
  <2> HIDE DEF A
  <2> QED BY <1>15, <1>16, SetInduction
<1>18. PICK low \in 0 .. d - 1, high \in 0 .. d - 1 :
          /\ low = Lesser(d, n) - 1 /\ high = d - Lesser(d, m)
          /\ Around(u, v, d, low, high)
  <2> DEFINE low == Lesser(d, n) - 1
             high == d - Lesser(d, m)
  <2>1. /\ low \in 0 .. d - 1 /\ high \in 0 .. low /\ low < n /\ high > d - 1 - m
        /\ low = d - 1 \/ low = n - 1
        /\ high = 0 \/ high = d - m
    BY <1>2 DEF Lesser
  <2>2. high \in 0 .. d - 1
    BY <1>2, <2>1
  <2> HIDE DEF low, high
  <2>3. Around(u, v, d, low, high)
    BY <1>1, <2>1 DEF Around
  <2> QED BY <2>1, <2>2, <2>3 DEF low, high
<1>19. Good(search[<<low, high>>])
  <2>1. PICK k \in Nat : k = low - high
    <3>1. high \in 0 .. low
      BY <1>18 DEF Around
    <3>2. low - high \in Nat
      BY <3>1
    <3> QED BY <3>2
  <2>2. k \in A /\ low - high <= k
    <3> HIDE DEF A
    <3> QED BY ONLY <1>17, <2>1, low \in 0 .. d - 1, high \in 0 .. d - 1, <1>2
  <2> QED BY <1>18, <2>2
<1> QED BY <1>3, <1>18, <1>19 DEF Good

-----------------------------------------------------------------------------
(* The shares of an intersection have each common element once.            *)

\* A part that begins within the items has at least one.
LEMMA DivideMoves ==
    ASSUME NEW n \in Nat, NEW T \in Nat \ {0}, NEW t \in 0 .. T - 1, Divide(n, T, t) < n
    PROVE  Divide(n, T, t) < Divide(n, T, t + 1)
<1>1. PICK q \in Nat, r \in 0 .. T - 1 : q = n \div T /\ r = n % T /\ n = T * q + r
  BY QuotientOf
<1>2. /\ Divide(n, T, t) = t * q + (IF t < r THEN t ELSE r)
      /\ Divide(n, T, t + 1) = (t + 1) * q + (IF t + 1 < r THEN t + 1 ELSE r)
  BY <1>1 DEF Divide, Lesser
<1>3. (t + 1) * q = t * q + q
  BY <1>1
<1>4. PICK x \in Nat : x = t * q
  BY <1>1
<1>5. CASE q = 0
  <2>1. n = r /\ x = 0
    BY <1>1, <1>4, <1>5
  <2> QED BY <1>1, <1>2, <1>3, <1>4, <1>5, <2>1
<1>6. CASE q # 0
  BY <1>1, <1>2, <1>3, <1>4, <1>6
<1> QED BY <1>5, <1>6

\* The common elements that thread t counts are those on its diagonals.
LEMMA BalancedIs ==
    ASSUME NEW u, NEW v, Lists(u, v), NEW T \in Nat \ {0}, NEW t \in 0 .. T - 1
    PROVE  BalancedCount(u, v, T, t)
             = Cardinality({x \in Matches(u, v, 0, 0, Len(u) - 1, Len(v) - 1) :
                              /\ Diagonal(u, v, T, t) < x[1] + x[2] + 1
                              /\ x[1] + x[2] + 1 <= Diagonal(u, v, T, t + 1)})
<1>1. PICK n \in Nat \ {0}, m \in Nat \ {0} : n = Len(u) /\ m = Len(v)
  BY ListsAre
<1>2. PICK W \in Nat \ {0} : W = n + m - 1 /\ W = TotalWork(u, v)
  <2>1. n + m - 1 \in Nat \ {0}
    OBVIOUS
  <2> QED BY <1>1, <2>1 DEF TotalWork
<1>3. PICK d \in Nat, e \in Nat : /\ d = Diagonal(u, v, T, t) /\ e = Diagonal(u, v, T, t + 1)
                                  /\ e <= W /\ (d < W => d < e)
  <2>1. t \in Nat /\ t + 1 \in Nat /\ t + 1 <= T
    OBVIOUS
  <2>2. Divide(W, T, t) \in Nat /\ Divide(W, T, t + 1) \in Nat /\ Divide(W, T, t + 1) <= W
    <3>1. W \in Nat /\ T \in Nat
      OBVIOUS
    <3>2. Divide(W, T, t) \in Nat /\ Divide(W, T, t + 1) \in Nat /\ Divide(W, T, T) = W
      BY <2>1, <3>1, DivideIs
    <3>3. Divide(W, T, t + 1) <= Divide(W, T, T)
      BY <2>1, <3>1, DivideGrows
    <3> QED BY <3>2, <3>3
  <2>3. Divide(W, T, t) < W => Divide(W, T, t) < Divide(W, T, t + 1)
    BY DivideMoves
  <2> QED BY <1>2, <2>2, <2>3 DEF Diagonal
<1> DEFINE All == Matches(u, v, 0, 0, n - 1, m - 1)
           Own == {x \in All : d < x[1] + x[2] + 1 /\ x[1] + x[2] + 1 <= e}
<1>4. \A x \in All : /\ x[1] \in 0 .. n - 1 /\ x[2] \in 0 .. m - 1 /\ x = <<x[1], x[2]>>
                     /\ Cell(u, x[1]) = Cell(v, x[2])
  BY DEF Matches
<1>5. BalancedCount(u, v, T, t) = Cardinality(Own)
  <2>1. CASE ~(d < W)
    <3>1. Own = {}
      <4>1. ASSUME NEW x \in All, d < x[1] + x[2] + 1 PROVE FALSE
        BY <1>2, <1>4, <2>1, <4>1
      <4> QED BY <4>1
    <3>2. BalancedCount(u, v, T, t) = 0
      BY <1>2, <1>3, <2>1 DEF BalancedCount, HasShare
    <3> QED BY <3>1, <3>2, FS_EmptySet
  <2>2. CASE d < W
    <3> DEFINE share == Share(u, v, T, t)
               first == share.first
               last == share.last
    <3>1. BalancedCount(u, v, T, t) = Merged(u, v, share)
      BY <1>2, <1>3, <2>2 DEF BalancedCount, HasShare
    <3>2. first = (IF d = 0 THEN [u |-> 0, v |-> 0] ELSE After(u, v, PathPoint(u, v, d)))
      BY <1>3 DEF Share
    <3>3. last = (IF e >= W THEN [u |-> n - 1, v |-> m - 1] ELSE PathPoint(u, v, e))
      BY <1>1, <1>2, <1>3 DEF Share
    <3> HIDE DEF share
    <3>4. OnPath(u, v, first.u, first.v) /\ first.u + first.v = d
      <4>1. CASE d = 0
        BY <3>2, <4>1, PathHas
      <4>2. CASE d # 0
        <5>1. d \in 1 .. TotalWork(u, v) /\ d - 1 < TotalWork(u, v) - 1
          BY <1>2, <2>2, <4>2
        <5>2. PICK p : p = PathPoint(u, v, d)
          OBVIOUS
        <5>3. OnPath(u, v, p.u, p.v) /\ p.u + p.v = d - 1
          BY <5>1, <5>2, PathPointIs
        <5>4. /\ OnPath(u, v, After(u, v, p).u, After(u, v, p).v)
              /\ After(u, v, p).u + After(u, v, p).v = p.u + p.v + 1
          BY <5>1, <5>3, AfterIs
        <5>5. first = After(u, v, p)
          BY <3>2, <4>2, <5>2
        <5>6. d - 1 + 1 = d
          OBVIOUS
        <5> QED BY <5>3, <5>4, <5>5, <5>6
      <4> QED BY <4>1, <4>2
    <3>5. OnPath(u, v, last.u, last.v) /\ last.u + last.v = e - 1
      <4>1. CASE e >= W
        <5>1. e = W /\ (n - 1) + (m - 1) = e - 1
          BY <1>2, <1>3, <4>1
        <5>2. OnPath(u, v, n - 1, m - 1)
          BY <1>1, PathHas
        <5> QED BY <3>3, <4>1, <5>1, <5>2
      <4>2. CASE ~(e >= W)
        <5>1. e \in 1 .. TotalWork(u, v)
          BY <1>2, <1>3, <2>2, <4>2
        <5> QED BY <3>3, <4>2, <5>1, PathPointIs
      <4> QED BY <4>1, <4>2
    <3> HIDE DEF first, last
    <3>6. PICK a \in 0 .. n - 1, b \in 0 .. m - 1, p \in 0 .. n - 1, q \in 0 .. m - 1 :
             /\ a = first.u /\ b = first.v /\ p = last.u /\ q = last.v
             /\ a + b = d /\ p + q = e - 1
      <4>1. first.u \in 0 .. n - 1 /\ first.v \in 0 .. m - 1
        BY <1>1, <3>4 DEF OnPath
      <4>2. last.u \in 0 .. n - 1 /\ last.v \in 0 .. m - 1
        BY <1>1, <3>5 DEF OnPath
      <4> QED BY <3>4, <3>5, <4>1, <4>2
    <3>7. Merged(u, v, share) = Cardinality(Matches(u, v, a, b, p, q))
      <4>1. /\ share.first.u \in 0 .. Len(u) /\ share.first.v \in 0 .. Len(v)
            /\ share.last.u \in 0 .. Len(u) - 1 /\ share.last.v \in 0 .. Len(v) - 1
        BY <1>1, <3>6 DEF first, last
      <4>2. Merged(u, v, share) = Cardinality(Matches(u, v, share.first.u, share.first.v,
                                                           share.last.u, share.last.v))
        BY <4>1, MergedIs DEF Lists
      <4> QED BY <3>6, <4>2 DEF first, last
    <3>8. Matches(u, v, a, b, p, q) = Own
      <4>1. ASSUME NEW x \in Matches(u, v, a, b, p, q) PROVE x \in Own
        <5>1. /\ x[1] \in a .. p /\ x[2] \in b .. q /\ x = <<x[1], x[2]>>
              /\ Cell(u, x[1]) = Cell(v, x[2])
          BY <4>1 DEF Matches
        <5>2. PICK i \in a .. p, j \in b .. q : i = x[1] /\ j = x[2]
          BY <5>1
        <5>3. i \in 0 .. n - 1 /\ j \in 0 .. m - 1 /\ d < i + j + 1 /\ i + j + 1 <= e
          BY <3>6
        <5>4. x \in All
          BY <5>1, <5>2, <5>3 DEF Matches
        <5> HIDE DEF All
        <5> QED BY <5>2, <5>3, <5>4
      <4>2. ASSUME NEW x \in Own PROVE x \in Matches(u, v, a, b, p, q)
        <5>1. PICK i \in 0 .. n - 1, j \in 0 .. m - 1 :
                 i = x[1] /\ j = x[2] /\ x = <<i, j>> /\ Cell(u, i) = Cell(v, j)
          BY <1>4
        <5>2. d < i + j + 1 /\ i + j + 1 <= e
          BY <5>1
        <5>3. OnPath(u, v, i, j)
          BY <1>1, <5>1, PathHas
        <5>4. OnPath(u, v, a, b) /\ OnPath(u, v, p, q)
          BY <3>4, <3>5, <3>6
        <5>5. a + b <= i + j /\ i + j <= p + q
          BY <3>6, <5>2
        <5>6. a <= i /\ b <= j /\ i <= p /\ j <= q
          <6>1. a <= i /\ b <= j
            BY ONLY <5>3, <5>4, <5>5, Lists(u, v), PathGrows
          <6>2. i <= p /\ j <= q
            BY ONLY <5>3, <5>4, <5>5, Lists(u, v), PathGrows
          <6> QED BY <6>1, <6>2
        <5>7. i \in a .. p /\ j \in b .. q
          BY <5>6
        <5> QED BY <5>1, <5>7 DEF Matches
      <4> HIDE DEF Own
      <4> QED BY <4>1, <4>2
    <3> QED BY <3>1, <3>7, <3>8
  <2> QED BY <2>1, <2>2
<1> QED BY <1>1, <1>3, <1>5

\* However many threads share the merge, they find each common element once.
LEMMA BalancedSum ==
    ASSUME NEW u, NEW v, Lists(u, v), NEW T \in Nat \ {0}, NEW count,
           \A t \in 0 .. T - 1 : count[t] = BalancedCount(u, v, T, t)
    PROVE  SumFunctionOnSet(count, 0 .. T - 1)
             = Cardinality(Matches(u, v, 0, 0, Len(u) - 1, Len(v) - 1))
<1>1. PICK n \in Nat \ {0}, m \in Nat \ {0} : n = Len(u) /\ m = Len(v)
  BY ListsAre
<1>2. PICK W \in Nat : W = n + m - 1 /\ W = TotalWork(u, v)
  <2>1. n + m - 1 \in Nat
    OBVIOUS
  <2> QED BY <1>1, <2>1 DEF TotalWork
<1>3. PICK S : S = Matches(u, v, 0, 0, n - 1, m - 1)
  OBVIOUS
<1>4. IsFiniteSet(S)
  BY <1>3, MatchesFinite
<1>5. PICK k : \A x \in S : k[x] = x[1] + x[2] + 1
  <2>1. \A x \in S : [y \in S |-> y[1] + y[2] + 1][x] = x[1] + x[2] + 1
    OBVIOUS
  <2> QED BY <2>1
<1>6. \A x \in S : k[x] \in 1 .. W
  <2> SUFFICES ASSUME NEW x \in S PROVE k[x] \in 1 .. W
    OBVIOUS
  <2>1. x[1] \in 0 .. n - 1 /\ x[2] \in 0 .. m - 1
    BY <1>3 DEF Matches
  <2> QED BY <1>2, <1>5, <2>1
<1>7. \A t \in 0 .. T - 1 : count[t] = Cardinality(Lying(S, k, W, T, t))
  <2> SUFFICES ASSUME NEW t \in 0 .. T - 1 PROVE count[t] = Cardinality(Lying(S, k, W, T, t))
    OBVIOUS
  <2>1. BalancedCount(u, v, T, t)
             = Cardinality({x \in Matches(u, v, 0, 0, Len(u) - 1, Len(v) - 1) :
                              /\ Diagonal(u, v, T, t) < x[1] + x[2] + 1
                              /\ x[1] + x[2] + 1 <= Diagonal(u, v, T, t + 1)})
    BY BalancedIs
  <2>2. BalancedCount(u, v, T, t)
             = Cardinality({x \in S : /\ Divide(W, T, t) < x[1] + x[2] + 1
                                      /\ x[1] + x[2] + 1 <= Divide(W, T, t + 1)})
    BY <1>1, <1>2, <1>3, <2>1 DEF Diagonal
  <2>3. Lying(S, k, W, T, t) = {x \in S : /\ Divide(W, T, t) < x[1] + x[2] + 1
                                          /\ x[1] + x[2] + 1 <= Divide(W, T, t + 1)}
    BY <1>5 DEF Lying
  <2> QED BY <2>2, <2>3
<1>8. SumFunctionOnSet(count, 0 .. T - 1) = Cardinality(S)
  <2>1. /\ \A x \in S : k[x] \in 1 .. W
        /\ \A t \in 0 .. T - 1 : count[t] = Cardinality(Lying(S, k, W, T, t))
    BY <1>6, <1>7
  <2> QED BY ONLY <1>4, <2>1, W \in Nat, T \in Nat \ {0}, SharesCount
<1> QED BY <1>1, <1>3, <1>8

-----------------------------------------------------------------------------
(* The graph, and the shares of its edges.                                 *)

GraphOK == /\ IsFiniteSet(Vertices)
           /\ \A x \in Vertices : /\ Strict(adj[x])
                                  /\ \A i \in DOMAIN adj[x] : adj[x][i] \in Vertices \ {x}

\* The graphs that are assumed are such.
LEMMA GraphIs == ASSUME TriangleAssumption, adj \in Graphs PROVE GraphOK
<1>1. /\ IsFiniteSet(DOMAIN adj) /\ \A x \in DOMAIN adj : x \in Nat
      /\ \A x \in DOMAIN adj : adj[x] \in Seq(DOMAIN adj \ {x}) /\ Increasing(adj[x])
  BY DEF TriangleAssumption
<1>2. ASSUME NEW x \in Vertices
      PROVE  Strict(adj[x]) /\ \A i \in DOMAIN adj[x] : adj[x][i] \in Vertices \ {x}
  <2>1. adj[x] \in Seq(DOMAIN adj \ {x}) /\ Increasing(adj[x])
    BY <1>1, <1>2 DEF Vertices
  <2>2. PICK l : l = adj[x]
    OBVIOUS
  <2>3. PICK S : S = DOMAIN adj \ {x} /\ S \subseteq Nat
    BY <1>1
  <2>4. l \in Seq(S)
    BY <2>1, <2>2, <2>3
  <2>5. l \in Seq(Nat) /\ \A i \in DOMAIN l : l[i] \in S
    BY <2>3, <2>4
  <2>6. \A i \in 1 .. Len(l) - 1 : l[i] < l[i + 1]
    BY <2>1, <2>2 DEF Increasing
  <2> QED BY <2>2, <2>3, <2>5, <2>6 DEF Strict, Vertices
<1> QED BY <1>1, <1>2 DEF GraphOK, Vertices

\* The edges: finitely many, without loops, and each has its source.
LEMMA GraphEdgesAre ==
    ASSUME GraphOK
    PROVE  /\ \A e : e \in Edges <=> \E s \in Vertices : \E i \in DOMAIN adj[s] : e = <<s, adj[s][i]>>
           /\ IsFiniteSet(Edges)
           /\ \A e \in Edges : /\ e[1] \in Vertices /\ e[2] \in Vertices /\ e[1] # e[2]
                               /\ e = <<e[1], e[2]>> /\ Len(adj[e[1]]) # 0
<1>1. \A e : e \in Edges <=> \E s \in Vertices : \E i \in DOMAIN adj[s] : e = <<s, adj[s][i]>>
  BY DEF Edges
<1>2. \A e \in Edges : /\ e[1] \in Vertices /\ e[2] \in Vertices /\ e[1] # e[2]
                       /\ e = <<e[1], e[2]>> /\ Len(adj[e[1]]) # 0
  <2> SUFFICES ASSUME NEW e \in Edges
               PROVE  /\ e[1] \in Vertices /\ e[2] \in Vertices /\ e[1] # e[2]
                      /\ e = <<e[1], e[2]>> /\ Len(adj[e[1]]) # 0
    OBVIOUS
  <2>1. PICK s \in Vertices : \E i \in DOMAIN adj[s] : e = <<s, adj[s][i]>>
    BY <1>1
  <2>2. PICK l : l = adj[s] /\ l \in Seq(Nat)
    BY DEF GraphOK, Strict
  <2>3. PICK i \in DOMAIN l : e = <<s, l[i]>> /\ l[i] \in Vertices \ {s}
    BY <2>1, <2>2 DEF GraphOK
  <2>4. Len(l) # 0
    BY <2>2, <2>3
  <2> QED BY <2>2, <2>3, <2>4
<1>3. IsFiniteSet(Edges)
  <2>1. IsFiniteSet(Vertices \X Vertices)
    BY FS_Product DEF GraphOK
  <2>2. Edges \subseteq Vertices \X Vertices
    BY <1>2
  <2> QED BY <2>1, <2>2, FS_Subset
<1> QED BY <1>1, <1>2, <1>3

\* The two lists of an edge; u is the shorter one.
LEMMA UnionIs ==
    ASSUME GraphOK, NEW e \in Edges
    PROVE  /\ Strict(adj[U(e)]) /\ Strict(adj[V(e)])
           /\ U(e) \in Vertices
           /\ {U(e), V(e)} = {e[1], e[2]}
           /\ Len(adj[U(e)]) <= Len(adj[V(e)])
           /\ Len(adj[U(e)]) = ShorterLen(e) /\ Len(adj[V(e)]) = LongerLen(e)
<1>1. e[1] \in Vertices /\ e[2] \in Vertices
  BY GraphEdgesAre
<1>2. Strict(adj[e[1]]) /\ Strict(adj[e[2]])
  BY <1>1 DEF GraphOK
<1>3. PICK m \in Nat, n \in Nat : m = Len(adj[e[1]]) /\ n = Len(adj[e[2]])
  BY <1>2, CellsGrow
<1>4. CASE m < n
  <2>1. U(e) = e[1] /\ V(e) = e[2]
    BY <1>3, <1>4 DEF U, V
  <2>2. ShorterLen(e) = m /\ LongerLen(e) = n
    <3>1. ShorterLen(e) = m
      BY <1>3, <1>4 DEF ShorterLen, Lesser
    <3>2. LongerLen(e) = m + n - m
      BY <1>3, <3>1 DEF LongerLen
    <3> QED BY <3>1, <3>2
  <2> QED BY <1>1, <1>2, <1>3, <1>4, <2>1, <2>2
<1>5. CASE ~(m < n)
  <2>1. U(e) = e[2] /\ V(e) = e[1]
    BY <1>3, <1>5 DEF U, V
  <2>2. ShorterLen(e) = n /\ LongerLen(e) = m
    BY <1>3, <1>5 DEF ShorterLen, LongerLen, Lesser
  <2> QED BY <1>1, <1>2, <1>3, <1>5, <2>1, <2>2
<1> QED BY <1>4, <1>5

\* The common elements of two lists, by their positions and by their values.
LEMMA InBothIs ==
    ASSUME NEW u, Strict(u), NEW v, Strict(v)
    PROVE  /\ Cardinality({i \in 0 .. Len(u) - 1 : \E j \in 0 .. Len(v) - 1 : Cell(v, j) = Cell(u, i)})
                = Cardinality({u[i] : i \in DOMAIN u} \cap {v[i] : i \in DOMAIN v})
           /\ Cardinality(Matches(u, v, 0, 0, Len(u) - 1, Len(v) - 1))
                = Cardinality({u[i] : i \in DOMAIN u} \cap {v[i] : i \in DOMAIN v})
<1>1. PICK n \in Nat, m \in Nat :
         /\ n = Len(u) /\ m = Len(v) /\ DOMAIN u = 1 .. n /\ DOMAIN v = 1 .. m
         /\ \A i \in 0 .. n - 1 : Cell(u, i) \in Nat
         /\ \A i, k \in 0 .. n - 1 : i < k => Cell(u, i) < Cell(u, k)
         /\ \A j \in 0 .. m - 1 : Cell(v, j) \in Nat
         /\ \A j, l \in 0 .. m - 1 : j < l => Cell(v, j) < Cell(v, l)
  <2>1. Len(u) \in Nat /\ Len(v) \in Nat /\ DOMAIN u = 1 .. Len(u) /\ DOMAIN v = 1 .. Len(v)
    BY DEF Strict
  <2> QED BY <2>1, CellsGrow
<1> DEFINE Values == {u[i] : i \in DOMAIN u} \cap {v[i] : i \in DOMAIN v}
           I == {i \in 0 .. n - 1 : \E j \in 0 .. m - 1 : Cell(v, j) = Cell(u, i)}
           M == Matches(u, v, 0, 0, n - 1, m - 1)
<1>2. ASSUME NEW i \in 0 .. n - 1, NEW k \in 0 .. n - 1, Cell(u, i) = Cell(u, k) PROVE i = k
  <2>1. ~(i < k) /\ ~(k < i)
    BY <1>1, <1>2
  <2> QED BY <2>1
<1>3. ASSUME NEW j \in 0 .. m - 1, NEW l \in 0 .. m - 1, Cell(v, j) = Cell(v, l) PROVE j = l
  <2>1. ~(j < l) /\ ~(l < j)
    BY <1>1, <1>3
  <2> QED BY <2>1
<1>4. ASSUME NEW x PROVE x \in Values <=>
         \E i \in 0 .. n - 1, j \in 0 .. m - 1 : x = Cell(u, i) /\ x = Cell(v, j)
  <2>1. ASSUME NEW k \in 1 .. n PROVE \E i \in 0 .. n - 1 : u[k] = Cell(u, i)
    <3>1. k - 1 \in 0 .. n - 1 /\ k - 1 + 1 = k
      OBVIOUS
    <3> QED BY <3>1 DEF Cell
  <2>2. ASSUME NEW k \in 1 .. m PROVE \E j \in 0 .. m - 1 : v[k] = Cell(v, j)
    <3>1. k - 1 \in 0 .. m - 1 /\ k - 1 + 1 = k
      OBVIOUS
    <3> QED BY <3>1 DEF Cell
  <2>3. ASSUME NEW i \in 0 .. n - 1 PROVE \E k \in 1 .. n : u[k] = Cell(u, i)
    <3>1. i + 1 \in 1 .. n
      OBVIOUS
    <3> QED BY <3>1 DEF Cell
  <2>4. ASSUME NEW j \in 0 .. m - 1 PROVE \E k \in 1 .. m : v[k] = Cell(v, j)
    <3>1. j + 1 \in 1 .. m
      OBVIOUS
    <3> QED BY <3>1 DEF Cell
  <2>5. x \in Values <=> (\E k \in 1 .. n : x = u[k]) /\ (\E k \in 1 .. m : x = v[k])
    BY <1>1
  <2> HIDE DEF Values
  <2> QED BY <2>1, <2>2, <2>3, <2>4, <2>5
<1> HIDE DEF Values
<1>5. Cardinality(I) = Cardinality(Values)
  <2>1. IsFiniteSet(I)
    <3>1. IsFiniteSet(0 .. n - 1)
      BY FS_Interval
    <3> QED BY <3>1, FS_Subset
  <2>2. PICK b : \A i \in I : b[i] = Cell(u, i)
    <3>1. \A i \in I : [k \in I |-> Cell(u, k)][i] = Cell(u, i)
      OBVIOUS
    <3> QED BY <3>1
  <2>3. {b[i] : i \in I} = Values
    BY <1>4, <2>2
  <2>4. \A i, k \in I : b[i] = b[k] => i = k
    BY <1>2, <2>2
  <2>5. Cardinality({b[i] : i \in I}) = Cardinality(I)
    <3> HIDE DEF I
    <3> QED BY <2>1, <2>4, SameSize
  <2> QED BY <2>3, <2>5
<1>6. Cardinality(M) = Cardinality(Values)
  <2>1. IsFiniteSet(M)
    BY MatchesFinite
  <2>2. PICK b : \A x \in M : b[x] = Cell(u, x[1])
    <3>1. \A x \in M : [y \in M |-> Cell(u, y[1])][x] = Cell(u, x[1])
      OBVIOUS
    <3> QED BY <3>1
  <2>3. \A x \in M : /\ x[1] \in 0 .. n - 1 /\ x[2] \in 0 .. m - 1 /\ x = <<x[1], x[2]>>
                     /\ Cell(u, x[1]) = Cell(v, x[2])
    BY DEF Matches
  <2>4. \A i \in 0 .. n - 1, j \in 0 .. m - 1 : Cell(u, i) = Cell(v, j) => <<i, j>> \in M
    BY DEF Matches
  <2> HIDE DEF M
  <2>5. {b[x] : x \in M} = Values
    <3>1. ASSUME NEW x \in M PROVE b[x] \in Values
      BY <1>4, <2>2, <2>3
    <3>2. ASSUME NEW x \in Values PROVE \E y \in M : x = b[y]
      <4>1. PICK i \in 0 .. n - 1, j \in 0 .. m - 1 : x = Cell(u, i) /\ x = Cell(v, j)
        BY <1>4, <3>2
      <4>2. <<i, j>> \in M /\ b[<<i, j>>] = Cell(u, i)
        BY <2>2, <2>4, <4>1
      <4> QED BY <4>1, <4>2
    <3> QED BY <3>1, <3>2
  <2>6. \A x, y \in M : b[x] = b[y] => x = y
    <3> SUFFICES ASSUME NEW x \in M, NEW y \in M, b[x] = b[y] PROVE x = y
      OBVIOUS
    <3>1. Cell(u, x[1]) = Cell(u, y[1]) /\ Cell(v, x[2]) = Cell(v, y[2])
      BY <2>2, <2>3
    <3>2. x[1] = y[1] /\ x[2] = y[2]
      BY <1>2, <1>3, <2>3, <3>1
    <3> QED BY <2>3, <3>2
  <2>7. Cardinality({b[x] : x \in M}) = Cardinality(M)
    BY <2>1, <2>6, SameSize
  <2> QED BY <2>5, <2>7
<1> QED BY <1>1, <1>5, <1>6 DEF Values

\* However many threads share the intersection of an edge, wherever their
\* shares begin and end: together they count the common neighbours.
LEMMA SharesSum ==
    ASSUME GraphOK, NEW e \in Edges, NEW T \in Nat \ {0}
    PROVE  /\ adj[U(e)] # <<>> => \A count :
                 (\A t \in 0 .. T - 1 : count[t] = BalancedCount(adj[U(e)], adj[V(e)], T, t))
                    => SumFunctionOnSet(count, 0 .. T - 1) = Common(e)
           /\ \A count :
                 (\A t \in 0 .. T - 1 : count[t] = ImbalancedCount(adj[U(e)], adj[V(e)], T, t))
                    => SumFunctionOnSet(count, 0 .. T - 1) = Common(e)
<1>1. PICK u, v : u = adj[U(e)] /\ v = adj[V(e)]
  OBVIOUS
<1>2. Strict(u) /\ Strict(v) /\ Len(u) <= Len(v)
  BY <1>1, UnionIs
<1>3. Cardinality({u[i] : i \in DOMAIN u} \cap {v[i] : i \in DOMAIN v}) = Common(e)
  <2>1. Neighbours(U(e)) = {u[i] : i \in DOMAIN u} /\ Neighbours(V(e)) = {v[i] : i \in DOMAIN v}
    BY <1>1 DEF Neighbours
  <2>2. (U(e) = e[1] /\ V(e) = e[2]) \/ (U(e) = e[2] /\ V(e) = e[1])
    BY DEF U, V
  <2>3. Neighbours(U(e)) \cap Neighbours(V(e)) = Neighbours(e[1]) \cap Neighbours(e[2])
    BY <2>2
  <2> QED BY <2>1, <2>3 DEF Common
<1>4. ASSUME u # <<>> PROVE Lists(u, v)
  <2>1. u \in Seq(Nat) /\ Len(u) \in Nat /\ Len(v) \in Nat
    BY <1>2 DEF Strict
  <2>2. Len(u) # 0
    BY <1>4, <2>1
  <2> QED BY <1>2, <2>1, <2>2 DEF Lists
<1>5. ASSUME u # <<>>, NEW count, \A t \in 0 .. T - 1 : count[t] = BalancedCount(u, v, T, t)
      PROVE  SumFunctionOnSet(count, 0 .. T - 1) = Common(e)
  <2>1. SumFunctionOnSet(count, 0 .. T - 1) = Cardinality(Matches(u, v, 0, 0, Len(u) - 1, Len(v) - 1))
    BY <1>4, <1>5, BalancedSum
  <2> QED BY <1>2, <1>3, <2>1, InBothIs
<1>6. ASSUME NEW count, \A t \in 0 .. T - 1 : count[t] = ImbalancedCount(u, v, T, t)
      PROVE  SumFunctionOnSet(count, 0 .. T - 1) = Common(e)
  <2>1. SumFunctionOnSet(count, 0 .. T - 1)
          = Cardinality({i \in 0 .. Len(u) - 1 : \E j \in 0 .. Len(v) - 1 : Cell(v, j) = Cell(u, i)})
    BY <1>2, <1>6, ImbalancedIs
  <2>2. Cardinality({i \in 0 .. Len(u) - 1 : \E j \in 0 .. Len(v) - 1 : Cell(v, j) = Cell(u, i)})
          = Cardinality({u[i] : i \in DOMAIN u} \cap {v[i] : i \in DOMAIN v})
    BY <1>2, InBothIs
  <2> QED BY ONLY <1>3, <2>1, <2>2
<1> QED BY <1>1, <1>5, <1>6

\* The property is one of the graph.
LEMMA SharesHold == ASSUME GraphOK PROVE SharesAreExact
<1> SUFFICES ASSUME NEW e \in Edges, NEW T \in {1, 2, 4, 8}
             PROVE  LET u == adj[U(e)]
                        v == adj[V(e)]
                    IN  /\ ~Avoided(e) /\ u # <<>> =>
                             SumFunction([t \in 0 .. T - 1 |-> BalancedCount(u, v, T, t)]) = Common(e)
                        /\ SumFunction([t \in 0 .. T - 1 |-> ImbalancedCount(u, v, T, t)]) = Common(e)
  BY DEF SharesAreExact
<1> DEFINE f == [t \in 0 .. T - 1 |-> BalancedCount(adj[U(e)], adj[V(e)], T, t)]
           g == [t \in 0 .. T - 1 |-> ImbalancedCount(adj[U(e)], adj[V(e)], T, t)]
<1>1. T \in Nat \ {0}
  OBVIOUS
<1>2. SumFunction(f) = SumFunctionOnSet(f, 0 .. T - 1) /\ SumFunction(g) = SumFunctionOnSet(g, 0 .. T - 1)
  BY DEF SumFunction
<1>3. /\ \A t \in 0 .. T - 1 : f[t] = BalancedCount(adj[U(e)], adj[V(e)], T, t)
      /\ \A t \in 0 .. T - 1 : g[t] = ImbalancedCount(adj[U(e)], adj[V(e)], T, t)
  OBVIOUS
<1>4. /\ adj[U(e)] # <<>> => SumFunctionOnSet(f, 0 .. T - 1) = Common(e)
      /\ SumFunctionOnSet(g, 0 .. T - 1) = Common(e)
  <2> HIDE DEF f, g
  <2> QED BY <1>1, <1>3, SharesSum
<1> QED BY <1>2, <1>4

\* The graph does not change.
LEMMA GraphKept == TCSpec => [](adj \in Graphs)
<1>1. TCInit => adj \in Graphs
  BY DEF TCInit
<1>2. adj \in Graphs /\ [TCNext]_tcVars => (adj \in Graphs)'
  BY DEF TCNext, TCRun, tcVars, CountBins, ScanBins, PlaceEdge, PlaceDone, LaunchRange, RunUnions,
         KernelDone, RunDone, LocalClusteringCoefficients, Reset
<1> QED BY <1>1, <1>2, PTL DEF TCSpec

\* However many threads share an intersection, balanced (the path search of
\* bSearchPath and the merge) or imbalanced (binary searches), their counts
\* add up to the number of common neighbours.
THEOREM SharesExact == TCSpec => []SharesAreExact
<1>1. adj \in Graphs => SharesAreExact
  BY TriangleAssumption, GraphIs, SharesHold
<1> QED BY <1>1, GraphKept, PTL

-----------------------------------------------------------------------------
(* The bins of the edges.                                                  *)

\* The powers of two.
LEMMA PowersAre ==
    /\ PowerOfTwo[0] = 1
    /\ \A n \in Nat : /\ PowerOfTwo[n] \in Nat \ {0}
                      /\ PowerOfTwo[n + 1] = 2 * PowerOfTwo[n]
                      /\ PowerOfTwo[n] > n
<1> DEFINE S == Nat \ {0}
           first == 1
           f == [x \in S |-> 2 * x]
<1>1. first \in S /\ f \in [S -> S]
  OBVIOUS
<1>2. PICK g \in [Nat -> S] : g[0] = first /\ \A n \in Nat : g[n + 1] = f[g[n]]
  <2> HIDE DEF S, first, f
  <2> QED BY <1>1, Iterates
<1>3. g = [n \in Nat |-> IF n = 0 THEN 1 ELSE 2 * g[n - 1]]
  <2>1. ASSUME NEW n \in Nat PROVE g[n] = IF n = 0 THEN 1 ELSE 2 * g[n - 1]
    <3>1. CASE n = 0
      BY <3>1, <1>2
    <3>2. CASE n # 0
      <4>1. n - 1 \in Nat /\ n = (n - 1) + 1
        BY <3>2
      <4>2. g[(n - 1) + 1] = 2 * g[n - 1]
        BY <4>1, <1>2
      <4> QED BY <3>2, <4>1, <4>2
    <3> QED BY <3>1, <3>2
  <2> HIDE DEF S
  <2> QED BY <1>2, <2>1
<1>4. PowerOfTwo = CHOOSE h : h = [n \in Nat |-> IF n = 0 THEN 1 ELSE 2 * h[n - 1]]
  BY DEF PowerOfTwo
<1>5. PowerOfTwo = [n \in Nat |-> IF n = 0 THEN 1 ELSE 2 * PowerOfTwo[n - 1]]
  BY <1>3, <1>4
<1>6. PowerOfTwo[0] = 1
  BY <1>5
<1>7. ASSUME NEW n \in Nat PROVE PowerOfTwo[n + 1] = 2 * PowerOfTwo[n]
  <2>1. n + 1 \in Nat /\ n + 1 # 0 /\ (n + 1) - 1 = n
    OBVIOUS
  <2> QED BY <1>5, <2>1
<1> DEFINE R == {n \in Nat : PowerOfTwo[n] \in Nat /\ PowerOfTwo[n] > n}
<1>8. 0 \in R
  BY <1>6
<1>9. ASSUME NEW n \in Nat, n \in R PROVE n + 1 \in R
  <2>1. PICK p \in Nat : p = PowerOfTwo[n] /\ p > n
    BY <1>9
  <2>2. PowerOfTwo[n + 1] = 2 * p /\ 2 * p \in Nat /\ 2 * p > n + 1
    BY <1>7, <2>1
  <2> QED BY <2>2
<1>10. \A n \in Nat : n \in R
  <2> HIDE DEF R
  <2> QED BY <1>8, <1>9, SetInduction
<1>11. \A n \in Nat : PowerOfTwo[n] \in Nat \ {0} /\ PowerOfTwo[n] > n
  BY <1>10
<1> QED BY <1>6, <1>7, <1>11

\* A power of two is a multiple of each smaller one.
LEMMA PowersDivide ==
    ASSUME NEW a \in Nat, NEW b \in Nat, a <= b
    PROVE  /\ \E c \in Nat \ {0} : PowerOfTwo[b] = c * PowerOfTwo[a]
           /\ PowerOfTwo[a] <= PowerOfTwo[b]
<1> DEFINE A == {k \in Nat : \E c \in Nat \ {0} : PowerOfTwo[a + k] = c * PowerOfTwo[a]}
<1>1. PICK p \in Nat \ {0} : p = PowerOfTwo[a]
  BY PowersAre
<1>2. 0 \in A
  <2>1. a + 0 = a /\ PowerOfTwo[a] = 1 * PowerOfTwo[a]
    BY <1>1
  <2> QED BY <2>1
<1>3. ASSUME NEW k \in Nat, k \in A PROVE k + 1 \in A
  <2>1. PICK c \in Nat \ {0} : PowerOfTwo[a + k] = c * p
    BY <1>1, <1>3
  <2>2. PICK m \in Nat : m = a + k /\ m + 1 = a + (k + 1)
    OBVIOUS
  <2>3. PowerOfTwo[m + 1] = 2 * (c * p)
    BY PowersAre, <2>1, <2>2
  <2>4. 2 * (c * p) = (2 * c) * p /\ 2 * c \in Nat \ {0}
    OBVIOUS
  <2> QED BY <1>1, <2>2, <2>3, <2>4
<1>4. \A k \in Nat : k \in A
  <2> HIDE DEF A
  <2> QED BY <1>2, <1>3, SetInduction
<1>5. PICK k \in Nat : a + k = b
  <2>1. b - a \in Nat /\ a + (b - a) = b
    OBVIOUS
  <2> QED BY <2>1
<1>6. PICK c \in Nat \ {0} : PowerOfTwo[b] = c * p
  BY <1>1, <1>4, <1>5
<1>7. p <= c * p
  <2>1. PICK x \in Nat : c = x + 1
    <3>1. c - 1 \in Nat /\ c = (c - 1) + 1
      OBVIOUS
    <3> QED BY <3>1
  <2>2. (x + 1) * p = x * p + p /\ x * p \in Nat
    OBVIOUS
  <2> QED BY <2>1, <2>2
<1> QED BY <1>1, <1>6, <1>7

\* The number of bits of n.
LEMMA BitLengthIs ==
    ASSUME NEW n \in Nat
    PROVE  /\ BitLength(n) \in 0 .. n
           /\ PowerOfTwo[BitLength(n)] > n
           /\ BitLength(n) = 0 \/ PowerOfTwo[BitLength(n) - 1] <= n
<1> DEFINE S == {k \in Nat : PowerOfTwo[k] > n}
<1>1. n \in S /\ S \in SUBSET Nat
  BY PowersAre
<1>2. PICK k \in S : \A y \in S : k <= y
  <2> HIDE DEF S
  <2> QED BY <1>1, LeastElement
<1>3. k \in 0 .. n /\ PowerOfTwo[k] > n
  BY <1>1, <1>2
<1>4. k = 0 \/ PowerOfTwo[k - 1] <= n
  <2> SUFFICES ASSUME k # 0 PROVE PowerOfTwo[k - 1] <= n
    OBVIOUS
  <2>1. k - 1 \in Nat /\ ~(k <= k - 1)
    BY <1>3
  <2>2. k - 1 \notin S
    BY <1>2, <2>1
  <2>3. PowerOfTwo[k - 1] \in Nat
    BY <2>1, PowersAre
  <2> QED BY <2>1, <2>2, <2>3
<1> HIDE DEF S
<1>5. \E i \in 0 .. n : PowerOfTwo[i] > n /\ (i = 0 \/ PowerOfTwo[i - 1] <= n)
  BY <1>3, <1>4
<1> QED BY <1>5 DEF BitLength

\* The sizes of the arrays of bins.
Half == BINS_1D_DIM * BINS_1D_DIM

\* The constants, and the bins of the two methods.
LEMMA HalfIs ==
    ASSUME TriangleAssumption
    PROVE  /\ BINS_1D_DIM \in Nat \ {0, 1} /\ BLOCK_SIZE_OP2 \in Nat \ {0, 1}
           /\ LOG_OFFSET_BALANCED \in Nat /\ LOG_OFFSET_IMBALANCED \in Nat
           /\ WorkFactors \subseteq Nat
           /\ Half \in Nat \ {0}
           /\ MAX_ADJ_UNIONS_BINS = Half + Half /\ MAX_ADJ_UNIONS_BINS \div 2 = Half
           /\ Bins = 0 .. Half + Half - 1
           /\ \A a, b \in 0 .. BINS_1D_DIM - 1 : a * BINS_1D_DIM + b \in 0 .. Half - 1
           /\ \A a \in 0 .. BINS_1D_DIM : a * BINS_1D_DIM \in 0 .. Half
<1>1. /\ BINS_1D_DIM \in Nat \ {0, 1} /\ BLOCK_SIZE_OP2 \in Nat \ {0, 1}
      /\ LOG_OFFSET_BALANCED \in Nat /\ LOG_OFFSET_IMBALANCED \in Nat
      /\ WorkFactors \subseteq Nat
  BY DEF TriangleAssumption
<1>2. PICK d \in Nat \ {0, 1} : d = BINS_1D_DIM
  BY <1>1
<1>3. PICK h \in Nat : h = d * d
  BY <1>2
<1>4. h = Half /\ Half # 0
  <2>1. 1 * d + d <= d * d
    <3>1. 1 < d
      BY <1>2
    <3> QED BY <3>1, Multiples
  <2> QED BY <1>2, <1>3, <2>1 DEF Half
<1>5. 2 * d * d = h + h
  BY <1>3
<1>6. MAX_ADJ_UNIONS_BINS = h + h
  BY <1>2, <1>5 DEF MAX_ADJ_UNIONS_BINS
<1>7. (h + h) \div 2 = h
  OBVIOUS
<1>8. Bins = 0 .. h + h - 1
  BY <1>6 DEF Bins
<1>9. ASSUME NEW a \in 0 .. d PROVE a * d \in 0 .. h
  <2>1. a = d \/ (a < d /\ a \in Int)
    OBVIOUS
  <2>2. CASE a = d
    BY <1>3, <2>2
  <2>3. CASE a < d
    <3>1. a * d \in Int /\ a * d + d <= d * d
      BY <2>3, Multiples
    <3>2. a * d \in Nat
      OBVIOUS
    <3> QED BY <1>3, <3>1, <3>2
  <2> QED BY <2>1, <2>2, <2>3
<1>10. ASSUME NEW a \in 0 .. d - 1, NEW b \in 0 .. d - 1 PROVE a * d + b \in 0 .. h - 1
  <2>1. a * d \in Int /\ a * d + d <= d * d
    <3>1. a < d /\ a \in Int /\ d \in Int
      OBVIOUS
    <3> QED BY <3>1, Multiples
  <2>2. a * d \in Nat
    OBVIOUS
  <2> QED BY <1>3, <2>1, <2>2
<1> QED BY <1>1, <1>2, <1>4, <1>6, <1>7, <1>8, <1>9, <1>10

\* A length class is one of the table.
LEMMA LogIs ==
    ASSUME TriangleAssumption, NEW n \in Nat
    PROVE  Log(n) \in 0 .. BINS_1D_DIM - 1
<1>1. BitLength(n) \in Nat /\ BINS_1D_DIM - 1 \in Nat
  <2>1. BitLength(n) \in 0 .. n
    BY BitLengthIs
  <2>2. BINS_1D_DIM \in Nat \ {0, 1}
    BY HalfIs
  <2> QED BY <2>1, <2>2
<1> QED BY <1>1 DEF Log, Lesser

\* The bins of the edges that are searched are the upper half.
LEMMA BinIs ==
    ASSUME TriangleAssumption, GraphOK, workFactor \in Nat, NEW e \in Edges
    PROVE  /\ BinIndex(e) \in Bins
           /\ BinIndex(e) < Half => Len(adj[U(e)]) # 0
<1>1. PICK s \in Nat, l \in Nat : s = ShorterLen(e) /\ l = LongerLen(e) /\ s = Len(adj[U(e)])
  BY UnionIs, CellsGrow
<1>2. PICK a \in 0 .. BINS_1D_DIM - 1, b \in 0 .. BINS_1D_DIM - 1 : a = Log(s) /\ b = Log(l)
  BY LogIs
<1>3. PICK h \in Nat \ {0} : h = Half /\ MAX_ADJ_UNIONS_BINS \div 2 = h /\ Bins = 0 .. h + h - 1
  BY HalfIs
<1>4. PICK x \in 0 .. h - 1, y \in 0 .. h - 1 : x = a * BINS_1D_DIM + b /\ y = b * BINS_1D_DIM + a
  BY <1>3, HalfIs
<1>5. CASE BySearch(e)
  <2>1. BinIndex(e) = h + a * BINS_1D_DIM + b
    BY <1>1, <1>2, <1>3, <1>5 DEF BinIndex
  <2>2. h + a * BINS_1D_DIM + b = h + x
    <3>1. PICK d \in Nat : d = BINS_1D_DIM
      BY HalfIs
    <3>2. h + a * d + b = h + (a * d + b)
      OBVIOUS
    <3> QED BY <1>4, <3>1, <3>2
  <2> QED BY <1>3, <2>1, <2>2
<1>6. CASE ~BySearch(e)
  <2>1. s # 0
    <3> SUFFICES ASSUME s = 0 PROVE BySearch(e)
      BY <1>6
    <3>1. PICK w \in Nat : w = workFactor
      OBVIOUS
    <3>2. w * (s + l + a) \in Nat /\ s * b = 0
      <4>1. s + l + a \in Nat /\ 0 * b = 0
        OBVIOUS
      <4> QED BY <4>1
    <3> QED BY <1>1, <1>2, <3>1, <3>2 DEF BySearch
  <2>2. BinIndex(e) = 0 \/ BinIndex(e) = y
    BY <1>1, <1>2, <1>4, <1>6 DEF BinIndex
  <2> QED BY <1>1, <1>3, <2>1, <2>2
<1> QED BY <1>5, <1>6

-----------------------------------------------------------------------------
(* The queue: the edges sorted into their bins by the atomics.             *)

\* Items E in the bins 0 .. m - 1.
Binned(E, bin, m) == IsFiniteSet(E) /\ m \in Nat /\ \A e \in E : bin[e] \in 0 .. m - 1

\* The items in the bins before b, and those of S in bin b.
Below(E, bin, b) == {e \in E : bin[e] < b}
InBin(S, bin, b) == {e \in S : bin[e] = b}

\* Where bin b begins.
First(E, bin, b) == Cardinality(Below(E, bin, b))

\* A bin begins where the one before it ends.
LEMMA BelowIs ==
    ASSUME NEW E, NEW bin, NEW m, Binned(E, bin, m), NEW b \in 0 .. m
    PROVE  /\ IsFiniteSet(Below(E, bin, b)) /\ First(E, bin, b) \in Nat
           /\ First(E, bin, 0) = 0
           /\ First(E, bin, m) = Cardinality(E)
           /\ First(E, bin, b + 1) = First(E, bin, b) + Cardinality(InBin(E, bin, b))
           /\ \A S \in SUBSET E : /\ IsFiniteSet(InBin(S, bin, b)) /\ Cardinality(InBin(S, bin, b)) \in Nat
                                  /\ Cardinality(InBin(S, bin, b)) <= Cardinality(InBin(E, bin, b))
<1>1. IsFiniteSet(E) /\ m \in Nat /\ \A e \in E : bin[e] \in 0 .. m - 1
  BY DEF Binned
<1>4. IsFiniteSet(Below(E, bin, b)) /\ IsFiniteSet(InBin(E, bin, b))
  BY <1>1, FS_Subset DEF Below, InBin
<1>5. Below(E, bin, 0) = {}
  BY <1>1 DEF Below
<1>6. Below(E, bin, m) = E
  BY <1>1 DEF Below
<1>7. Below(E, bin, b + 1) = Below(E, bin, b) \cup InBin(E, bin, b)
  <2>1. ASSUME NEW e \in E PROVE bin[e] < b + 1 <=> bin[e] < b \/ bin[e] = b
    BY <1>1
  <2> QED BY <2>1 DEF Below, InBin
<1>8. Below(E, bin, b) \cap InBin(E, bin, b) = {}
  <2>1. ASSUME NEW e \in E PROVE ~(bin[e] < b /\ bin[e] = b)
    BY <1>1
  <2> QED BY <2>1 DEF Below, InBin
<1>9. First(E, bin, b + 1) = First(E, bin, b) + Cardinality(InBin(E, bin, b))
  <2>1. PICK S, T : S = Below(E, bin, b) /\ T = InBin(E, bin, b)
    OBVIOUS
  <2>2. IsFiniteSet(S) /\ IsFiniteSet(T) /\ S \cap T = {}
    BY <1>4, <1>8, <2>1
  <2>3. Cardinality(S) \in Nat /\ Cardinality(T) \in Nat /\ Cardinality({}) = 0
    BY <2>2, FS_CardinalityType, FS_EmptySet
  <2>4. Cardinality(S \cup T) = Cardinality(S) + Cardinality(T) - Cardinality(S \cap T)
    BY <2>2, FS_Union
  <2>5. Cardinality(S \cup T) = Cardinality(S) + Cardinality(T)
    <3>1. Cardinality(S \cap T) = 0
      BY <2>2, <2>3
    <3>2. PICK a \in Nat, b2 \in Nat : a = Cardinality(S) /\ b2 = Cardinality(T)
      BY <2>3
    <3>3. Cardinality(S \cup T) = a + b2 - 0
      BY ONLY <2>4, <3>1, <3>2
    <3> QED BY <3>2, <3>3
  <2> QED BY <1>7, <2>1, <2>5 DEF First
<1>10. ASSUME NEW S \in SUBSET E
       PROVE  /\ IsFiniteSet(InBin(S, bin, b)) /\ Cardinality(InBin(S, bin, b)) \in Nat
              /\ Cardinality(InBin(S, bin, b)) <= Cardinality(InBin(E, bin, b))
  <2>1. InBin(S, bin, b) \subseteq InBin(E, bin, b)
    BY DEF InBin
  <2> QED BY <1>4, <2>1, FS_Subset, FS_CardinalityType
<1>11. First(E, bin, b) \in Nat /\ First(E, bin, 0) = 0 /\ First(E, bin, m) = Cardinality(E)
  BY <1>4, <1>5, <1>6, FS_EmptySet, FS_CardinalityType DEF First
<1> QED BY <1>4, <1>9, <1>10, <1>11

\* The bins lie in their order.
LEMMA FirstGrows ==
    ASSUME NEW E, NEW bin, NEW m, Binned(E, bin, m), NEW a \in 0 .. m, NEW b \in 0 .. m, a <= b
    PROVE  First(E, bin, a) <= First(E, bin, b)
<1>1. IsFiniteSet(Below(E, bin, b))
  BY BelowIs
<1>2. Below(E, bin, a) \subseteq Below(E, bin, b)
  <2>1. \A e \in E : bin[e] \in Nat
    BY DEF Binned
  <2> QED BY <2>1 DEF Below
<1> QED BY <1>1, <1>2, FS_Subset DEF First

\* The host's sums of the sizes are where the bins begin.
LEMMA SumOfBins ==
    ASSUME NEW E, NEW bin, NEW m, Binned(E, bin, m), NEW b \in 0 .. m, NEW size,
           \A k \in 0 .. m - 1 : size[k] = Cardinality(InBin(E, bin, k))
    PROVE  SumFunctionOnSet(size, 0 .. b - 1) = First(E, bin, b)
<1>1. IsFiniteSet(E) /\ m \in Nat /\ \A e \in E : bin[e] \in 0 .. m - 1
  BY DEF Binned
<1>2. PICK K, S : K = 0 .. b - 1 /\ S = Below(E, bin, b)
  OBVIOUS
<1>3. IsFiniteSet(K) /\ IsFiniteSet(S)
  <2>1. IsFiniteSet(0 .. b - 1)
    BY FS_Interval
  <2> QED BY <1>2, <2>1, BelowIs
<1>5. \A e \in S : bin[e] \in K
  <2>2. \A e \in S : e \in E /\ bin[e] < b
    BY <1>2 DEF Below
  <2> QED BY <1>1, <1>2, <2>2
<1>6. SumFunctionOnSet([k \in K |-> Cardinality({e \in S : bin[e] = k})], K) = Cardinality(S)
  BY ONLY <1>3, <1>5, CountGroups
<1>7. ASSUME NEW k \in K PROVE size[k] = Cardinality({e \in S : bin[e] = k}) /\ size[k] \in Int
  <2>1. k \in 0 .. m /\ k \in 0 .. m - 1 /\ k < b
    BY <1>1, <1>2
  <2>2. {e \in S : bin[e] = k} = InBin(E, bin, k)
    BY <1>2, <2>1 DEF InBin, Below
  <2>3. size[k] = Cardinality(InBin(E, bin, k))
    BY <2>1
  <2>4. Cardinality(InBin(E, bin, k)) \in Nat
    BY <2>1, BelowIs
  <2> QED BY <2>2, <2>3, <2>4
<1>8. SumFunctionOnSet(size, K) = SumFunctionOnSet([k \in K |-> Cardinality({e \in S : bin[e] = k})], K)
  <2> DEFINE g == [k \in K |-> Cardinality({e \in S : bin[e] = k})]
  <2>1. \A k \in K : size[k] \in Int /\ g[k] = size[k]
    BY <1>7
  <2> HIDE DEF g
  <2>2. SumFunctionOnSet(size, K) = SumFunctionOnSet(g, K)
    BY <1>3, <2>1, SumSame
  <2> QED BY <2>2 DEF g
<1> QED BY <1>2, <1>6, <1>8 DEF First

\* The items of S have been placed: those of a bin lie from its begin on.
Placed(E, bin, m, S, pos, queue) ==
    /\ pos \in [0 .. m -> Nat]
    /\ \A b \in 0 .. m - 1 : pos[b] = First(E, bin, b) + Cardinality(InBin(S, bin, b))
    /\ \A i \in DOMAIN queue : /\ queue[i] \in S /\ i \in Nat
                               /\ First(E, bin, bin[queue[i]]) <= i /\ i < pos[bin[queue[i]]]
    /\ \A b \in 0 .. m - 1 : \A i \in First(E, bin, b) .. pos[b] - 1 : i \in DOMAIN queue
    /\ \A i, j \in DOMAIN queue : queue[i] = queue[j] => i = j
    /\ \A e \in S : \E i \in DOMAIN queue : queue[i] = e

\* The queue, when all of them have been placed.
Queued(E, bin, m, pos, queue) ==
    /\ \A b \in 0 .. m : pos[b] = First(E, bin, b)
    /\ DOMAIN queue = 0 .. Cardinality(E) - 1
    /\ \A i \in DOMAIN queue : /\ queue[i] \in E
                               /\ \A b \in 0 .. m : i < pos[b] <=> bin[queue[i]] < b
    /\ \A i, j \in DOMAIN queue : queue[i] = queue[j] => i = j
    /\ \A e \in E : \E i \in DOMAIN queue : queue[i] = e

\* The placing kernel begins.
LEMMA NothingPlaced ==
    ASSUME NEW E, NEW bin, NEW m, Binned(E, bin, m), NEW pos \in [0 .. m -> Nat],
           \A b \in 0 .. m : pos[b] = First(E, bin, b)
    PROVE  Placed(E, bin, m, {}, pos, <<>>)
<1>1. m \in Nat
  BY DEF Binned
<1>2. \A b \in 0 .. m - 1 : InBin({}, bin, b) = {}
  BY DEF InBin
<1>3. ASSUME NEW b \in 0 .. m - 1
      PROVE  /\ pos[b] = First(E, bin, b) + Cardinality(InBin({}, bin, b))
             /\ \A i \in First(E, bin, b) .. pos[b] - 1 : FALSE
  <2>1. b \in 0 .. m
    BY <1>1
  <2>2. PICK x \in Nat : x = pos[b] /\ x = First(E, bin, b)
    BY <2>1
  <2>3. Cardinality(InBin({}, bin, b)) = 0
    BY <1>2, FS_EmptySet
  <2>4. x .. x - 1 = {} /\ x + 0 = x
    OBVIOUS
  <2> QED BY ONLY <2>2, <2>3, <2>4
<1>4. DOMAIN <<>> = {}
  OBVIOUS
<1> QED BY <1>3, <1>4 DEF Placed

\* Item e has taken the next position of its bin.
OneMore(e, bin, pos, queue, pos2, queue2) ==
    /\ pos2 = [pos EXCEPT ![bin[e]] = @ + 1]
    /\ queue2 = [i \in DOMAIN queue \cup {pos[bin[e]]} |->
                    IF i = pos[bin[e]] THEN e ELSE queue[i]]

\* One of its threads places its edge.
LEMMA OnePlaced ==
    ASSUME NEW E, NEW bin, NEW m, Binned(E, bin, m), NEW S \in SUBSET E, NEW e \in E \ S,
           NEW pos, NEW queue, Placed(E, bin, m, S, pos, queue),
           NEW pos2, NEW queue2, OneMore(e, bin, pos, queue, pos2, queue2)
    PROVE  Placed(E, bin, m, S \cup {e}, pos2, queue2)
<1>0. PICK p : /\ p = pos[bin[e]] /\ pos2 = [pos EXCEPT ![bin[e]] = @ + 1]
               /\ queue2 = [i \in DOMAIN queue \cup {p} |-> IF i = p THEN e ELSE queue[i]]
  BY DEF OneMore
<1>1. m \in Nat /\ \A x \in E : bin[x] \in 0 .. m - 1
  BY DEF Binned
<1>2. PICK c \in 0 .. m - 1 : c = bin[e]
  BY <1>1
<1>3. /\ pos \in [0 .. m -> Nat]
      /\ \A b \in 0 .. m - 1 : pos[b] = First(E, bin, b) + Cardinality(InBin(S, bin, b))
      /\ \A i \in DOMAIN queue : /\ queue[i] \in S /\ i \in Nat
                                 /\ First(E, bin, bin[queue[i]]) <= i /\ i < pos[bin[queue[i]]]
      /\ \A b \in 0 .. m - 1 : \A i \in First(E, bin, b) .. pos[b] - 1 : i \in DOMAIN queue
      /\ \A i, j \in DOMAIN queue : queue[i] = queue[j] => i = j
      /\ \A x \in S : \E i \in DOMAIN queue : queue[i] = x
  BY DEF Placed
<1>4. \A b \in 0 .. m - 1 : b \in 0 .. m /\ b + 1 \in 0 .. m
  BY <1>1
<1>5. p \in Nat /\ p = First(E, bin, c) + Cardinality(InBin(S, bin, c))
  BY <1>0, <1>2, <1>3, <1>4
<1>6. pos2 \in [0 .. m -> Nat] /\ \A b \in 0 .. m : pos2[b] = IF b = c THEN p + 1 ELSE pos[b]
  BY <1>0, <1>2, <1>3, <1>4, <1>5
<1>7. ASSUME NEW b \in 0 .. m - 1
      PROVE  /\ IsFiniteSet(InBin(S, bin, b)) /\ Cardinality(InBin(S, bin, b)) \in Nat
             /\ First(E, bin, b) \in Nat /\ First(E, bin, b + 1) \in Nat
             /\ First(E, bin, b) + Cardinality(InBin(S, bin, b)) <= First(E, bin, b + 1)
  <2>1. b \in 0 .. m /\ b + 1 \in 0 .. m
    BY <1>4
  <2>2. /\ IsFiniteSet(InBin(S, bin, b)) /\ Cardinality(InBin(S, bin, b)) \in Nat
        /\ Cardinality(InBin(S, bin, b)) <= Cardinality(InBin(E, bin, b))
        /\ Cardinality(InBin(E, bin, b)) \in Nat
    BY <2>1, BelowIs
  <2>3. First(E, bin, b) \in Nat /\ First(E, bin, b + 1) = First(E, bin, b) + Cardinality(InBin(E, bin, b))
    BY <2>1, BelowIs
  <2> QED BY <2>2, <2>3
<1>8. ASSUME NEW b \in 0 .. m - 1
      PROVE  Cardinality(InBin(S \cup {e}, bin, b))
               = Cardinality(InBin(S, bin, b)) + IF b = c THEN 1 ELSE 0
  <2>1. CASE b = c
    <3>1. PICK T : T = InBin(S, bin, b)
      OBVIOUS
    <3>2. InBin(S \cup {e}, bin, b) = T \cup {e} /\ e \notin T
      BY <1>2, <2>1, <3>1 DEF InBin
    <3>3. IsFiniteSet(T)
      BY <1>7, <3>1
    <3>4. Cardinality(T \cup {e}) = Cardinality(T) + 1
      BY <3>2, <3>3, FS_AddElement
    <3> QED BY <2>1, <3>1, <3>2, <3>4
  <2>2. CASE b # c
    <3>1. InBin(S \cup {e}, bin, b) = InBin(S, bin, b)
      BY <1>2, <2>2 DEF InBin
    <3> QED BY <1>7, <2>2, <3>1
  <2> QED BY <2>1, <2>2
<1>9. p < First(E, bin, c + 1)
  <2>1. S \cup {e} \in SUBSET E
    OBVIOUS
  <2>2. c \in 0 .. m /\ c + 1 \in 0 .. m
    BY <1>4
  <2>3. Cardinality(InBin(S \cup {e}, bin, c)) <= Cardinality(InBin(E, bin, c))
    BY <2>1, <2>2, BelowIs
  <2>4. First(E, bin, c + 1) = First(E, bin, c) + Cardinality(InBin(E, bin, c))
    BY <2>2, BelowIs
  <2>5. /\ Cardinality(InBin(E, bin, c)) \in Nat /\ Cardinality(InBin(S, bin, c)) \in Nat
        /\ First(E, bin, c) \in Nat
    BY <2>2, BelowIs
  <2>6. Cardinality(InBin(S \cup {e}, bin, c)) = Cardinality(InBin(S, bin, c)) + 1
    BY <1>8
  <2> QED BY <1>5, <2>3, <2>4, <2>5, <2>6
\* The position is still free.
<1>10. ASSUME p \in DOMAIN queue PROVE FALSE
  <2>1. PICK b \in 0 .. m - 1 : b = bin[queue[p]]
    BY <1>1, <1>3, <1>10
  <2>2. First(E, bin, b) <= p /\ p < pos[b] /\ pos[b] <= First(E, bin, b + 1)
    BY <1>3, <1>7, <1>10, <2>1
  <2>3. pos[b] \in Nat /\ First(E, bin, b) \in Nat /\ First(E, bin, b + 1) \in Nat
        /\ First(E, bin, c) \in Nat /\ First(E, bin, c + 1) \in Nat /\ First(E, bin, c) <= p
    BY <1>3, <1>4, <1>5, <1>7
  <2>4. CASE b = c
    BY <1>0, <1>2, <2>2, <2>4, <1>5
  <2>5. CASE b < c
    <3>1. First(E, bin, b + 1) <= First(E, bin, c)
      <4>1. b + 1 <= c /\ b + 1 \in 0 .. m /\ c \in 0 .. m
        BY <1>4, <2>5
      <4> QED BY <4>1, FirstGrows
    <3> QED BY <1>5, <2>2, <2>3, <3>1
  <2>6. CASE c < b
    <3>1. First(E, bin, c + 1) <= First(E, bin, b)
      <4>1. c + 1 <= b /\ c + 1 \in 0 .. m /\ b \in 0 .. m
        BY <1>4, <2>6
      <4> QED BY <4>1, FirstGrows
    <3> QED BY <1>5, <1>9, <2>2, <2>3, <3>1
  <2> QED BY <2>4, <2>5, <2>6
<1>11. /\ DOMAIN queue2 = DOMAIN queue \cup {p} /\ queue2[p] = e
       /\ \A i \in DOMAIN queue : queue2[i] = queue[i]
  BY <1>0, <1>10
<1>12. \A b \in 0 .. m - 1 : pos2[b] = First(E, bin, b) + Cardinality(InBin(S \cup {e}, bin, b))
  <2> SUFFICES ASSUME NEW b \in 0 .. m - 1
               PROVE  pos2[b] = First(E, bin, b) + Cardinality(InBin(S \cup {e}, bin, b))
    OBVIOUS
  <2>1. pos2[b] = (IF b = c THEN p + 1 ELSE pos[b]) /\ pos[b] = First(E, bin, b) + Cardinality(InBin(S, bin, b))
    BY <1>3, <1>4, <1>6
  <2>2. First(E, bin, b) \in Nat /\ Cardinality(InBin(S, bin, b)) \in Nat
    BY <1>7
  <2>3. Cardinality(InBin(S \cup {e}, bin, b))
               = Cardinality(InBin(S, bin, b)) + IF b = c THEN 1 ELSE 0
    BY <1>8
  <2> QED BY <1>5, <2>1, <2>2, <2>3
<1>13. ASSUME NEW i \in DOMAIN queue2
       PROVE  /\ queue2[i] \in S \cup {e} /\ i \in Nat
              /\ First(E, bin, bin[queue2[i]]) <= i /\ i < pos2[bin[queue2[i]]]
  <2>1. CASE i = p
    <3>1. bin[queue2[i]] = c /\ pos2[c] = p + 1 /\ First(E, bin, c) <= p
      <4>1. First(E, bin, c) \in Nat /\ Cardinality(InBin(S, bin, c)) \in Nat
        BY <1>7
      <4> QED BY <1>2, <1>4, <1>5, <1>6, <1>11, <2>1, <4>1
    <3> QED BY <1>5, <1>11, <2>1, <3>1
  <2>2. CASE i # p
    <3>1. i \in DOMAIN queue /\ queue2[i] = queue[i] /\ queue[i] \in S
      BY <1>3, <1>11, <2>2
    <3>2. PICK b \in 0 .. m - 1 : b = bin[queue[i]]
      BY <1>1, <3>1
    <3>3. i \in Nat /\ First(E, bin, b) <= i /\ i < pos[b] /\ pos[b] \in Nat
      BY <1>3, <1>4, <3>1, <3>2
    <3>4. pos2[b] = IF b = c THEN p + 1 ELSE pos[b]
      BY <1>4, <1>6
    <3>5. b = c => pos[b] = p
      BY <1>0, <1>2
    <3> QED BY <3>1, <3>2, <3>3, <3>4, <3>5
  <2> QED BY <2>1, <2>2
<1>14. ASSUME NEW b \in 0 .. m - 1, NEW i \in First(E, bin, b) .. pos2[b] - 1
       PROVE  i \in DOMAIN queue2
  <2>1. pos2[b] = (IF b = c THEN p + 1 ELSE pos[b]) /\ pos[b] \in Nat /\ First(E, bin, b) \in Nat
    BY <1>3, <1>4, <1>6, <1>7
  <2>2. b = c => pos[b] = p
    BY <1>0, <1>2
  <2>3. i = p \/ i \in First(E, bin, b) .. pos[b] - 1
    BY <1>5, <2>1, <2>2
  <2> QED BY <1>3, <1>11, <2>3
<1>15. ASSUME NEW i \in DOMAIN queue2, NEW j \in DOMAIN queue2, queue2[i] = queue2[j] PROVE i = j
  <2>1. \A k \in DOMAIN queue : queue[k] # e
    BY <1>3
  <2> QED BY <1>3, <1>11, <1>15, <2>1
<1>16. ASSUME NEW x \in S \cup {e} PROVE \E i \in DOMAIN queue2 : queue2[i] = x
  BY <1>3, <1>11
<1> QED BY <1>6, <1>12, <1>13, <1>14, <1>15, <1>16 DEF Placed

\* All edges are placed: the bins are filled, and the queue is sorted.
LEMMA AllPlaced ==
    ASSUME NEW E, NEW bin, NEW m, Binned(E, bin, m), NEW pos, NEW queue,
           Placed(E, bin, m, E, pos, queue),
           NEW begin, \A b \in 0 .. m : begin[b] = First(E, bin, b)
    PROVE  Queued(E, bin, m, begin, queue)
<1>1. m \in Nat /\ \A x \in E : bin[x] \in 0 .. m - 1
  BY DEF Binned
<1>2. /\ pos \in [0 .. m -> Nat]
      /\ \A b \in 0 .. m - 1 : pos[b] = First(E, bin, b) + Cardinality(InBin(E, bin, b))
      /\ \A i \in DOMAIN queue : /\ queue[i] \in E /\ i \in Nat
                                 /\ First(E, bin, bin[queue[i]]) <= i /\ i < pos[bin[queue[i]]]
      /\ \A b \in 0 .. m - 1 : \A i \in First(E, bin, b) .. pos[b] - 1 : i \in DOMAIN queue
      /\ \A i, j \in DOMAIN queue : queue[i] = queue[j] => i = j
      /\ \A x \in E : \E i \in DOMAIN queue : queue[i] = x
  BY DEF Placed
<1>3. \A b \in 0 .. m - 1 : b \in 0 .. m /\ b + 1 \in 0 .. m
  BY <1>1
<1>4. \A b \in 0 .. m : First(E, bin, b) \in Nat
  BY BelowIs
<1>5. First(E, bin, 0) = 0 /\ First(E, bin, m) = Cardinality(E)
  <2>1. m \in 0 .. m
    BY <1>1
  <2> QED BY <2>1, BelowIs
<1>6. \A b \in 0 .. m - 1 : pos[b] = First(E, bin, b + 1)
  BY <1>2, <1>3, BelowIs
<1>7. ASSUME NEW i \in DOMAIN queue, NEW b \in 0 .. m
      PROVE  i < First(E, bin, b) <=> bin[queue[i]] < b
  <2>1. PICK c \in 0 .. m - 1 : c = bin[queue[i]]
    BY <1>1, <1>2
  <2>2. /\ First(E, bin, c) <= i /\ i < First(E, bin, c + 1) /\ i \in Nat
        /\ c \in 0 .. m /\ c + 1 \in 0 .. m
    BY <1>2, <1>3, <1>6, <2>1
  <2>3. First(E, bin, c) \in Nat /\ First(E, bin, c + 1) \in Nat /\ First(E, bin, b) \in Nat
    BY <1>4, <2>2
  <2>4. CASE c < b
    <3>1. c + 1 <= b
      BY <2>4
    <3>2. First(E, bin, c + 1) <= First(E, bin, b)
      BY <2>2, <3>1, FirstGrows
    <3> QED BY <2>1, <2>2, <2>3, <2>4, <3>2
  <2>5. CASE b <= c
    <3>1. First(E, bin, b) <= First(E, bin, c)
      BY <2>2, <2>5, FirstGrows
    <3>2. ~(c < b)
      BY <2>5
    <3> QED BY <2>1, <2>2, <2>3, <3>1, <3>2
  <2> QED BY <2>4, <2>5
<1>8. ASSUME NEW i \in DOMAIN queue PROVE i \in 0 .. Cardinality(E) - 1
  <2>1. m \in 0 .. m /\ bin[queue[i]] < m /\ i \in Nat
    BY <1>1, <1>2
  <2>2. i < First(E, bin, m) /\ First(E, bin, m) \in Nat
    BY <1>4, <1>7, <2>1
  <2> QED BY <1>5, <2>1, <2>2
<1>9. ASSUME NEW i \in 0 .. Cardinality(E) - 1 PROVE i \in DOMAIN queue
  <2> DEFINE S == {b \in 0 .. m : i < First(E, bin, b)}
  <2>1. m \in S /\ S \in SUBSET Nat
    <3>1. First(E, bin, m) \in Nat /\ m \in 0 .. m
      BY <1>1, <1>4
    <3>2. i < First(E, bin, m)
      BY <1>5, <3>1
    <3> QED BY <3>1, <3>2
  <2>2. PICK b \in S : \A y \in S : b <= y
    <3> HIDE DEF S
    <3> QED BY <2>1, LeastElement
  <2>3. b # 0
    BY <1>5
  <2>4. PICK c \in 0 .. m - 1 : b = c + 1
    <3>0. b \in 0 .. m
      OBVIOUS
    <3>1. b - 1 \in 0 .. m - 1 /\ b = (b - 1) + 1
      BY ONLY <1>1, <2>3, <3>0
    <3> QED BY <3>1
  <2>5. c \notin S
    <3>1. ~(b <= c)
      BY <2>4
    <3> QED BY <2>2, <3>1
  <2>6. First(E, bin, c) <= i /\ i < pos[c]
    <3>1. First(E, bin, c) \in Nat /\ c \in 0 .. m
      BY <1>3, <1>4
    <3> QED BY <1>6, <2>4, <2>5, <3>1
  <2>7. i \in First(E, bin, c) .. pos[c] - 1
    <3>1. First(E, bin, c) \in Nat /\ pos[c] \in Nat
      BY <1>2, <1>3, <1>4
    <3> QED BY <2>6, <3>1
  <2> QED BY <1>2, <2>7
<1>10. DOMAIN queue = 0 .. Cardinality(E) - 1
  BY <1>8, <1>9
<1> QED BY <1>2, <1>7, <1>10 DEF Queued

-----------------------------------------------------------------------------
(* What a thread adds, and the threads of an edge together.                *)

\* Summands that are zero may be left out.
LEMMA SumZeros ==
    ASSUME NEW S, IsFiniteSet(S), NEW T \in SUBSET S, NEW f, NEW g,
           \A x \in T : f[x] \in Int /\ g[x] = f[x], \A x \in S \ T : g[x] = 0
    PROVE  SumFunctionOnSet(f, T) = SumFunctionOnSet(g, S)
<1>1. IsFiniteSet(T) /\ IsFiniteSet(S \ T) /\ T \cap (S \ T) = {} /\ T \cup (S \ T) = S
  BY FS_Subset
<1>2. \A x \in S : g[x] \in Int
  OBVIOUS
<1>3. SumFunctionOnSet(g, S) = SumFunctionOnSet(g, T) + SumFunctionOnSet(g, S \ T)
  <2>1. SumFunctionOnSet(g, T \cup (S \ T)) = SumFunctionOnSet(g, T) + SumFunctionOnSet(g, S \ T)
    <3>1. PICK R : R = S \ T
      OBVIOUS
    <3>2. IsFiniteSet(R) /\ T \cap R = {} /\ \A x \in T \cup R : g[x] \in Int
      BY <1>1, <1>2, <3>1
    <3>3. SumFunctionOnSet(g, T \cup R) = SumFunctionOnSet(g, T) + SumFunctionOnSet(g, R)
      BY ONLY <1>1, <3>2, SumApart
    <3> QED BY ONLY <3>1, <3>3
  <2> QED BY <1>1, <2>1
<1>4. SumFunctionOnSet(g, S \ T) = 0
  <2> DEFINE A == {R \in SUBSET (S \ T) : SumFunctionOnSet(g, R) = 0}
  <2>1. {} \in A
    BY <1>1, <1>2, SumType
  <2>2. ASSUME NEW R \in SUBSET (S \ T), NEW x \in (S \ T) \ R, R \in A PROVE R \cup {x} \in A
    <3>1. IsFiniteSet(R) /\ g[x] = 0 /\ x \notin R /\ \A y \in R : g[y] \in Int
      BY <1>1, <1>2, FS_Subset
    <3>2. SumFunctionOnSet(g, R \cup {x}) = SumFunctionOnSet(g, R) + g[x]
      <4>1. g[x] \in Int
        BY <3>1
      <4> QED BY ONLY <3>1, <4>1, SumAdds
    <3> QED BY <2>2, <3>1, <3>2
  <2>3. S \ T \in A
    <3>1. PICK R : R = S \ T
      OBVIOUS
    <3>2. \A Y \in SUBSET R : \A x \in R \ Y : Y \in A => Y \cup {x} \in A
      BY <2>2, <3>1
    <3>3. IsFiniteSet(R)
      BY <1>1, <3>1
    <3> HIDE DEF A
    <3> QED BY <2>1, <3>1, <3>2, <3>3, FiniteInduction
  <2> QED BY <2>3
<1>5. SumFunctionOnSet(f, T) = SumFunctionOnSet(g, T)
  BY <1>1, SumSame
<1>6. SumFunctionOnSet(g, T) \in Int
  BY <1>1, <1>2, SumType
<1> QED BY <1>3, <1>4, <1>5, <1>6

\* The sums are of the values the threads of a union add, which is a power of
\* two of them.
LEMMA ThreadIs ==
    ASSUME TriangleAssumption, NEW k \in Nat, kernel.threads = PowerOfTwo[k],
           kernel.balanced => kernel.threads <= BLOCK_SIZE_OP2, NEW id \in Nat
    PROVE  UnionThread(id) = id % kernel.threads
<1>1. PICK p \in Nat \ {0} : p = PowerOfTwo[k] /\ p = kernel.threads
  BY PowersAre
<1>2. PICK m \in Nat, B \in Nat \ {0} : B = PowerOfTwo[m] /\ B = BLOCK_SIZE_OP2
  <2>1. PICK m \in 1 .. BLOCK_SIZE_OP2 : BLOCK_SIZE_OP2 = PowerOfTwo[m]
    BY DEF TriangleAssumption
  <2>2. m \in Nat
    BY <2>1, HalfIs
  <2> QED BY <2>1, <2>2, PowersAre
<1>3. PICK q \in Nat, l \in 0 .. B - 1 : q = id \div B /\ l = id % B /\ id = q * B + l /\ id = B * q + l
  BY QuotientOf
<1>4. ASSUME NEW x \in Nat, NEW y \in Nat, NEW z \in Nat, x = y + z * p PROVE y % p = x % p
  <2>1. PICK a \in Nat, r \in 0 .. p - 1 : a = y \div p /\ r = y % p /\ y = a * p + r /\ y = p * a + r
    BY QuotientOf
  <2>2. x = (a + z) * p + r /\ a + z \in Nat
    <3>1. (a + z) * p = a * p + z * p /\ a * p \in Nat /\ z * p \in Nat
      OBVIOUS
    <3> QED BY <1>4, <2>1, <3>1
  <2>3. r = x % p
    BY <2>2, Quotient
  <2> QED BY <2>1, <2>3
<1>5. CASE k <= m
  <2>1. PICK c \in Nat \ {0} : B = c * p
    <3>1. \E c \in Nat \ {0} : PowerOfTwo[m] = c * PowerOfTwo[k]
      BY <1>5, PowersDivide
    <3> QED BY <1>1, <1>2, <3>1
  <2>2. id = l + (q * c) * p /\ q * c \in Nat
    <3>1. q * (c * p) = (q * c) * p /\ q * c \in Nat /\ (q * c) * p \in Nat
      OBVIOUS
    <3> QED BY <1>3, <2>1, <3>1
  <2>3. l % p = id % p
    <3>1. PICK z \in Nat : z = q * c
      BY <2>2
    <3>2. id \in Nat /\ l \in Nat /\ id = l + z * p
      <4>1. l \in Nat
        BY <1>3
      <4> QED BY ONLY <2>2, <3>1, <4>1, id \in Nat
    <3> QED BY <1>4, <3>1, <3>2
  <2>4. CASE kernel.balanced
    BY <1>1, <1>2, <1>3, <2>3, <2>4 DEF UnionThread
  <2>5. CASE ~kernel.balanced
    <3>1. p <= B
      <4>1. PowerOfTwo[k] <= PowerOfTwo[m]
        BY <1>5, PowersDivide
      <4> QED BY <1>1, <1>2, <4>1
    <3>2. CeilingDiv(p, B) = 1
      <4>1. p + B - 1 = 1 * B + (p - 1) /\ p - 1 \in 0 .. B - 1 /\ p + B - 1 \in Nat
        BY <3>1
      <4>2. 1 = (p + B - 1) \div B
        BY <4>1, Quotient
      <4> QED BY <4>2 DEF CeilingDiv
    <3>3. q % 1 = 0 /\ 0 * B + l = l
      OBVIOUS
    <3> QED BY <1>1, <1>2, <1>3, <2>3, <2>5, <3>2, <3>3 DEF UnionThread
  <2> QED BY <2>4, <2>5
<1>6. CASE m < k
  <2>1. PICK c \in Nat \ {0} : p = c * B
    <3>1. \E c \in Nat \ {0} : PowerOfTwo[k] = c * PowerOfTwo[m]
      <4>1. m <= k
        BY <1>6
      <4> QED BY <4>1, PowersDivide
    <3> QED BY <1>1, <1>2, <3>1
  <2>2. B < p
    <3>1. PowerOfTwo[m + 1] <= PowerOfTwo[k]
      <4>1. m + 1 <= k
        BY <1>6
      <4> QED BY <4>1, PowersDivide
    <3>2. PowerOfTwo[m + 1] = 2 * B
      BY <1>2, PowersAre
    <3> QED BY <1>1, <3>1, <3>2
  <2>3. ~kernel.balanced
    BY <1>1, <1>2, <2>2
  <2>4. CeilingDiv(p, B) = c
    <3>1. p + B - 1 = c * B + (B - 1) /\ B - 1 \in 0 .. B - 1 /\ p + B - 1 \in Nat
      BY <2>1
    <3>2. c = (p + B - 1) \div B
      BY <3>1, Quotient
    <3> QED BY <3>2 DEF CeilingDiv
  <2>5. PICK a \in Nat, o \in 0 .. c - 1 : a = q \div c /\ o = q % c /\ q = a * c + o /\ q = c * a + o
    BY QuotientOf
  <2>6. PICK y \in Nat : y = o * B + l
    <3>1. o * B \in Nat
      OBVIOUS
    <3> QED BY <3>1
  <2>7. id = y + a * p
    <3>1. (a * c + o) * B = a * (c * B) + o * B
      OBVIOUS
    <3>2. PICK x \in Nat, z \in Nat : x = a * (c * B) /\ z = o * B
      <4>1. a * (c * B) \in Nat /\ o * B \in Nat
        OBVIOUS
      <4> QED BY <4>1
    <3>3. q * B = x + z
      BY ONLY <2>5, <3>1, <3>2
    <3>4. a * p = x
      BY ONLY <2>1, <3>2
    <3>5. id = x + z + l /\ y = z + l
      BY ONLY <1>3, <2>6, <3>2, <3>3
    <3> QED BY ONLY <3>2, <3>4, <3>5, <1>3
  <2>8. y % p = id % p
    BY <1>4, <2>7
  <2> QED BY <1>1, <1>2, <1>3, <2>3, <2>4, <2>5, <2>6, <2>8 DEF UnionThread
<1> QED BY <1>5, <1>6

\* The vertex whose count an edge raises, and by how much.
uOf      == [e \in Edges |-> U(e)]
commonOf == [e \in Edges |-> Common(e)]

\* What the edges of S add to vertex x.
Added(common, u, S, x) == SumFunctionOnSet(common, {e \in S : u[e] = x})

\* What a thread of the running kernel adds to vertex x.
Active(id) == /\ kernel.from + id \div kernel.threads < kernel.to
              /\ ~Avoided(EdgeOf(id))
Gain(x, id) == IF Active(id) /\ U(EdgeOf(id)) = x THEN Count(id) ELSE 0
gainOf == [x \in Vertices |-> [id \in Nat |-> Gain(x, id)]]

KernelOK ==
    /\ kernel.from \in Nat /\ kernel.to \in Nat /\ kernel.from < kernel.to
    /\ \E k \in Nat : /\ kernel.threads = PowerOfTwo[k]
                      /\ kernel.balanced => kernel.threads <= BLOCK_SIZE_OP2
    /\ \A i \in kernel.from .. kernel.to - 1 :
          /\ edgeQueue[i] \in Edges
          /\ kernel.balanced => Len(adj[U(edgeQueue[i])]) # 0

\* An edge that is avoided has no common neighbours.
LEMMA CommonIs ==
    ASSUME GraphOK, NEW e \in Edges
    PROVE  /\ Common(e) \in Nat
           /\ Avoided(e) => Common(e) = 0
<1>1. /\ e[1] \in Vertices /\ e[2] \in Vertices /\ e[1] # e[2] /\ Len(adj[e[1]]) # 0
      /\ \E s \in Vertices : \E i \in DOMAIN adj[s] : e = <<s, adj[s][i]>>
  BY GraphEdgesAre
<1>2. ASSUME NEW x \in Vertices PROVE IsFiniteSet(Neighbours(x)) /\ x \notin Neighbours(x)
  <2>1. PICK l : l = adj[x] /\ l \in Seq(Nat) /\ \A i \in DOMAIN l : l[i] \in Vertices \ {x}
    BY DEF GraphOK, Strict
  <2>2. Neighbours(x) = {l[i] : i \in DOMAIN l}
    BY <2>1 DEF Neighbours
  <2>3. Neighbours(x) \subseteq Vertices \ {x}
    BY <2>1, <2>2
  <2> QED BY <2>3, FS_Subset DEF GraphOK
<1>3. Common(e) \in Nat
  <2>1. IsFiniteSet(Neighbours(e[1]) \cap Neighbours(e[2]))
    BY <1>1, <1>2, FS_Subset
  <2> QED BY <2>1, FS_CardinalityType DEF Common
<1>4. ASSUME Avoided(e) PROVE Common(e) = 0
  <2>1. PICK l : l = adj[e[1]] /\ l \in Seq(Nat)
    BY <1>1 DEF GraphOK, Strict
  <2>2. Len(l) < 2 /\ Len(l) # 0
    BY <1>1, <1>4, <2>1 DEF Avoided
  <2>3. Len(l) = 1 /\ DOMAIN l = {1}
    <3>1. PICK n \in Nat : n = Len(l) /\ DOMAIN l = 1 .. n
      BY <2>1
    <3>2. n = 1 /\ 1 .. 1 = {1}
      BY <2>2, <3>1
    <3> QED BY ONLY <3>1, <3>2
  <2>4. PICK s \in Vertices : \E i \in DOMAIN adj[s] : e = <<s, adj[s][i]>>
    BY <1>1
  <2>5. PICK i \in DOMAIN adj[s] : s = e[1] /\ e[2] = adj[s][i]
    BY <2>4
  <2>6. e[2] = l[1]
    BY <2>1, <2>3, <2>5
  <2>7. Neighbours(e[1]) = {e[2]}
    BY <2>1, <2>3, <2>6 DEF Neighbours
  <2>8. Neighbours(e[1]) \cap Neighbours(e[2]) = {}
    BY <1>1, <1>2, <2>7
  <2> QED BY <2>8, FS_EmptySet DEF Common
<1> QED BY <1>3, <1>4

\* A thread counts something.
LEMMA CountType ==
    ASSUME GraphOK, NEW e \in Edges, NEW T \in Nat \ {0}, NEW t \in 0 .. T - 1
    PROVE  /\ adj[U(e)] # <<>> => BalancedCount(adj[U(e)], adj[V(e)], T, t) \in Nat
           /\ ImbalancedCount(adj[U(e)], adj[V(e)], T, t) \in Nat
<1>1. PICK u, v : u = adj[U(e)] /\ v = adj[V(e)]
  OBVIOUS
<1>2. Strict(u) /\ Strict(v) /\ Len(u) <= Len(v)
  BY <1>1, UnionIs
<1>3. u \in Seq(Nat) /\ Len(u) \in Nat /\ Len(v) \in Nat
  BY <1>2 DEF Strict
<1>4. ASSUME u # <<>> PROVE BalancedCount(u, v, T, t) \in Nat
  <2>1. Lists(u, v)
    <3>1. Len(u) # 0
      BY <1>3, <1>4
    <3> QED BY <1>2, <1>3, <3>1 DEF Lists
  <2>2. PICK S, lo, hi : /\ S = Matches(u, v, 0, 0, Len(u) - 1, Len(v) - 1)
                         /\ lo = Diagonal(u, v, T, t) /\ hi = Diagonal(u, v, T, t + 1)
    OBVIOUS
  <2>3. IsFiniteSet(S)
    <3>1. PICK a \in Nat, b \in Nat : a = Len(u) /\ b = Len(v)
      BY <1>3
    <3> QED BY <2>2, <3>1, MatchesFinite
  <2>4. BalancedCount(u, v, T, t) = Cardinality({x \in S : lo < x[1] + x[2] + 1 /\ x[1] + x[2] + 1 <= hi})
    BY <2>1, <2>2, BalancedIs
  <2>5. IsFiniteSet({x \in S : lo < x[1] + x[2] + 1 /\ x[1] + x[2] + 1 <= hi})
    BY <2>3, FS_Subset
  <2> QED BY <2>4, <2>5, FS_CardinalityType
<1>5. ImbalancedCount(u, v, T, t) \in Nat
  <2>1. PICK a, b : a = Divide(Len(u), T, t) /\ b = Divide(Len(u), T, t + 1) - 1 /\ a \in Int /\ b \in Int
    <3>1. t \in Nat /\ t + 1 \in Nat
      OBVIOUS
    <3>2. Divide(Len(u), T, t) \in Nat /\ Divide(Len(u), T, t + 1) \in Nat
      BY <1>3, <3>1, DivideIs
    <3> QED BY <3>2
  <2>2. IsFiniteSet(a .. b)
    BY <2>1, FS_Interval
  <2>3. IsFiniteSet({i \in a .. b : Found(v, Cell(u, i))})
    BY <2>2, FS_Subset
  <2> QED BY <2>1, <2>3, FS_CardinalityType DEF ImbalancedCount
<1> QED BY <1>1, <1>4, <1>5

\* The union of one edge.
LEMMA GainIs ==
    ASSUME TriangleAssumption, GraphOK, KernelOK, NEW x \in Vertices
    PROVE  /\ \A id \in Nat : gainOf[x][id] = Gain(x, id) /\ Gain(x, id) \in Int
           /\ \A id \in Nat : kernel.from + id \div kernel.threads >= kernel.to => Gain(x, id) = 0
           /\ \A q \in 0 .. kernel.to - kernel.from - 1 : \A gain :
                (\A t \in 0 .. kernel.threads - 1 : gain[t] = Gain(x, q * kernel.threads + t))
                  => SumFunctionOnSet(gain, 0 .. kernel.threads - 1)
                       = IF U(edgeQueue[kernel.from + q]) = x THEN Common(edgeQueue[kernel.from + q]) ELSE 0
<1>1. PICK k \in Nat, T \in Nat \ {0}, a \in Nat, b \in Nat :
         /\ T = PowerOfTwo[k] /\ T = kernel.threads /\ a = kernel.from /\ b = kernel.to /\ a < b
         /\ kernel.balanced => T <= BLOCK_SIZE_OP2
  <2>1. PICK k \in Nat : kernel.threads = PowerOfTwo[k] /\ (kernel.balanced => kernel.threads <= BLOCK_SIZE_OP2)
    BY DEF KernelOK
  <2>2. PowerOfTwo[k] \in Nat \ {0}
    BY PowersAre
  <2> QED BY <2>1, <2>2 DEF KernelOK
<1>2. ASSUME NEW i \in a .. b - 1
      PROVE  /\ edgeQueue[i] \in Edges
             /\ kernel.balanced => adj[U(edgeQueue[i])] # <<>>
  <2>1. edgeQueue[i] \in Edges /\ (kernel.balanced => Len(adj[U(edgeQueue[i])]) # 0)
    BY <1>1, <1>2 DEF KernelOK
  <2>2. Len(<<>>) = 0
    OBVIOUS
  <2> QED BY <2>1, <2>2
<1> DEFINE Part(e, t) == IF kernel.balanced THEN BalancedCount(adj[U(e)], adj[V(e)], T, t)
                                            ELSE ImbalancedCount(adj[U(e)], adj[V(e)], T, t)
\* What a thread adds, by its edge and its number in the union.
<1>3. ASSUME NEW q \in Nat, NEW t \in 0 .. T - 1, NEW id \in Nat, id = q * T + t, NEW e, e = edgeQueue[a + q]
      PROVE  /\ id \div T = q
             /\ EdgeOf(id) = e
             /\ Count(id) = Part(e, t)
  <2>1. q = id \div T /\ t = id % T
    BY <1>3, Quotient
  <2>2. UnionThread(id) = t
    <3>1. UnionThread(id) = id % kernel.threads
      BY <1>1, ThreadIs
    <3> QED BY <1>1, <2>1, <3>1
  <2>3. EdgeOf(id) = e
    BY <1>1, <1>3, <2>1 DEF EdgeOf
  <2> QED BY <1>1, <2>1, <2>2, <2>3 DEF Count
<1>4. ASSUME NEW id \in Nat PROVE \E q \in Nat, t \in 0 .. T - 1 : id = q * T + t /\ q = id \div T
  <2>1. \E q \in Nat, r \in 0 .. T - 1 : q = id \div T /\ r = id % T /\ id = q * T + r /\ id = T * q + r
    BY QuotientOf
  <2> QED BY <2>1
<1>5. ASSUME NEW id \in Nat PROVE gainOf[x][id] = Gain(x, id)
  BY DEF gainOf
<1>6. ASSUME NEW id \in Nat, kernel.from + id \div kernel.threads >= kernel.to PROVE Gain(x, id) = 0
  <2>1. PICK q \in Nat : q = id \div T
    BY <1>4
  <2>2. ~(a + q < b)
    BY <1>1, <1>6, <2>1
  <2> QED BY <1>1, <2>1, <2>2 DEF Gain, Active
<1>7. ASSUME NEW id \in Nat PROVE Gain(x, id) \in Int
  <2>1. PICK q \in Nat, t \in 0 .. T - 1 : id = q * T + t /\ q = id \div T
    BY <1>4
  <2>2. PICK e : e = edgeQueue[a + q]
    OBVIOUS
  <2>3. CASE a + q < b
    <3>1. a + q \in a .. b - 1
      BY <2>3
    <3>2. e \in Edges /\ (kernel.balanced => adj[U(e)] # <<>>)
      BY <1>2, <2>2, <3>1
    <3>3. Count(id) = Part(e, t)
      <4> HIDE DEF Part
      <4> QED BY ONLY <1>3, <2>1, <2>2, id \in Nat
    <3>4. Count(id) \in Nat
      BY <3>2, <3>3, CountType
    <3> QED BY <3>4 DEF Gain
  <2>4. CASE ~(a + q < b)
    BY <1>1, <2>1, <2>4 DEF Gain, Active
  <2> QED BY <2>3, <2>4
<1>8. ASSUME NEW q \in 0 .. b - a - 1, NEW gain, \A t \in 0 .. T - 1 : gain[t] = Gain(x, q * T + t)
      PROVE  SumFunctionOnSet(gain, 0 .. T - 1)
                = IF U(edgeQueue[a + q]) = x THEN Common(edgeQueue[a + q]) ELSE 0
  <2>1. PICK e : e = edgeQueue[a + q]
    OBVIOUS
  <2>2. a + q \in a .. b - 1 /\ q \in Nat /\ a + q < b
    OBVIOUS
  <2>3. e \in Edges /\ (kernel.balanced => adj[U(e)] # <<>>)
    BY <1>2, <2>1, <2>2
  <2>4. ASSUME NEW t \in 0 .. T - 1
        PROVE  gain[t] = IF ~Avoided(e) /\ U(e) = x
                         THEN IF kernel.balanced THEN BalancedCount(adj[U(e)], adj[V(e)], T, t)
                                                 ELSE ImbalancedCount(adj[U(e)], adj[V(e)], T, t)
                         ELSE 0
    <3>1. PICK id \in Nat : id = q * T + t
      <4>1. q * T \in Nat
        BY <2>2
      <4> QED BY <4>1
    <3>2. /\ id \div T = q /\ EdgeOf(id) = e
          /\ Count(id) = Part(e, t)
      <4> HIDE DEF Part
      <4> QED BY ONLY <1>3, <2>1, <2>2, <3>1, t \in 0 .. T - 1
    <3>3. Active(id) <=> ~Avoided(e)
      BY <1>1, <2>2, <3>2 DEF Active
    <3>4. gain[t] = Gain(x, id)
      BY <1>8, <3>1
    <3> QED BY <3>2, <3>3, <3>4 DEF Gain
  <2>5. CASE ~Avoided(e) /\ U(e) = x
    <3>1. CASE kernel.balanced
      <4>1. \A t \in 0 .. T - 1 : gain[t] = BalancedCount(adj[U(e)], adj[V(e)], T, t)
        BY <2>4, <2>5, <3>1
      <4>2. SumFunctionOnSet(gain, 0 .. T - 1) = Common(e)
        BY <2>3, <3>1, <4>1, SharesSum
      <4> QED BY <2>1, <2>5, <4>2
    <3>2. CASE ~kernel.balanced
      <4>1. \A t \in 0 .. T - 1 : gain[t] = ImbalancedCount(adj[U(e)], adj[V(e)], T, t)
        BY <2>4, <2>5, <3>2
      <4>2. SumFunctionOnSet(gain, 0 .. T - 1) = Common(e)
        BY <2>3, <4>1, SharesSum
      <4> QED BY <2>1, <2>5, <4>2
    <3> QED BY <3>1, <3>2
  <2>6. CASE ~(~Avoided(e) /\ U(e) = x)
    <3>1. \A t \in 0 .. T - 1 : gain[t] = 0
      BY <2>4, <2>6
    <3>2. SumFunctionOnSet(gain, 0 .. T - 1) = 0
      <4>1. IsFiniteSet(0 .. T - 1)
        BY FS_Interval
      <4>2. PICK S : S = 0 .. T - 1
        OBVIOUS
      <4>3. IsFiniteSet(S) /\ {} \in SUBSET S /\ \A t \in S \ {} : gain[t] = 0
        BY <3>1, <4>1, <4>2
      <4>4. SumFunctionOnSet(gain, {}) = SumFunctionOnSet(gain, S)
        BY <4>3, SumZeros
      <4>5. SumFunctionOnSet(gain, {}) = 0
        BY <4>1, <3>1, SumType
      <4> QED BY <4>2, <4>4, <4>5
    <3> QED BY <2>1, <2>3, <2>6, <3>2, CommonIs
  <2> QED BY <2>5, <2>6
<1>9. \A q \in 0 .. b - a - 1 : \A gain : (\A t \in 0 .. T - 1 : gain[t] = Gain(x, q * T + t))
         => SumFunctionOnSet(gain, 0 .. T - 1)
              = IF U(edgeQueue[a + q]) = x THEN Common(edgeQueue[a + q]) ELSE 0
  BY <1>8
<1>10. \A q \in 0 .. kernel.to - kernel.from - 1 : \A gain :
         (\A t \in 0 .. kernel.threads - 1 : gain[t] = Gain(x, q * kernel.threads + t))
           => SumFunctionOnSet(gain, 0 .. kernel.threads - 1)
                = IF U(edgeQueue[kernel.from + q]) = x THEN Common(edgeQueue[kernel.from + q]) ELSE 0
  <2>1. T = kernel.threads /\ a = kernel.from /\ b = kernel.to
    BY <1>1
  <2> QED BY ONLY <1>9, <2>1
<1> QED BY <1>5, <1>6, <1>7, <1>10

-----------------------------------------------------------------------------
(* What the threads of a kernel add together.                              *)

\* Row q of z rows of T numbers.
Row(q, T) == {q * T + t : t \in 0 .. T - 1}

\* The rows are the threads of one union each.
LEMMA RowsAre ==
    ASSUME NEW T \in Nat \ {0}, NEW z \in Nat
    PROVE  /\ \A q \in 0 .. z - 1 : Row(q, T) = {id \in 0 .. z * T - 1 : id \div T = q}
           /\ \A id \in 0 .. z * T - 1 : id \div T \in 0 .. z - 1
           /\ \A id \in Nat : id >= z * T => id \div T >= z
<1>1. PICK w \in Nat : w = z * T
  <2>1. z * T \in Nat
    OBVIOUS
  <2> QED BY <2>1
<1>2. ASSUME NEW id \in Nat
      PROVE  \E q \in Nat, t \in 0 .. T - 1 : q = id \div T /\ id = q * T + t
  <2>1. \E q \in Nat, r \in 0 .. T - 1 : q = id \div T /\ r = id % T /\ id = q * T + r /\ id = T * q + r
    BY QuotientOf
  <2> QED BY <2>1
<1>3. ASSUME NEW q \in Nat, NEW t \in 0 .. T - 1 PROVE q * T + t \in Nat /\ (q * T + t) \div T = q
  <2>1. PICK y \in Nat : y = q * T + t
    <3>1. q * T \in Nat
      OBVIOUS
    <3> QED BY <3>1
  <2>2. q = y \div T
    BY <2>1, Quotient
  <2> QED BY <2>1, <2>2
<1>4. ASSUME NEW q \in Nat, NEW t \in 0 .. T - 1 PROVE q * T + t < w <=> q < z
  <2>1. PICK y \in Nat : y = q * T
    <3>1. q * T \in Nat
      OBVIOUS
    <3> QED BY <3>1
  <2>2. CASE q < z
    <3>1. q * T + T <= z * T
      BY <2>2, Multiples
    <3>2. y + T <= w
      BY ONLY <1>1, <2>1, <3>1
    <3>3. y + t < w
      BY <3>2
    <3> QED BY <2>1, <2>2, <3>3
  <2>3. CASE z < q
    <3>1. z * T + T <= q * T
      BY <2>3, Multiples
    <3>2. w + T <= y
      BY ONLY <1>1, <2>1, <3>1
    <3>3. ~(y + t < w) /\ ~(q < z)
      BY <3>2, <2>3
    <3> QED BY <2>1, <3>3
  <2>4. CASE z = q
    <3>1. ~(y + t < w) /\ ~(q < z)
      BY <1>1, <2>1, <2>4
    <3> QED BY <2>1, <3>1
  <2> QED BY <2>2, <2>3, <2>4
<1>5. ASSUME NEW q \in 0 .. z - 1
      PROVE  Row(q, T) = {id \in 0 .. w - 1 : id \div T = q}
  <2>0. q \in Nat /\ q < z
    OBVIOUS
  <2>1. ASSUME NEW t \in 0 .. T - 1 PROVE q * T + t \in {id \in 0 .. w - 1 : id \div T = q}
    <3>1. q * T + t \in Nat /\ q * T + t < w /\ (q * T + t) \div T = q
      BY <1>3, <1>4, <2>0
    <3>2. PICK y \in Nat : y = q * T + t
      BY <3>1
    <3>3. y \in 0 .. w - 1
      BY <3>1, <3>2
    <3> QED BY <3>1, <3>2, <3>3
  <2>2. ASSUME NEW id \in 0 .. w - 1, id \div T = q PROVE \E t \in 0 .. T - 1 : id = q * T + t
    <3>1. id \in Nat
      OBVIOUS
    <3> QED BY <1>2, <2>2, <3>1
  <2> QED BY <2>1, <2>2 DEF Row
<1>6. ASSUME NEW id \in Nat PROVE id < w <=> id \div T < z
  <2>1. PICK q \in Nat, t \in 0 .. T - 1 : q = id \div T /\ id = q * T + t
    BY <1>2
  <2> QED BY <1>4, <2>1
<1>7. \A id \in Nat : id \div T \in Nat
  BY <1>2
<1>8. ASSUME NEW id \in 0 .. w - 1 PROVE id \div T \in 0 .. z - 1
  <2>1. id \in Nat /\ id < w
    OBVIOUS
  <2>2. PICK q \in Nat : q = id \div T
    BY <1>7, <2>1
  <2>3. q < z
    BY <1>6, <2>1, <2>2
  <2>4. q \in 0 .. z - 1
    BY <2>3
  <2> QED BY <2>2, <2>4
<1>9. ASSUME NEW id \in Nat, id >= w PROVE id \div T >= z
  <2>1. PICK q \in Nat : q = id \div T
    BY <1>7
  <2>2. ~(q < z)
    BY <1>6, <1>9, <2>1
  <2>3. q >= z
    BY <2>2
  <2> QED BY <2>1, <2>3
<1>10. /\ \A q \in 0 .. z - 1 : Row(q, T) = {id \in 0 .. w - 1 : id \div T = q}
       /\ \A id \in 0 .. w - 1 : id \div T \in 0 .. z - 1
       /\ \A id \in Nat : id >= w => id \div T >= z
  BY <1>5, <1>8, <1>9
<1> QED BY ONLY <1>1, <1>10

\* f has z rows of T numbers with the sums h, and zeros after them.
HasRows(f, n, T, z, h) ==
    /\ z * T <= n
    /\ \A id \in 0 .. n - 1 : f[id] \in Int /\ (id >= z * T => f[id] = 0)
    /\ \A q \in 0 .. z - 1 : h[q] \in Int
    /\ \A q \in 0 .. z - 1 : \A gain : (\A t \in 0 .. T - 1 : gain[t] = f[q * T + t])
           => SumFunctionOnSet(gain, 0 .. T - 1) = h[q]

\* A sum over threads is the sum of the rows.
LEMMA SumOfRows ==
    ASSUME NEW T \in Nat \ {0}, NEW z \in Nat, NEW n \in Nat, NEW f, NEW h, HasRows(f, n, T, z, h)
    PROVE  SumFunctionOnSet(f, 0 .. n - 1) = SumFunctionOnSet(h, 0 .. z - 1)
<1>0. /\ z * T <= n
      /\ \A id \in 0 .. n - 1 : f[id] \in Int /\ (id >= z * T => f[id] = 0)
      /\ \A q \in 0 .. z - 1 : h[q] \in Int
      /\ \A q \in 0 .. z - 1 : \A gain : (\A t \in 0 .. T - 1 : gain[t] = f[q * T + t])
             => SumFunctionOnSet(gain, 0 .. T - 1) = h[q]
  BY DEF HasRows
<1>1. PICK w \in Nat : w = z * T
  <2>1. z * T \in Nat
    OBVIOUS
  <2> QED BY <2>1
<1>2. PICK S, I, K, R : S = 0 .. n - 1 /\ I = 0 .. w - 1 /\ K = 0 .. z - 1 /\ R = 0 .. T - 1
  OBVIOUS
<1>3. IsFiniteSet(S) /\ IsFiniteSet(I) /\ IsFiniteSet(K) /\ IsFiniteSet(R)
  BY ONLY <1>2, FS_Interval, 0 \in Int, n - 1 \in Int, w - 1 \in Int, z - 1 \in Int, T - 1 \in Int
<1>4. I \in SUBSET S /\ (\A id \in S : f[id] \in Int) /\ \A id \in S \ I : f[id] = 0
  <2>1. w <= n
    BY ONLY <1>0, <1>1
  <2>2. I \in SUBSET S /\ \A id \in S \ I : id >= w
    BY <1>2, <2>1
  <2>3. \A id \in S : f[id] \in Int /\ (id >= w => f[id] = 0)
    BY ONLY <1>0, <1>1, <1>2
  <2> QED BY ONLY <2>2, <2>3
<1>5. SumFunctionOnSet(f, I) = SumFunctionOnSet(f, S)
  <2>1. \A x \in I : f[x] \in Int /\ f[x] = f[x]
    BY ONLY <1>4
  <2> QED BY ONLY <1>3, <1>4, <2>1, SumZeros
<1>6. PICK key : \A id \in I : key[id] = id \div T
  <2>1. \A id \in I : [i \in I |-> i \div T][id] = id \div T
    OBVIOUS
  <2> QED BY <2>1
<1>7. /\ \A id \in I : key[id] \in K
      /\ \A q \in K : Row(q, T) = {id \in I : key[id] = q}
  <2>1. /\ \A q \in 0 .. z - 1 : Row(q, T) = {id \in 0 .. z * T - 1 : id \div T = q}
        /\ \A id \in 0 .. z * T - 1 : id \div T \in 0 .. z - 1
    BY RowsAre
  <2>2. /\ \A q \in K : Row(q, T) = {id \in I : id \div T = q}
        /\ \A id \in I : id \div T \in K
    BY ONLY <1>1, <1>2, <2>1
  <2> QED BY ONLY <1>6, <2>2
<1> DEFINE g == [k \in K |-> SumFunctionOnSet(f, {id \in I : key[id] = k})]
<1>8. SumFunctionOnSet(f, I) = SumFunctionOnSet(g, K)
  <2>1. \A id \in I : f[id] \in Int
    BY ONLY <1>4
  <2> QED BY ONLY <1>3, <1>7, <2>1, SumGroups
<1>9. ASSUME NEW q \in K PROVE g[q] = h[q] /\ h[q] \in Int
  <2>1. PICK gain, bb : \A t \in R : gain[t] = f[q * T + t] /\ bb[t] = q * T + t
    <3>1. PICK gain : gain = [s \in R |-> f[q * T + s]]
      OBVIOUS
    <3>2. PICK bb : bb = [s \in R |-> q * T + s]
      OBVIOUS
    <3>3. \A t \in R : gain[t] = f[q * T + t] /\ bb[t] = q * T + t
      BY ONLY <3>1, <3>2
    <3> QED BY ONLY <3>3
  <2>2. SumFunctionOnSet(gain, R) = h[q] /\ h[q] \in Int
    BY ONLY <1>0, <1>2, <2>1, q \in K
  <2>3. {bb[t] : t \in R} = {id \in I : key[id] = q}
    <3>1. {bb[t] : t \in R} = {q * T + t : t \in R}
      BY ONLY <2>1
    <3> QED BY ONLY <1>2, <1>7, <3>1, q \in K DEF Row
  <2>4. \A t \in R : gain[t] \in Int /\ f[bb[t]] = gain[t]
    <3>1. \A t \in R : bb[t] \in I
      BY ONLY <2>3
    <3> QED BY ONLY <1>4, <2>1, <3>1
  <2>5. \A s, t \in R : bb[s] = bb[t] => s = t
    <3>1. PICK y \in Nat : y = q * T
      <4>1. q \in Nat
        BY <1>2
      <4>2. q * T \in Nat
        BY <4>1
      <4> QED BY <4>2
    <3>2. \A t \in R : bb[t] = y + t /\ t \in Nat
      BY <1>2, <2>1, <3>1
    <3> QED BY <3>2
  <2>6. SumFunctionOnSet(gain, R) = SumFunctionOnSet(f, {bb[t] : t \in R})
    BY ONLY <1>3, <2>4, <2>5, SumRenamed
  <2> QED BY <2>2, <2>3, <2>6
<1>10. SumFunctionOnSet(h, K) = SumFunctionOnSet(g, K)
  <2>1. \A q \in K : h[q] \in Int /\ g[q] = h[q]
    BY <1>9
  <2> HIDE DEF g
  <2> QED BY ONLY <1>3, <2>1, SumSame
<1> QED BY ONLY <1>2, <1>5, <1>8, <1>10

\* A sum over the places of items, for those with a given key.
HasPlaces(K, item, h, key, value, x) ==
    /\ IsFiniteSet(K)
    /\ \A p, q \in K : item[p] = item[q] => p = q
    /\ \A q \in K : /\ value[item[q]] \in Int
                    /\ h[q] = IF key[item[q]] = x THEN value[item[q]] ELSE 0

\* A sum over places of the queue is one over the edges there.
LEMMA SumOfPlaces ==
    ASSUME NEW K, NEW item, NEW h, NEW key, NEW value, NEW x, HasPlaces(K, item, h, key, value, x)
    PROVE  SumFunctionOnSet(h, K) = Added(value, key, {item[q] : q \in K}, x)
<1>0. /\ IsFiniteSet(K)
      /\ \A p, q \in K : item[p] = item[q] => p = q
      /\ \A q \in K : /\ value[item[q]] \in Int
                      /\ h[q] = IF key[item[q]] = x THEN value[item[q]] ELSE 0
  BY DEF HasPlaces
<1>1. PICK Y : Y = {q \in K : key[item[q]] = x}
  OBVIOUS
<1>2. IsFiniteSet(Y) /\ Y \in SUBSET K
  BY <1>0, <1>1, FS_Subset
<1>3. SumFunctionOnSet(h, Y) = SumFunctionOnSet(h, K)
  <2>1. (\A q \in Y : h[q] \in Int /\ h[q] = h[q]) /\ \A q \in K \ Y : h[q] = 0
    BY <1>0, <1>1
  <2> QED BY <1>0, <1>2, <2>1, SumZeros
<1>4. SumFunctionOnSet(h, Y) = SumFunctionOnSet(value, {item[q] : q \in Y})
  <2>1. /\ \A q \in Y : h[q] \in Int /\ value[item[q]] = h[q]
        /\ \A p, q \in Y : item[p] = item[q] => p = q
    BY <1>0, <1>1
  <2> QED BY ONLY <1>2, <2>1, SumRenamed
<1>5. {item[q] : q \in Y} = {e \in {item[q] : q \in K} : key[e] = x}
  BY <1>1
<1> QED BY ONLY <1>3, <1>4, <1>5 DEF Added

\* The blocks of a kernel add what their edges add.
LEMMA KernelSum ==
    ASSUME TriangleAssumption, GraphOK, KernelOK, NEW x \in Vertices, NEW n \in Nat,
           (kernel.to - kernel.from) * kernel.threads <= n,
           \A i, j \in kernel.from .. kernel.to - 1 : edgeQueue[i] = edgeQueue[j] => i = j
    PROVE  SumFunctionOnSet(gainOf[x], 0 .. n - 1)
             = Added(commonOf, uOf, {edgeQueue[i] : i \in kernel.from .. kernel.to - 1}, x)
<1>1. PICK T \in Nat \ {0}, a \in Nat, b \in Nat, z \in Nat :
         T = kernel.threads /\ a = kernel.from /\ b = kernel.to /\ z = b - a /\ b = a + z
  <2>1. PICK k \in Nat : kernel.threads = PowerOfTwo[k]
    BY DEF KernelOK
  <2>2. PICK T \in Nat \ {0} : T = kernel.threads
    BY <2>1, PowersAre
  <2>3. PICK a \in Nat, b \in Nat : a = kernel.from /\ b = kernel.to /\ a < b
    BY DEF KernelOK
  <2>4. PICK z \in Nat : z = b - a
    BY <2>3
  <2>5. b = a + z
    BY <2>4
  <2> QED BY ONLY <2>2, <2>3, <2>4, <2>5
<1>2. PICK f : f = gainOf[x]
  OBVIOUS
<1>3. PICK K, item : K = 0 .. z - 1 /\ item = [q \in K |-> edgeQueue[a + q]]
  OBVIOUS
<1>4. PICK h : h = [q \in K |-> IF uOf[item[q]] = x THEN commonOf[item[q]] ELSE 0]
  OBVIOUS
<1>5. ASSUME NEW q \in K
      PROVE  /\ a + q \in a .. b - 1 /\ item[q] = edgeQueue[a + q] /\ item[q] \in Edges
             /\ uOf[item[q]] = U(edgeQueue[a + q])
             /\ commonOf[item[q]] = Common(edgeQueue[a + q]) /\ commonOf[item[q]] \in Nat
  <2>0. item[q] = edgeQueue[a + q]
    BY ONLY <1>3, q \in K
  <2>1. a + q \in a .. b - 1 /\ item[q] = edgeQueue[a + q]
    <3>1. q \in 0 .. z - 1
      BY ONLY <1>3, q \in K
    <3>2. b = a + z
      BY <1>1
    <3>3. a + q \in a .. b - 1
      BY ONLY <3>1, <3>2, a \in Nat, z \in Nat
    <3> QED BY <2>0, <3>3
  <2>2. item[q] \in Edges
    BY <1>1, <2>1 DEF KernelOK
  <2>3. Common(item[q]) \in Nat
    BY <2>2, CommonIs
  <2> QED BY <2>1, <2>2, <2>3 DEF uOf, commonOf
<1>6. {item[q] : q \in K} = {edgeQueue[i] : i \in a .. b - 1}
  <2>1. ASSUME NEW i \in a .. b - 1 PROVE \E q \in K : i = a + q
    <3>1. b = a + z
      BY <1>1
    <3>2. i - a \in 0 .. z - 1 /\ i = a + (i - a)
      BY ONLY <3>1, i \in a .. b - 1, a \in Nat, z \in Nat
    <3> QED BY ONLY <1>3, <3>2
  <2> QED BY ONLY <1>5, <2>1
<1>7. ASSUME NEW p \in K, NEW q \in K, item[p] = item[q] PROVE p = q
  <2>1. a + p = a + q
    <3>1. /\ a + p \in kernel.from .. kernel.to - 1 /\ a + q \in kernel.from .. kernel.to - 1
          /\ edgeQueue[a + p] = edgeQueue[a + q]
      BY ONLY <1>1, <1>5, <1>7, p \in K, q \in K
    <3> QED BY <3>1
  <2>2. p \in Int /\ q \in Int
    BY <1>3
  <2> QED BY <2>1, <2>2
<1>8. ASSUME NEW id \in 0 .. n - 1 PROVE f[id] \in Int /\ (id >= z * T => f[id] = 0)
  <2>1. id \in Nat
    OBVIOUS
  <2>2. /\ f[id] = Gain(x, id) /\ f[id] \in Int
        /\ kernel.from + id \div kernel.threads >= kernel.to => f[id] = 0
    <3>1. /\ \A i \in Nat : gainOf[x][i] = Gain(x, i) /\ Gain(x, i) \in Int
          /\ \A i \in Nat : kernel.from + i \div kernel.threads >= kernel.to => Gain(x, i) = 0
      BY GainIs
    <3> QED BY ONLY <1>2, <2>1, <3>1
  <2>3. ASSUME id >= z * T PROVE kernel.from + id \div kernel.threads >= kernel.to
    <3>1. id \div T >= z
      BY <2>1, <2>3, RowsAre
    <3>2. PICK q \in Nat : q = id \div T
      BY <2>1, Quotient
    <3>3. a + q >= b
      BY <1>1, <3>1, <3>2
    <3> QED BY ONLY <1>1, <3>2, <3>3
  <2> QED BY <2>2, <2>3
<1>9. ASSUME NEW q \in K PROVE h[q] \in Int
  BY <1>4, <1>5
<1>10. ASSUME NEW q \in K, NEW gain, \A t \in 0 .. T - 1 : gain[t] = f[q * T + t]
       PROVE  SumFunctionOnSet(gain, 0 .. T - 1) = h[q]
  <2>1. ASSUME NEW t \in 0 .. T - 1 PROVE gain[t] = Gain(x, q * T + t)
    <3>1. PICK y \in Nat : y = q * T + t
      <4>1. q \in Nat
        BY <1>3
      <4>2. q * T \in Nat
        BY <4>1
      <4> QED BY <4>2
    <3>2. f[y] = Gain(x, y)
      BY <1>2, GainIs
    <3>3. gain[t] = f[q * T + t]
      BY <1>10
    <3> QED BY ONLY <3>1, <3>2, <3>3
  <2>2. \A t \in 0 .. kernel.threads - 1 : gain[t] = Gain(x, q * kernel.threads + t)
    BY ONLY <1>1, <2>1
  <2>3. q \in 0 .. kernel.to - kernel.from - 1
    BY ONLY <1>1, <1>3, q \in K
  <2>4. SumFunctionOnSet(gain, 0 .. kernel.threads - 1)
          = IF U(edgeQueue[kernel.from + q]) = x THEN Common(edgeQueue[kernel.from + q]) ELSE 0
    <3>1. \A p \in 0 .. kernel.to - kernel.from - 1 : \A it :
                (\A t \in 0 .. kernel.threads - 1 : it[t] = Gain(x, p * kernel.threads + t))
                  => SumFunctionOnSet(it, 0 .. kernel.threads - 1)
                       = IF U(edgeQueue[kernel.from + p]) = x THEN Common(edgeQueue[kernel.from + p]) ELSE 0
      BY GainIs
    <3> QED BY ONLY <2>2, <2>3, <3>1
  <2>5. SumFunctionOnSet(gain, 0 .. T - 1) = IF U(edgeQueue[a + q]) = x THEN Common(edgeQueue[a + q]) ELSE 0
    BY ONLY <1>1, <2>4
  <2>6. h[q] = IF uOf[item[q]] = x THEN commonOf[item[q]] ELSE 0
    BY ONLY <1>4, q \in K
  <2> QED BY ONLY <1>5, <2>5, <2>6, q \in K
<1>11. SumFunctionOnSet(f, 0 .. n - 1) = SumFunctionOnSet(h, K)
  <2>1. z * T <= n
    BY ONLY <1>1, (kernel.to - kernel.from) * kernel.threads <= n
  <2>2. \A id \in 0 .. n - 1 : f[id] \in Int /\ (id >= z * T => f[id] = 0)
    BY ONLY <1>8
  <2>3. \A q \in 0 .. z - 1 : h[q] \in Int
    BY ONLY <1>9, <1>3
  <2>4. \A q \in 0 .. z - 1 : \A gain : (\A t \in 0 .. T - 1 : gain[t] = f[q * T + t])
               => SumFunctionOnSet(gain, 0 .. T - 1) = h[q]
    BY ONLY <1>10, <1>3
  <2>5. SumFunctionOnSet(f, 0 .. n - 1) = SumFunctionOnSet(h, 0 .. z - 1)
    <3>1. HasRows(f, n, T, z, h)
      BY ONLY <2>1, <2>2, <2>3, <2>4 DEF HasRows
    <3> QED BY <3>1, SumOfRows
  <2> QED BY ONLY <1>3, <2>5
<1>12. SumFunctionOnSet(h, K) = Added(commonOf, uOf, {item[q] : q \in K}, x)
  <2>1. IsFiniteSet(K)
    <3>1. IsFiniteSet(0 .. z - 1)
      BY FS_Interval
    <3> QED BY <1>3, <3>1
  <2>3. \A q \in K : /\ commonOf[item[q]] \in Int
                     /\ h[q] = IF uOf[item[q]] = x THEN commonOf[item[q]] ELSE 0
    BY <1>4, <1>5
  <2>4. \A p, q \in K : item[p] = item[q] => p = q
    BY <1>7
  <2>5. HasPlaces(K, item, h, uOf, commonOf, x)
    BY ONLY <2>1, <2>3, <2>4 DEF HasPlaces
  <2> QED BY ONLY <2>5, SumOfPlaces
<1>13. {edgeQueue[i] : i \in kernel.from .. kernel.to - 1} = {item[q] : q \in K}
  BY ONLY <1>1, <1>6
<1> QED BY ONLY <1>2, <1>11, <1>12, <1>13

-----------------------------------------------------------------------------
(* The invariant of TriangleCounting.                                      *)

\* The bin of each edge, as a function.
binOf == [e \in Edges |-> BinIndex(e)]

\* The first n edges of the queue.
Taken(queue, n) == {queue[i] : i \in 0 .. n - 1}

\* The counts are those of the edges of S.
CountsOf(S) == \A x \in Vertices : triPerVertex[x] = Added(commonOf, uOf, S, x)

\* The next range begins with bin b, and the loop does not go back.
LoopAt(b) ==
    /\ start = queuePos[b]
    /\ threadsLog \in Nat \ {0}
    /\ \/ /\ phase = "balanced"
          /\ threadsLog <= BitLength(BLOCK_SIZE_OP2)
          /\ b <= Half
          /\ InLoop => b <= (threadsLog + LOG_OFFSET_BALANCED) * BINS_1D_DIM
       \/ /\ phase = "imbalanced"
          /\ Half <= b
          /\ InLoop => b <= Half + (threadsLog + LOG_OFFSET_IMBALANCED) * BINS_1D_DIM
       \/ phase = "finished" /\ b = MAX_ADJ_UNIONS_BINS

\* The blocks of the running kernel before block n have run.
BlocksOf == CeilingDiv((kernel.to - kernel.from) * kernel.threads, BLOCK_SIZE_OP2)
RunTo(n) == /\ blocks = n .. BlocksOf - 1
            /\ \A x \in Vertices :
                  triPerVertex[x] = Added(commonOf, uOf, Taken(edgeQueue, kernel.from), x)
                                    + SumFunctionOnSet(gainOf[x], 0 .. n * BLOCK_SIZE_OP2 - 1)

\* The graph; what has not begun; the counters of the bins, and the queue while
\* it is filled: the placed edges, each in its bin, and the devicePos after them.
HostOK == /\ adj \in Graphs /\ workFactor \in WorkFactors
          /\ stage \in {"ready", "scan", "place", "loop", "kernel", "done", "measured"}
NotYet == /\ stage \in {"ready", "scan", "place"} => united = SetToBag({}) /\ triPerVertex = NoCounts
          /\ stage \in {"scan", "place"} => phase = "balanced" /\ threadsLog = 1 /\ start = 0
BinsCounted == stage = "scan" =>
    /\ edgeQueue = <<>>
    /\ \A b \in Bins : sizes[b] = Cardinality(InBin(Edges, binOf, b))
BinsPlaced == stage = "place" =>
    /\ placing \subseteq Edges
    /\ \A b \in 0 .. MAX_ADJ_UNIONS_BINS : queuePos[b] = First(Edges, binOf, b)
    /\ Placed(Edges, binOf, MAX_ADJ_UNIONS_BINS, Edges \ placing, devicePos, edgeQueue)

\* The queue is sorted, the loop stands at the begin of a bin, and the kernels
\* have been given the edges before it.
QueueOK == stage \in {"loop", "kernel"} =>
    /\ Queued(Edges, binOf, MAX_ADJ_UNIONS_BINS, queuePos, edgeQueue)
    /\ \E b \in 0 .. MAX_ADJ_UNIONS_BINS : LoopAt(b)
    /\ united = SetToBag(Taken(edgeQueue, start))

\* Between the kernels the counts are those of the edges given; in a kernel,
\* those before its range and what the threads of its blocks have added.
Counted  == stage = "loop" => CountsOf(Taken(edgeQueue, start))
KernelRuns == stage = "kernel" => /\ KernelOK /\ kernel.to = start
                                  /\ \E n \in 0 .. BlocksOf : RunTo(n)
Finished == /\ stage \in {"done", "measured"} => united = SetToBag(Edges)
            /\ stage = "done" => CountsOf(Edges)

\* The inductive invariant.
TriInv == HostOK /\ NotYet /\ BinsCounted /\ BinsPlaced /\ QueueOK /\ Counted /\ KernelRuns /\ Finished

\* What depends on the graph does not change.
LEMMA Frame ==
    UNCHANGED <<adj, workFactor>> =>
       /\ Vertices' = Vertices /\ Edges' = Edges /\ binOf' = binOf /\ uOf' = uOf /\ commonOf' = commonOf
       /\ GraphOK' = GraphOK
<1> SUFFICES ASSUME adj' = adj, workFactor' = workFactor
             PROVE  /\ Vertices' = Vertices /\ Edges' = Edges /\ binOf' = binOf /\ uOf' = uOf
                    /\ commonOf' = commonOf /\ GraphOK' = GraphOK
  OBVIOUS
<1>1. Vertices' = Vertices
  BY DEF Vertices
<1>2. Edges' = Edges
  BY <1>1 DEF Edges
<1>3. binOf' = binOf
  BY <1>2 DEF binOf, BinIndex, BySearch, ShorterLen, LongerLen
<1>4. uOf' = uOf
  BY <1>2 DEF uOf, U
<1>5. commonOf' = commonOf
  BY <1>2 DEF commonOf, Common, Neighbours
<1>6. GraphOK' = GraphOK
  BY <1>1 DEF GraphOK
<1> QED BY <1>1, <1>2, <1>3, <1>4, <1>5, <1>6

\* What the invariant says of the graph and the bins.
LEMMA InvIs ==
    ASSUME TriangleAssumption, HostOK
    PROVE  /\ GraphOK
           /\ Binned(Edges, binOf, MAX_ADJ_UNIONS_BINS)
           /\ Half \in Nat \ {0} /\ MAX_ADJ_UNIONS_BINS = Half + Half
           /\ Bins = 0 .. MAX_ADJ_UNIONS_BINS - 1
           /\ \A e \in Edges : /\ binOf[e] = BinIndex(e)
                               /\ binOf[e] < Half => Len(adj[U(e)]) # 0
<1>1. GraphOK /\ workFactor \in Nat
  <2>1. WorkFactors \subseteq Nat
    BY HalfIs
  <2> QED BY <2>1, GraphIs DEF HostOK
<1>2. Half \in Nat \ {0} /\ MAX_ADJ_UNIONS_BINS = Half + Half /\ Bins = 0 .. Half + Half - 1
  BY HalfIs
<1>3. ASSUME NEW e \in Edges
      PROVE  binOf[e] = BinIndex(e) /\ BinIndex(e) \in Bins /\ (BinIndex(e) < Half => Len(adj[U(e)]) # 0)
  BY <1>1, BinIs DEF binOf
<1>4. IsFiniteSet(Edges)
  BY <1>1, GraphEdgesAre
<1>5. MAX_ADJ_UNIONS_BINS \in Nat /\ Bins = 0 .. MAX_ADJ_UNIONS_BINS - 1
  BY <1>2
<1>6. Binned(Edges, binOf, MAX_ADJ_UNIONS_BINS)
  BY <1>3, <1>4, <1>5 DEF Binned
<1> QED BY <1>1, <1>2, <1>3, <1>5, <1>6

\* No edges add nothing.
LEMMA NothingAdded ==
    ASSUME GraphOK, NEW x
    PROVE  Added(commonOf, uOf, {}, x) = 0
<1>1. {e \in {} : uOf[e] = x} = {}
  OBVIOUS
<1>2. SumFunctionOnSet(commonOf, {}) = 0
  BY SumType, FS_EmptySet
<1> QED BY <1>1, <1>2 DEF Added

\* The initial states have the invariant.
LEMMA InitOK == ASSUME TriangleAssumption PROVE TCInit => TriInv
  BY DEF TCInit, TriInv, HostOK, NotYet, BinsCounted, BinsPlaced, QueueOK, Counted, KernelRuns, Finished, EmptyBag

\* Every action keeps the invariant: the first kernel counts the bins,
LEMMA CountBinsKeeps == ASSUME TriangleAssumption, TriInv, CountBins PROVE TriInv'
<1>1. stage = "ready" /\ stage' = "scan"
  BY DEF CountBins
<1>2. HostOK' /\ NotYet'
  <2>1. Vertices' = Vertices
    BY Frame DEF CountBins
  <2> QED BY <2>1, <1>1 DEF CountBins, TriInv, HostOK, NotYet, NoCounts
<1>3. BinsCounted'
  <2>1. Edges' = Edges /\ binOf' = binOf
    BY Frame DEF CountBins
  <2>2. ASSUME NEW b \in Bins PROVE {e \in Edges : BinIndex(e) = b} = InBin(Edges, binOf, b)
    BY DEF InBin, binOf
  <2>3. \A b \in Bins : sizes'[b] = Cardinality(InBin(Edges, binOf, b))
    BY <2>2 DEF CountBins
  <2>4. edgeQueue' = <<>>
    BY DEF CountBins
  <2> QED BY <2>1, <2>3, <2>4 DEF BinsCounted
<1> QED BY <1>1, <1>2, <1>3 DEF TriInv, BinsPlaced, QueueOK, Counted, KernelRuns, Finished

\* the host sums them up,
LEMMA ScanBinsKeeps == ASSUME TriangleAssumption, TriInv, ScanBins PROVE TriInv'
<1>1. stage = "scan" /\ stage' = "place"
  BY DEF ScanBins
<1>2. HostOK' /\ NotYet'
  <2>1. Vertices' = Vertices
    BY Frame DEF ScanBins
  <2> QED BY <2>1, <1>1 DEF ScanBins, TriInv, HostOK, NotYet, NoCounts, loop
<1>3. BinsPlaced'
  <2>1. Edges' = Edges /\ binOf' = binOf
    BY Frame DEF ScanBins
  <2>2. Binned(Edges, binOf, MAX_ADJ_UNIONS_BINS) /\ Bins = 0 .. MAX_ADJ_UNIONS_BINS - 1
    BY InvIs DEF TriInv
  <2>3. PICK E, bin, m, size : E = Edges /\ bin = binOf /\ m = MAX_ADJ_UNIONS_BINS /\ size = sizes
    OBVIOUS
  <2>4. Binned(E, bin, m) /\ \A k \in 0 .. m - 1 : size[k] = Cardinality(InBin(E, bin, k))
    BY <1>1, <2>2, <2>3 DEF TriInv, BinsCounted
  <2>5. \A b \in 0 .. m : SumFunctionOnSet(size, 0 .. b - 1) = First(E, bin, b) /\ First(E, bin, b) \in Nat
    BY ONLY <2>4, SumOfBins, BelowIs
  <2>6. PICK pos : pos = [b \in 0 .. m |-> First(E, bin, b)]
    OBVIOUS
  <2>7. pos \in [0 .. m -> Nat] /\ \A b \in 0 .. m : pos[b] = First(E, bin, b)
    BY <2>5, <2>6
  <2>8. queuePos' = pos /\ devicePos' = pos
    BY <2>3, <2>5, <2>6 DEF ScanBins, Begin
  <2>9. Placed(E, bin, m, {}, pos, <<>>)
    BY <2>4, <2>7, NothingPlaced
  <2>10. placing' = Edges /\ Edges \ placing' = {} /\ edgeQueue' = <<>>
    BY <1>1 DEF ScanBins, TriInv, BinsCounted
  <2> QED BY <2>1, <2>3, <2>7, <2>8, <2>9, <2>10 DEF BinsPlaced
<1> QED BY <1>1, <1>2, <1>3 DEF TriInv, BinsCounted, QueueOK, Counted, KernelRuns, Finished

\* a thread places its edge,
LEMMA PlaceEdgeKeeps ==
    ASSUME TriangleAssumption, TriInv, NEW e \in placing, PlaceEdge(e) PROVE TriInv'
<1>1. stage = "place" /\ stage' = "place"
  BY DEF PlaceEdge
<1>2. HostOK' /\ NotYet'
  <2>1. Vertices' = Vertices
    BY Frame DEF PlaceEdge
  <2> QED BY <2>1, <1>1 DEF PlaceEdge, TriInv, HostOK, NotYet, NoCounts, loop
<1>3. BinsPlaced'
  <2>1. Edges' = Edges /\ binOf' = binOf
    BY Frame DEF PlaceEdge
  <2>2. Binned(Edges, binOf, MAX_ADJ_UNIONS_BINS) /\ placing \subseteq Edges /\ binOf[e] = BinIndex(e)
    BY <1>1, InvIs DEF TriInv, BinsPlaced
  <2>3. PICK E, bin, m, S, pos, queue :
           /\ E = Edges /\ bin = binOf /\ m = MAX_ADJ_UNIONS_BINS /\ S = Edges \ placing
           /\ pos = devicePos /\ queue = edgeQueue
    OBVIOUS
  <2>4. Binned(E, bin, m) /\ S \in SUBSET E /\ e \in E \ S /\ Placed(E, bin, m, S, pos, queue)
    BY <1>1, <2>2, <2>3 DEF TriInv, BinsPlaced
  <2>5. PICK pos2, queue2 :
           /\ pos2 = [pos EXCEPT ![bin[e]] = @ + 1]
           /\ queue2 = [i \in DOMAIN queue \cup {pos[bin[e]]} |-> IF i = pos[bin[e]] THEN e ELSE queue[i]]
    OBVIOUS
  <2>6. Placed(E, bin, m, S \cup {e}, pos2, queue2)
    <3>1. OneMore(e, bin, pos, queue, pos2, queue2)
      BY ONLY <2>5 DEF OneMore
    <3> QED BY ONLY <2>4, <3>1, OnePlaced
  <2>7. devicePos' = pos2 /\ edgeQueue' = queue2
    BY <2>2, <2>3, <2>5 DEF PlaceEdge
  <2>8. placing' = placing \ {e} /\ Edges \ placing' = S \cup {e} /\ queuePos' = queuePos
    BY <2>2, <2>3 DEF PlaceEdge
  <2> QED BY <1>1, <2>1, <2>2, <2>3, <2>6, <2>7, <2>8 DEF TriInv, BinsPlaced
<1> QED BY <1>1, <1>2, <1>3 DEF TriInv, BinsCounted, QueueOK, Counted, KernelRuns, Finished

\* and all have done so.
LEMMA PlaceDoneKeeps == ASSUME TriangleAssumption, TriInv, PlaceDone PROVE TriInv'
<1>1. stage = "place" /\ stage' = "loop" /\ placing = {}
  BY DEF PlaceDone
<1>2. HostOK' /\ NotYet'
  BY <1>1 DEF PlaceDone, TriInv, HostOK, NotYet
<1>3. /\ Edges' = Edges /\ binOf' = binOf /\ Vertices' = Vertices /\ uOf' = uOf /\ commonOf' = commonOf
      /\ queuePos' = queuePos /\ edgeQueue' = edgeQueue /\ start' = start /\ united' = united
      /\ triPerVertex' = triPerVertex
  BY Frame DEF PlaceDone, bins, loop
<1>4. Binned(Edges, binOf, MAX_ADJ_UNIONS_BINS) /\ GraphOK /\ MAX_ADJ_UNIONS_BINS \in Nat
      /\ Half \in Nat
  BY InvIs DEF TriInv
<1>5. start = 0 /\ Taken(edgeQueue, start) = {} /\ united = SetToBag({}) /\ triPerVertex = NoCounts
  BY <1>1 DEF TriInv, NotYet, Taken
<1>6. QueueOK'
  <2>1. \A b \in 0 .. MAX_ADJ_UNIONS_BINS : queuePos[b] = First(Edges, binOf, b)
    BY <1>1 DEF TriInv, BinsPlaced
  <2>2. Queued(Edges, binOf, MAX_ADJ_UNIONS_BINS, queuePos, edgeQueue)
    <3>1. Placed(Edges, binOf, MAX_ADJ_UNIONS_BINS, Edges, devicePos, edgeQueue)
      <4>1. Edges \ placing = Edges
        BY <1>1
      <4> QED BY <1>1, <4>1 DEF TriInv, BinsPlaced
    <3> QED BY <1>4, <2>1, <3>1, AllPlaced
  <2>3. LoopAt(0)
    <3>1. queuePos[0] = 0 /\ 0 \in 0 .. MAX_ADJ_UNIONS_BINS
      BY <1>4, <2>1, BelowIs
    <3>2. phase = "balanced" /\ threadsLog = 1
      BY <1>1 DEF TriInv, NotYet
    <3>3. 1 <= BitLength(BLOCK_SIZE_OP2)
      <4>1. BLOCK_SIZE_OP2 \in Nat /\ ~(1 > BLOCK_SIZE_OP2)
        BY HalfIs
      <4>2. BitLength(BLOCK_SIZE_OP2) # 0 /\ BitLength(BLOCK_SIZE_OP2) \in Nat
        <5>1. PICK n \in Nat : n = BLOCK_SIZE_OP2 /\ ~(1 > n)
          BY <4>1
        <5>2. BitLength(n) \in 0 .. n /\ PowerOfTwo[BitLength(n)] > n
          BY ONLY n \in Nat, BitLengthIs
        <5>3. BitLength(n) # 0
          BY ONLY <5>1, <5>2, PowersAre
        <5> QED BY ONLY <5>1, <5>2, <5>3, n \in Nat
      <4> QED BY <4>2
    <3>4. 0 <= (1 + LOG_OFFSET_BALANCED) * BINS_1D_DIM
      <4>1. PICK x \in Nat, y \in Nat : x = 1 + LOG_OFFSET_BALANCED /\ y = BINS_1D_DIM
        BY HalfIs
      <4>2. x * y \in Nat
        OBVIOUS
      <4> QED BY <4>1, <4>2
    <3> QED BY <1>4, <1>5, <3>1, <3>2, <3>3, <3>4 DEF LoopAt
  <2>4. LoopAt(0)' /\ 0 \in 0 .. MAX_ADJ_UNIONS_BINS
    BY <1>4, <2>3 DEF LoopAt, InLoop, PlaceDone, bins, loop
  <2> QED BY <1>3, <1>5, <2>2, <2>4 DEF QueueOK
<1>7. Counted'
  <2>1. \A x \in Vertices : triPerVertex[x] = 0 /\ Added(commonOf, uOf, {}, x) = 0
    BY <1>4, <1>5, NothingAdded DEF NoCounts
  <2> QED BY <1>3, <1>5, <2>1 DEF Counted, CountsOf
<1> QED BY <1>1, <1>2, <1>6, <1>7 DEF TriInv, BinsCounted, BinsPlaced, KernelRuns, Finished

-----------------------------------------------------------------------------
(* The ranges of the loop.                                                 *)

\* The edges at positions J of the queue.
GivenIn(J) == {edgeQueue[i] : i \in J}

\* The queue to position a and from there to b are apart.
Parted(a, b, J) ==
    /\ Cardinality(Edges) \in Nat
    /\ Taken(edgeQueue, a) \in SUBSET Edges /\ GivenIn(J) \in SUBSET Edges
    /\ Taken(edgeQueue, a) \cap GivenIn(J) = {}
    /\ Taken(edgeQueue, a) \cup GivenIn(J) = Taken(edgeQueue, b)
    /\ \A i \in J : edgeQueue[i] \in Edges
    /\ \A i, j \in J : edgeQueue[i] = edgeQueue[j] => i = j
    /\ Taken(edgeQueue, Cardinality(Edges)) = Edges

LEMMA TakenIs ==
    ASSUME Binned(Edges, binOf, MAX_ADJ_UNIONS_BINS),
           Queued(Edges, binOf, MAX_ADJ_UNIONS_BINS, queuePos, edgeQueue),
           NEW a \in 0 .. Cardinality(Edges), NEW b \in 0 .. Cardinality(Edges), a <= b, NEW J, J = a .. b - 1
    PROVE  Parted(a, b, J)
<1>1. PICK c \in Nat : c = Cardinality(Edges)
  BY FS_CardinalityType DEF Binned
<1>2. /\ DOMAIN edgeQueue = 0 .. c - 1
      /\ \A i \in DOMAIN edgeQueue : edgeQueue[i] \in Edges
      /\ \A i, j \in DOMAIN edgeQueue : edgeQueue[i] = edgeQueue[j] => i = j
      /\ \A e \in Edges : \E i \in DOMAIN edgeQueue : edgeQueue[i] = e
  BY <1>1 DEF Queued
<1>3. a \in 0 .. c /\ b \in 0 .. c
  BY <1>1
<1>4. /\ 0 .. a - 1 \subseteq DOMAIN edgeQueue /\ a .. b - 1 \subseteq DOMAIN edgeQueue
      /\ 0 .. b - 1 = (0 .. a - 1) \cup (a .. b - 1) /\ (0 .. a - 1) \cap (a .. b - 1) = {}
  BY <1>2, <1>3
<1>5. PICK I, K : I = 0 .. a - 1 /\ J = a .. b - 1 /\ K = 0 .. b - 1
  OBVIOUS
<1>6. /\ I \subseteq DOMAIN edgeQueue /\ J \subseteq DOMAIN edgeQueue /\ K = I \cup J /\ I \cap J = {}
      /\ Taken(edgeQueue, a) = {edgeQueue[i] : i \in I} /\ Taken(edgeQueue, b) = {edgeQueue[i] : i \in K}
  BY ONLY <1>4, <1>5 DEF Taken
<1>7. /\ {edgeQueue[i] : i \in I} \in SUBSET Edges /\ {edgeQueue[i] : i \in J} \in SUBSET Edges
      /\ {edgeQueue[i] : i \in I} \cup {edgeQueue[i] : i \in J} = {edgeQueue[i] : i \in K}
  BY ONLY <1>2, <1>6
<1>8. {edgeQueue[i] : i \in I} \cap {edgeQueue[i] : i \in J} = {}
  BY ONLY <1>2, <1>6
<1>9. Taken(edgeQueue, Cardinality(Edges)) = Edges
  BY ONLY <1>1, <1>2 DEF Taken
<1>10. /\ \A i \in J : edgeQueue[i] \in Edges
       /\ \A i, j \in J : edgeQueue[i] = edgeQueue[j] => i = j
  BY ONLY <1>2, <1>5, <1>6
<1> QED BY ONLY <1>1, <1>6, <1>7, <1>8, <1>9, <1>10 DEF GivenIn, Parted

\* A kernel is given some more edges.
LEMMA GivenMore ==
    ASSUME NEW S, NEW T, S \cap T = {}, NEW J, T = GivenIn(J),
           \A i, j \in J : edgeQueue[i] = edgeQueue[j] => i = j
    PROVE  SetToBag(S) (+) UnitedIn(J) = SetToBag(S \cup T)
<1>0. T = {edgeQueue[i] : i \in J}
  BY DEF GivenIn
<1>1. PICK one : one = [e \in {edgeQueue[i] : i \in J} |-> Cardinality({i \in J : edgeQueue[i] = e})]
  OBVIOUS
<1>2. DOMAIN one = T /\ \A e \in T : one[e] = 1
  <2>1. ASSUME NEW e \in T PROVE one[e] = 1
    <3>1. PICK i \in J : e = edgeQueue[i]
      BY <1>0
    <3>2. {j \in J : edgeQueue[j] = e} = {i}
      BY <3>1
    <3>3. Cardinality({i}) = 1
      BY FS_Singleton
    <3> QED BY <1>1, <3>2, <3>3
  <2> QED BY <1>0, <1>1, <2>1
<1>3. PICK two : two = SetToBag(S)
  OBVIOUS
<1>4. DOMAIN two = S /\ \A e \in S : two[e] = 1
  BY <1>3 DEF SetToBag
<1>5. two (+) one = [e \in S \cup T |-> 1]
  <2>1. two (+) one = [e \in S \cup T |-> (IF e \in S THEN two[e] ELSE 0) + (IF e \in T THEN one[e] ELSE 0)]
    BY <1>2, <1>4 DEF (+)
  <2>2. \A e \in S \cup T : (IF e \in S THEN two[e] ELSE 0) + (IF e \in T THEN one[e] ELSE 0) = 1
    BY <1>2, <1>4
  <2> QED BY <2>1, <2>2
<1> QED BY <1>1, <1>3, <1>5 DEF SetToBag, UnitedIn

LEMMA AddedIs ==
    ASSUME GraphOK, NEW x, NEW S \in SUBSET Edges, NEW T \in SUBSET Edges, S \cap T = {}
    PROVE  /\ Added(commonOf, uOf, S, x) \in Int
           /\ Added(commonOf, uOf, S \cup T, x) = Added(commonOf, uOf, S, x) + Added(commonOf, uOf, T, x)
<1>1. \A e \in Edges : commonOf[e] \in Int
  BY CommonIs DEF commonOf
<1>2. PICK X, Y : X = {e \in S : uOf[e] = x} /\ Y = {e \in T : uOf[e] = x}
  OBVIOUS
<1>3. {e \in S \cup T : uOf[e] = x} = X \cup Y /\ X \cap Y = {} /\ X \cup Y \subseteq Edges
  BY <1>2
<1>4. IsFiniteSet(X) /\ IsFiniteSet(Y)
  <2>1. IsFiniteSet(Edges)
    BY GraphEdgesAre
  <2> QED BY <1>3, <2>1, FS_Subset
<1>5. \A e \in X \cup Y : commonOf[e] \in Int
  BY <1>1, <1>3
<1>6. SumFunctionOnSet(commonOf, X) \in Int
  BY <1>4, <1>5, SumType
<1>7. SumFunctionOnSet(commonOf, X \cup Y) = SumFunctionOnSet(commonOf, X) + SumFunctionOnSet(commonOf, Y)
  BY <1>3, <1>4, <1>5, SumApart
<1> QED BY ONLY <1>2, <1>3, <1>6, <1>7 DEF Added

LEMMA RoundsUp ==
    ASSUME NEW x \in Nat, NEW d \in Nat \ {0}
    PROVE  CeilingDiv(x, d) \in Nat /\ x <= CeilingDiv(x, d) * d
<1>1. PICK y \in Nat : y = x + d - 1
  OBVIOUS
<1>2. \E q \in Nat, r \in 0 .. d - 1 : q = y \div d /\ r = y % d /\ y = q * d + r /\ y = d * q + r
  BY QuotientOf
<1>3. PICK q \in Nat, r \in 0 .. d - 1 : q = y \div d /\ y = q * d + r
  BY ONLY <1>2
<1>4. PICK p \in Nat : p = q * d
  <2>1. q * d \in Nat
    OBVIOUS
  <2> QED BY <2>1
<1>5. x <= p
  BY <1>1, <1>3, <1>4
<1>6. CeilingDiv(x, d) = q
  BY ONLY <1>1, <1>3 DEF CeilingDiv
<1> QED BY ONLY <1>4, <1>5, <1>6, q \in Nat

\* The bin a range ends before.
LEMMA EndBinIs ==
    ASSUME TriangleAssumption, NEW b \in 0 .. MAX_ADJ_UNIONS_BINS, LoopAt(b), phase # "finished"
    PROVE  \E c \in 0 .. MAX_ADJ_UNIONS_BINS :
              /\ c = EndBin /\ b <= c
              /\ phase = "balanced" => c <= Half /\ threadsLog <= BitLength(BLOCK_SIZE_OP2)
              /\ LaunchRange => LoopAt(c)'
<1>0. PICK c : c = EndBin
  OBVIOUS
<1>1. PICK d \in Nat \ {0, 1}, h \in Nat \ {0}, l \in Nat, o \in Nat, k \in Nat \ {0} :
         /\ d = BINS_1D_DIM /\ h = Half /\ MAX_ADJ_UNIONS_BINS = h + h
         /\ MAX_ADJ_UNIONS_BINS \div 2 = h
         /\ l = LOG_OFFSET_BALANCED /\ o = LOG_OFFSET_IMBALANCED /\ k = threadsLog
  <2>1. threadsLog \in Nat \ {0}
    BY DEF LoopAt
  <2> QED BY <2>1, HalfIs
<1>2. ASSUME NEW x \in Nat, x < d PROVE x * d \in 0 .. h
  <2>1. x \in 0 .. d
    BY <1>2
  <2>2. \A y \in 0 .. BINS_1D_DIM : y * BINS_1D_DIM \in 0 .. Half
    BY HalfIs
  <2> QED BY ONLY <1>1, <2>1, <2>2
<1>3. ASSUME NEW x \in Nat PROVE x * d \in Nat /\ x * d <= (x + 1) * d
  <2>1. (x + 1) * d = x * d + d /\ x * d \in Nat
    OBVIOUS
  <2> QED BY <2>1
<1>4. CASE phase = "balanced" /\ InLoop
  <2>1. k < BitLength(BLOCK_SIZE_OP2) /\ k + l < d
    BY <1>1, <1>4 DEF InLoop
  <2>2. c = (k + l) * d
    BY <1>0, <1>1, <1>4 DEF EndBin
  <2>3. PICK y \in 0 .. h : y = (k + l) * d
    <3>1. PICK x \in Nat : x = k + l
      OBVIOUS
    <3>2. x * d \in 0 .. h
      BY ONLY <1>2, <2>1, <3>1, x \in Nat
    <3> QED BY ONLY <3>1, <3>2
  <2>4. b <= y
    BY <1>1, <1>4, <2>3 DEF LoopAt
  <2>5. BitLength(BLOCK_SIZE_OP2) \in Nat
    <3>1. PICK n \in Nat : n = BLOCK_SIZE_OP2
      BY HalfIs
    <3>2. BitLength(n) \in 0 .. n
      BY BitLengthIs
    <3> QED BY <3>1, <3>2
  <2>6. LaunchRange => LoopAt(c)'
    <3> SUFFICES ASSUME LaunchRange PROVE LoopAt(c)'
      OBVIOUS
    <3>1. /\ phase' = "balanced" /\ threadsLog' = k + 1 /\ start' = queuePos[c]
          /\ queuePos' = queuePos
      BY <1>0, <1>1, <1>4 DEF LaunchRange, NextThreads, NextStart, bins
    <3>2. y <= (k + 1 + l) * d
      <4>1. (k + l) * d <= (k + l + 1) * d /\ k + l + 1 = k + 1 + l
        BY <1>3
      <4> QED BY <2>3, <4>1
    <3>3. k + 1 <= BitLength(BLOCK_SIZE_OP2) /\ k + 1 \in Nat \ {0} /\ y <= h
      BY <2>1, <2>5
    <3> QED BY <1>1, <2>2, <2>3, <3>1, <3>2, <3>3 DEF LoopAt
  <2> QED BY <1>0, <1>1, <1>4, <2>1, <2>2, <2>3, <2>4, <2>5, <2>6
<1>5. CASE phase = "balanced" /\ ~InLoop
  <2>1. c = h
    BY <1>0, <1>1, <1>5 DEF EndBin
  <2>2. b <= h /\ threadsLog <= BitLength(BLOCK_SIZE_OP2)
    BY <1>1, <1>5 DEF LoopAt
  <2>3. LaunchRange => LoopAt(c)'
    <3> SUFFICES ASSUME LaunchRange PROVE LoopAt(c)'
      OBVIOUS
    <3>1. /\ phase' = "imbalanced" /\ threadsLog' = 1 /\ start' = queuePos[c]
          /\ queuePos' = queuePos
      BY <1>0, <1>5 DEF LaunchRange, NextThreads, NextStart, bins
    <3>2. h <= h + (1 + o) * d
      <4>1. (1 + o) * d \in Nat
        BY <1>3
      <4> QED BY <4>1
    <3> QED BY <1>1, <2>1, <3>1, <3>2 DEF LoopAt
  <2> QED BY <1>0, <1>1, <1>5, <2>1, <2>2, <2>3
<1>6. CASE phase = "imbalanced" /\ InLoop
  <2>1. k + o < d
    BY <1>1, <1>6 DEF InLoop
  <2>2. c = h + (k + o) * d
    BY <1>0, <1>1, <1>6 DEF EndBin
  <2>3. PICK y \in 0 .. h : y = (k + o) * d
    BY <1>2, <2>1
  <2>4. b <= h + y
    BY <1>1, <1>6, <2>3 DEF LoopAt
  <2>6. LaunchRange => LoopAt(c)'
    <3> SUFFICES ASSUME LaunchRange PROVE LoopAt(c)'
      OBVIOUS
    <3>1. /\ phase' = "imbalanced" /\ threadsLog' = k + 1 /\ start' = queuePos[c]
          /\ queuePos' = queuePos
      BY <1>0, <1>1, <1>6 DEF LaunchRange, NextThreads, NextStart, bins
    <3>2. PICK z \in Nat : z = (k + 1 + o) * d /\ y <= z
      <4>1. (k + o) * d <= (k + o + 1) * d /\ k + o + 1 = k + 1 + o /\ (k + 1 + o) * d \in Nat
        BY <1>3
      <4> QED BY <2>3, <4>1
    <3>3. h <= h + y /\ h + y <= h + z /\ k + 1 \in Nat \ {0}
      BY <3>2
    <3> QED BY <1>1, <2>2, <2>3, <3>1, <3>2, <3>3 DEF LoopAt
  <2>7. h + y \in 0 .. h + h
    OBVIOUS
  <2> QED BY <1>0, <1>1, <1>6, <2>2, <2>3, <2>4, <2>6, <2>7
<1>7. CASE phase = "imbalanced" /\ ~InLoop
  <2>1. c = MAX_ADJ_UNIONS_BINS
    BY <1>0, <1>7 DEF EndBin
  <2>3. LaunchRange => LoopAt(c)'
    <3> SUFFICES ASSUME LaunchRange PROVE LoopAt(c)'
      OBVIOUS
    <3>1. /\ phase' = "finished" /\ threadsLog' = 1 /\ start' = queuePos[c]
          /\ queuePos' = queuePos
      BY <1>0, <1>7 DEF LaunchRange, NextThreads, NextStart, bins
    <3> QED BY <2>1, <3>1 DEF LoopAt, MAX_ADJ_UNIONS_BINS
  <2> QED BY <1>0, <1>1, <1>7, <2>1, <2>3
<1> QED BY <1>4, <1>5, <1>6, <1>7 DEF LoopAt

\* What the loop and a kernel find.
LEMMA LoopIs ==
    ASSUME TriangleAssumption, TriInv, stage \in {"loop", "kernel"}
    PROVE  /\ GraphOK
           /\ Binned(Edges, binOf, MAX_ADJ_UNIONS_BINS)
           /\ Queued(Edges, binOf, MAX_ADJ_UNIONS_BINS, queuePos, edgeQueue)
           /\ Cardinality(Edges) \in Nat
           /\ \A b \in 0 .. MAX_ADJ_UNIONS_BINS : queuePos[b] \in 0 .. Cardinality(Edges)
           /\ \A a, b \in 0 .. MAX_ADJ_UNIONS_BINS : a <= b => queuePos[a] <= queuePos[b]
           /\ queuePos[MAX_ADJ_UNIONS_BINS] = Cardinality(Edges)
           /\ start \in 0 .. Cardinality(Edges)
<1>1. GraphOK /\ Binned(Edges, binOf, MAX_ADJ_UNIONS_BINS) /\ MAX_ADJ_UNIONS_BINS \in Nat
  BY InvIs DEF TriInv
<1>2. Queued(Edges, binOf, MAX_ADJ_UNIONS_BINS, queuePos, edgeQueue)
  BY DEF TriInv, QueueOK
<1>3. PICK m \in Nat : m = MAX_ADJ_UNIONS_BINS
  BY <1>1
<1>4. PICK E, bin : E = Edges /\ bin = binOf /\ Binned(E, bin, m)
  BY <1>1, <1>3
<1>5. \A b \in 0 .. m : queuePos[b] = First(E, bin, b) /\ First(E, bin, b) \in Nat
  BY <1>2, <1>3, <1>4, BelowIs DEF Queued
<1>6. \A a, b \in 0 .. m : a <= b => queuePos[a] <= queuePos[b]
  BY <1>4, <1>5, FirstGrows
<1>7. First(E, bin, m) = Cardinality(E) /\ m \in 0 .. m
  BY <1>4, BelowIs
<1>8. ASSUME NEW b \in 0 .. m PROVE queuePos[b] \in 0 .. Cardinality(E)
  <2>1. queuePos[b] <= queuePos[m] /\ queuePos[b] \in Nat /\ queuePos[m] = Cardinality(E)
    BY <1>5, <1>6, <1>7
  <2> QED BY <1>5, <1>7, <2>1
<1>9. PICK b \in 0 .. m : start = queuePos[b]
  BY <1>3 DEF TriInv, QueueOK, LoopAt
<1> QED BY <1>1, <1>2, <1>3, <1>4, <1>5, <1>6, <1>7, <1>8, <1>9

\* A range begins with a bin and ends before one that is not lower.
LEMMA LaunchRangeKeeps == ASSUME TriangleAssumption, TriInv, LaunchRange PROVE TriInv'
<1>0. Half \in Int
  BY HalfIs
<1>1. stage = "loop" /\ phase # "finished"
  BY DEF LaunchRange
<1>2. PICK b \in 0 .. MAX_ADJ_UNIONS_BINS : LoopAt(b)
  BY <1>1 DEF TriInv, QueueOK
<1>3. PICK c \in 0 .. MAX_ADJ_UNIONS_BINS :
         /\ c = EndBin /\ b <= c
         /\ phase = "balanced" => c <= Half /\ threadsLog <= BitLength(BLOCK_SIZE_OP2)
         /\ LoopAt(c)'
  BY <1>1, <1>2, EndBinIs
<1>4. /\ GraphOK /\ Binned(Edges, binOf, MAX_ADJ_UNIONS_BINS)
      /\ Queued(Edges, binOf, MAX_ADJ_UNIONS_BINS, queuePos, edgeQueue)
      /\ Cardinality(Edges) \in Nat
  BY <1>1, LoopIs
<1>5. PICK a \in 0 .. Cardinality(Edges), z \in 0 .. Cardinality(Edges) :
         a = start /\ z = queuePos[c] /\ a <= z
  <2>1. start = queuePos[b]
    BY <1>2 DEF LoopAt
  <2> QED BY <1>1, <1>3, <2>1, LoopIs
<1>6. PICK J : J = a .. z - 1
  OBVIOUS
<1>7. /\ Taken(edgeQueue, a) \in SUBSET Edges /\ GivenIn(J) \in SUBSET Edges
      /\ Taken(edgeQueue, a) \cap GivenIn(J) = {}
      /\ Taken(edgeQueue, a) \cup GivenIn(J) = Taken(edgeQueue, z)
      /\ \A i \in J : edgeQueue[i] \in Edges
      /\ \A i, j \in J : edgeQueue[i] = edgeQueue[j] => i = j
  <2>1. Binned(Edges, binOf, MAX_ADJ_UNIONS_BINS)
    BY <1>4
  <2>2. Queued(Edges, binOf, MAX_ADJ_UNIONS_BINS, queuePos, edgeQueue)
    BY <1>4
  <2>3. a \in 0 .. Cardinality(Edges) /\ z \in 0 .. Cardinality(Edges)
    OBVIOUS
  <2>4. a <= z /\ J = a .. z - 1
    BY <1>5, <1>6
  <2>5. Parted(a, z, J)
    BY ONLY <2>1, <2>2, <2>3, <2>4, TakenIs
  <2> QED BY ONLY <2>5 DEF Parted
<1>8. /\ Edges' = Edges /\ binOf' = binOf /\ Vertices' = Vertices /\ uOf' = uOf /\ commonOf' = commonOf
      /\ queuePos' = queuePos /\ edgeQueue' = edgeQueue /\ triPerVertex' = triPerVertex /\ start' = z
      /\ adj' = adj /\ workFactor' = workFactor
  BY <1>3, <1>5, Frame DEF LaunchRange, bins, NextStart
<1>9. united = SetToBag(Taken(edgeQueue, a)) /\ CountsOf(Taken(edgeQueue, a))
  BY <1>1, <1>5 DEF TriInv, QueueOK, Counted
<1>10. CASE z - a > 0
  <2>1. PICK T \in Nat \ {0}, k \in Nat : T = PowerOfTwo[threadsLog - 1] /\ k = threadsLog - 1
    <3>1. threadsLog - 1 \in Nat
      BY <1>2 DEF LoopAt
    <3> QED BY <3>1, PowersAre
  <2>2. /\ stage' = "kernel"
        /\ kernel' = [from |-> a, to |-> z, threads |-> T, balanced |-> phase = "balanced"]
        /\ blocks' = 0 .. CeilingDiv((z - a) * T, BLOCK_SIZE_OP2) - 1
        /\ united' = united (+) UnitedIn(J)
    BY <1>3, <1>5, <1>6, <1>10, <2>1 DEF LaunchRange
  <2>3. kernel'.from = a /\ kernel'.to = z /\ kernel'.threads = T /\ (kernel'.balanced <=> phase = "balanced")
    BY <2>2
  <2>4. united' = SetToBag(Taken(edgeQueue, z))
    <3>1. PICK S, X : S = Taken(edgeQueue, a) /\ X = GivenIn(J)
      OBVIOUS
    <3>2. SetToBag(S) (+) UnitedIn(J) = SetToBag(S \cup X)
      <4>1. S \cap X = {} /\ X = GivenIn(J)
            /\ \A i, j \in J : edgeQueue[i] = edgeQueue[j] => i = j
        BY ONLY <1>7, <3>1
      <4> QED BY ONLY <4>1, GivenMore
    <3> QED BY ONLY <1>7, <1>9, <2>2, <3>1, <3>2
  <2>5. QueueOK'
    BY <1>3, <1>4, <1>8, <2>4 DEF QueueOK
  <2>6. KernelOK'
    <3>1. (phase = "balanced") => T <= BLOCK_SIZE_OP2
      <4> SUFFICES ASSUME phase = "balanced" PROVE T <= BLOCK_SIZE_OP2
        OBVIOUS
      <4>1. PICK n \in Nat, l \in Nat : n = BLOCK_SIZE_OP2 /\ l = BitLength(n)
                                        /\ (l = 0 \/ PowerOfTwo[l - 1] <= n)
        <5>1. PICK n \in Nat : n = BLOCK_SIZE_OP2
          BY HalfIs
        <5>2. BitLength(n) \in 0 .. n /\ (BitLength(n) = 0 \/ PowerOfTwo[BitLength(n) - 1] <= n)
          BY BitLengthIs
        <5> QED BY <5>1, <5>2
      <4>2. threadsLog <= l /\ threadsLog \in Nat \ {0}
        BY <1>2, <1>3, <4>1 DEF LoopAt
      <4>3. k <= l - 1 /\ l - 1 \in Nat /\ l # 0
        BY <2>1, <4>2
      <4>4. PowerOfTwo[k] <= PowerOfTwo[l - 1]
        BY <4>3, PowersDivide
      <4>5. T = PowerOfTwo[k]
        BY <2>1
      <4>6. PowerOfTwo[l - 1] \in Nat
        BY <4>3, PowersAre
      <4> QED BY ONLY <4>1, <4>3, <4>4, <4>5, <4>6, T \in Nat, n \in Nat
    <3>2. ASSUME NEW i \in J
          PROVE  edgeQueue[i] \in Edges /\ (phase = "balanced" => Len(adj[U(edgeQueue[i])]) # 0)
      <4>1. edgeQueue[i] \in Edges
        BY <1>7
      <4>2. ASSUME phase = "balanced" PROVE Len(adj[U(edgeQueue[i])]) # 0
        <5>1. i \in DOMAIN edgeQueue /\ i < queuePos[c]
          BY <1>4, <1>5, <1>6 DEF Queued
        <5>2. binOf[edgeQueue[i]] < c
          BY <1>4, <5>1 DEF Queued
        <5>3. binOf[edgeQueue[i]] \in Int /\ Half \in Int /\ c <= Half
          <6>1. binOf[edgeQueue[i]] \in Int
            BY <1>4, <4>1 DEF Binned
          <6>2. Half \in Int
            BY <1>0
          <6> QED BY <1>3, <4>2, <6>1, <6>2
        <5>4. binOf[edgeQueue[i]] < Half
          BY <5>2, <5>3
        <5> QED BY <4>1, <5>4, InvIs DEF TriInv
      <4> QED BY <4>1, <4>2
    <3>3. \A i \in J : (edgeQueue[i] \in Edges)' /\ (phase = "balanced" => (Len(adj[U(edgeQueue[i])]) # 0)')
      BY <1>8, <3>2 DEF U
    <3>4. a \in Nat /\ z \in Nat /\ a < z
      BY <1>4, <1>10
    <3>5. T = PowerOfTwo[k] /\ k \in Nat
      BY <2>1
    <3> QED BY <1>6, <2>3, <3>1, <3>3, <3>4, <3>5 DEF KernelOK
  <2>7. KernelRuns'
    <3>1. BlocksOf' = CeilingDiv((z - a) * T, BLOCK_SIZE_OP2) /\ BlocksOf' \in Nat
      <4>1. BlocksOf' = CeilingDiv((z - a) * T, BLOCK_SIZE_OP2)
        BY <2>3 DEF BlocksOf, CeilingDiv
      <4>2. PICK w \in Nat : w = (z - a) * T
        <5>1. PICK y \in Nat : y = z - a
          BY <1>10
        <5>2. y * T \in Nat
          OBVIOUS
        <5> QED BY <5>1, <5>2
      <4>3. BLOCK_SIZE_OP2 \in Nat \ {0}
        BY HalfIs
      <4>4. CeilingDiv(w, BLOCK_SIZE_OP2) \in Nat
        BY <4>3, RoundsUp
      <4> QED BY <4>1, <4>2, <4>4
    <3>2. 0 * BLOCK_SIZE_OP2 = 0 /\ 0 .. 0 * BLOCK_SIZE_OP2 - 1 = {}
      <4>1. BLOCK_SIZE_OP2 \in Nat
        BY HalfIs
      <4> QED BY <4>1
    <3>3. ASSUME NEW x \in Vertices
          PROVE  triPerVertex[x] = Added(commonOf, uOf, Taken(edgeQueue, a), x)
                                   + SumFunctionOnSet(gainOf'[x], 0 .. 0 * BLOCK_SIZE_OP2 - 1)
      <4>1. triPerVertex[x] = Added(commonOf, uOf, Taken(edgeQueue, a), x)
        BY <1>9 DEF CountsOf
      <4>2. Added(commonOf, uOf, Taken(edgeQueue, a), x) \in Int
        BY <1>4, <1>7, AddedIs
      <4>3. SumFunctionOnSet(gainOf'[x], {}) = 0
        BY SumType, FS_EmptySet
      <4> QED BY <3>2, <4>1, <4>2, <4>3
    <3>4. RunTo(0)'
      BY <1>8, <2>2, <2>3, <3>1, <3>3 DEF RunTo
    <3>5. 0 \in 0 .. BlocksOf' /\ kernel'.to = start'
      BY <1>8, <2>3, <3>1
    <3> QED BY <2>6, <3>4, <3>5 DEF KernelRuns
  <2>8. HostOK' /\ NotYet'
    BY <1>8, <2>2 DEF TriInv, HostOK, NotYet
  <2> QED BY <2>2, <2>5, <2>7, <2>8 DEF TriInv, BinsCounted, BinsPlaced, Counted, Finished
<1>11. CASE ~(z - a > 0)
  <2>1. z = a
    BY <1>5, <1>11
  <2>2. stage' = "loop" /\ united' = united
    BY <1>1, <1>3, <1>5, <1>11 DEF LaunchRange
  <2>3. QueueOK'
    BY <1>3, <1>4, <1>8, <1>9, <2>1, <2>2 DEF QueueOK
  <2>4. Counted'
    BY <1>8, <1>9, <2>1 DEF Counted, CountsOf
  <2>5. HostOK' /\ NotYet'
    BY <1>8, <2>2 DEF TriInv, HostOK, NotYet
  <2> QED BY <2>2, <2>3, <2>4, <2>5 DEF TriInv, BinsCounted, BinsPlaced, KernelRuns, Finished
<1> QED BY <1>10, <1>11

-----------------------------------------------------------------------------
(* A kernel and the end of the loop, and the theorems.                     *)

\* A block adds what its threads add.
LEMMA BlockAdds ==
    ASSUME TriangleAssumption, GraphOK, KernelOK, NEW n \in Nat, NEW x \in Vertices
    PROVE  SumFunctionOnSet(gainOf[x], 0 .. (n + 1) * BLOCK_SIZE_OP2 - 1)
             = SumFunctionOnSet(gainOf[x], 0 .. n * BLOCK_SIZE_OP2 - 1)
               + SumFunctionOnSet([id \in Counting(n) |-> Count(id)], {id \in Counting(n) : U(EdgeOf(id)) = x})
<1>1. PICK B \in Nat \ {0}, y \in Nat : B = BLOCK_SIZE_OP2 /\ y = n * B /\ (n + 1) * B = y + B
  <2>1. PICK B \in Nat \ {0} : B = BLOCK_SIZE_OP2
    BY HalfIs
  <2>2. n * B \in Nat /\ (n + 1) * B = n * B + B
    OBVIOUS
  <2> QED BY <2>1, <2>2
<1>2. PICK f, g : f = [id \in Counting(n) |-> Count(id)] /\ g = gainOf[x]
  OBVIOUS
<1>3. \A id \in Nat : g[id] = Gain(x, id) /\ g[id] \in Int
  BY <1>2, GainIs
<1>4. PICK R, S, T : R = 0 .. y - 1 /\ S = y .. y + B - 1 /\ T = {id \in Counting(n) : U(EdgeOf(id)) = x}
  OBVIOUS
<1>5. /\ IsFiniteSet(R) /\ IsFiniteSet(S) /\ R \cap S = {} /\ R \cup S = 0 .. y + B - 1
      /\ R \cup S \subseteq Nat
  <2>1. PICK p \in Int, q \in Int : p = y - 1 /\ q = y + B - 1
    OBVIOUS
  <2>2. IsFiniteSet(0 .. p) /\ IsFiniteSet(y .. q)
    <3>1. p \in Int /\ q \in Int /\ y \in Int /\ 0 \in Int
      OBVIOUS
    <3> QED BY ONLY <3>1, FS_Interval
  <2>3. 0 .. p \cap y .. q = {} /\ 0 .. p \cup y .. q = 0 .. q /\ 0 .. q \subseteq Nat
    BY <2>1
  <2> QED BY ONLY <1>4, <2>1, <2>2, <2>3
<1>6. T \in SUBSET S /\ T \subseteq Counting(n)
  <2>1. Counting(n) \subseteq n * BLOCK_SIZE_OP2 .. (n + 1) * BLOCK_SIZE_OP2 - 1
    BY DEF Counting
  <2>2. n * BLOCK_SIZE_OP2 .. (n + 1) * BLOCK_SIZE_OP2 - 1 = S
    BY ONLY <1>1, <1>4
  <2>3. T \subseteq Counting(n)
    BY <1>4
  <2> QED BY ONLY <2>1, <2>2, <2>3
<1>7. ASSUME NEW id \in T PROVE f[id] \in Int /\ g[id] = f[id]
  <2>1. id \in Counting(n) /\ U(EdgeOf(id)) = x /\ id \in Nat
    BY <1>4, <1>5, <1>6
  <2>2. Active(id)
    BY <2>1 DEF Counting, Active
  <2>3. f[id] = Count(id)
    BY <1>2, <2>1
  <2>4. g[id] = Gain(x, id) /\ g[id] \in Int
    BY <1>3, <2>1
  <2> QED BY <2>1, <2>2, <2>3, <2>4 DEF Gain
<1>8. ASSUME NEW id \in S, id \notin T PROVE g[id] = 0
  <2>1. id \in n * BLOCK_SIZE_OP2 .. (n + 1) * BLOCK_SIZE_OP2 - 1 /\ id \in Nat
    BY ONLY <1>1, <1>4, <1>5, id \in S
  <2>2. ~(Active(id) /\ U(EdgeOf(id)) = x)
    BY <1>4, <1>8, <2>1 DEF Counting, Active
  <2> QED BY <1>3, <2>1, <2>2 DEF Gain
<1>9. SumFunctionOnSet(f, T) = SumFunctionOnSet(g, S)
  <2>1. (\A id \in T : f[id] \in Int /\ g[id] = f[id]) /\ \A id \in S \ T : g[id] = 0
    BY <1>7, <1>8
  <2> QED BY ONLY <1>5, <1>6, <2>1, SumZeros
<1>10. SumFunctionOnSet(g, R \cup S) = SumFunctionOnSet(g, R) + SumFunctionOnSet(g, S)
  <2>1. \A id \in R \cup S : g[id] \in Int
    BY <1>3, <1>5
  <2> QED BY ONLY <1>5, <2>1, SumApart
<1>11. R = 0 .. n * BLOCK_SIZE_OP2 - 1 /\ R \cup S = 0 .. (n + 1) * BLOCK_SIZE_OP2 - 1
  BY ONLY <1>1, <1>4, <1>5
<1> QED BY ONLY <1>2, <1>4, <1>9, <1>10, <1>11

\* A block of the kernel adds its part.
LEMMA RunBlockKeeps ==
    ASSUME TriangleAssumption, TriInv, NEW b \in blocks, RunUnions(b) PROVE TriInv'
<1>1. stage = "kernel" /\ stage' = "kernel"
  BY DEF RunUnions
<1>2. /\ Edges' = Edges /\ binOf' = binOf /\ Vertices' = Vertices /\ uOf' = uOf /\ commonOf' = commonOf
      /\ queuePos' = queuePos /\ edgeQueue' = edgeQueue /\ start' = start /\ united' = united
      /\ adj' = adj /\ workFactor' = workFactor /\ kernel' = kernel /\ phase' = phase
      /\ threadsLog' = threadsLog /\ blocks' = blocks \ {b}
  BY Frame DEF RunUnions, bins, loop
<1>3. GraphOK /\ KernelOK /\ kernel.to = start
  BY <1>1, LoopIs DEF TriInv, KernelRuns
<1>4. PICK n \in 0 .. BlocksOf : RunTo(n)
  BY <1>1 DEF TriInv, KernelRuns
<1>5. PICK z \in Int : z = BlocksOf
  <2>1. n \in 0 .. BlocksOf
    OBVIOUS
  <2>2. PICK k \in Nat, a \in Nat, c \in Nat : kernel.threads = PowerOfTwo[k] /\ a = kernel.from /\ c = kernel.to /\ a < c
    BY <1>3 DEF KernelOK
  <2>3. PICK w \in Nat : w = (kernel.to - kernel.from) * kernel.threads
    <3>1. PICK y \in Nat : y = c - a
      BY <2>2
    <3>2. PICK T \in Nat : T = kernel.threads
      BY <2>2, PowersAre
    <3>3. y * T \in Nat
      OBVIOUS
    <3> QED BY <2>2, <3>1, <3>2, <3>3
  <2>4. BLOCK_SIZE_OP2 \in Nat \ {0}
    BY HalfIs
  <2>5. CeilingDiv(w, BLOCK_SIZE_OP2) \in Nat
    BY <2>4, RoundsUp
  <2> QED BY <2>3, <2>5 DEF BlocksOf
<1>6. b = n /\ n \in Nat /\ n + 1 \in 0 .. BlocksOf /\ blocks' = n + 1 .. BlocksOf - 1
  <2>1. blocks = n .. z - 1 /\ n \in 0 .. z
    BY <1>4, <1>5 DEF RunTo
  <2>2. \A c \in blocks : b <= c
    BY DEF RunUnions
  <2>3. b \in n .. z - 1 /\ n \in n .. z - 1
    BY <2>1
  <2>4. b = n
    BY <2>1, <2>2, <2>3
  <2>5. (n .. z - 1) \ {n} = n + 1 .. z - 1
    BY <2>1
  <2> QED BY <1>2, <1>5, <2>1, <2>3, <2>4, <2>5
<1>7. gainOf' = gainOf /\ BlocksOf' = BlocksOf /\ KernelOK' = KernelOK
  <2>1. gainOf' = gainOf
    BY <1>2 DEF gainOf, Gain, Active, Avoided, EdgeOf, U, V, Count, UnionThread
  <2>2. BlocksOf' = BlocksOf
    BY <1>2 DEF BlocksOf
  <2>3. KernelOK' = KernelOK
    BY <1>2 DEF KernelOK, U
  <2> QED BY <2>1, <2>2, <2>3
<1>8. ASSUME NEW x \in Vertices
      PROVE  triPerVertex'[x] = Added(commonOf, uOf, Taken(edgeQueue, kernel.from), x)
                                + SumFunctionOnSet(gainOf[x], 0 .. (n + 1) * BLOCK_SIZE_OP2 - 1)
  <2>1. triPerVertex[x] = Added(commonOf, uOf, Taken(edgeQueue, kernel.from), x)
                          + SumFunctionOnSet(gainOf[x], 0 .. n * BLOCK_SIZE_OP2 - 1)
    BY <1>4 DEF RunTo
  <2>2. triPerVertex'[x] = triPerVertex[x]
          + SumFunctionOnSet([id \in Counting(n) |-> Count(id)], {id \in Counting(n) : U(EdgeOf(id)) = x})
    BY <1>6 DEF RunUnions
  <2>3. PICK p, q, r, s :
           /\ p = Added(commonOf, uOf, Taken(edgeQueue, kernel.from), x)
           /\ q = SumFunctionOnSet(gainOf[x], 0 .. n * BLOCK_SIZE_OP2 - 1)
           /\ r = SumFunctionOnSet([id \in Counting(n) |-> Count(id)], {id \in Counting(n) : U(EdgeOf(id)) = x})
           /\ s = SumFunctionOnSet(gainOf[x], 0 .. (n + 1) * BLOCK_SIZE_OP2 - 1)
    OBVIOUS
  <2>4. s = q + r
    BY <1>3, <1>6, <2>3, BlockAdds
  <2>5. p \in Int
    <3>1. kernel.from \in 0 .. Cardinality(Edges)
      <4>1. start \in 0 .. Cardinality(Edges) /\ Cardinality(Edges) \in Nat
        BY <1>1, LoopIs
      <4> QED BY <1>3, <4>1 DEF KernelOK
    <3>2. PICK J : J = kernel.from .. kernel.from - 1
      OBVIOUS
    <3>3. Parted(kernel.from, kernel.from, J)
      <4>1. kernel.from <= kernel.from
        BY <3>1
      <4> QED BY <1>1, <3>1, <3>2, <4>1, LoopIs, TakenIs
    <3>4. PICK S \in SUBSET Edges : S = Taken(edgeQueue, kernel.from)
      BY <3>3 DEF Parted
    <3>5. S \cap {} = {} /\ {} \in SUBSET Edges
      OBVIOUS
    <3>6. Added(commonOf, uOf, S, x) \in Int
      BY <1>3, <3>5, AddedIs
    <3> QED BY <2>3, <3>4, <3>6
  <2>6. q \in Int /\ r \in Int
    <3>1. PICK B \in Nat, y \in Nat : B = BLOCK_SIZE_OP2 /\ y = n * B
      <4>1. PICK B \in Nat : B = BLOCK_SIZE_OP2
        BY HalfIs
      <4>2. n * B \in Nat
        BY <1>6
      <4> QED BY <4>1, <4>2
    <3>2. PICK S : S = 0 .. y - 1 /\ IsFiniteSet(S) /\ S \subseteq Nat
      <4>1. IsFiniteSet(0 .. y - 1) /\ 0 .. y - 1 \subseteq Nat
        BY FS_Interval
      <4> QED BY <4>1
    <3>3. PICK g : g = gainOf[x] /\ \A id \in Nat : g[id] \in Int
      <4>1. \A id \in Nat : gainOf[x][id] = Gain(x, id) /\ Gain(x, id) \in Int
        BY <1>3, GainIs
      <4> QED BY ONLY <4>1
    <3>4. SumFunctionOnSet(g, S) \in Int
      BY <3>2, <3>3, SumType
    <3>5. q \in Int
      BY <2>3, <3>1, <3>2, <3>3, <3>4
    <3>6. r \in Int
      <4>1. PICK T : T = {id \in Counting(n) : U(EdgeOf(id)) = x}
        OBVIOUS
      <4>2. PICK f : f = [id \in Counting(n) |-> Count(id)]
        OBVIOUS
      <4>3. T \subseteq n * BLOCK_SIZE_OP2 .. (n + 1) * BLOCK_SIZE_OP2 - 1
        BY <4>1 DEF Counting
      <4>4. PICK w \in Int : w = (n + 1) * BLOCK_SIZE_OP2 - 1 /\ y = n * BLOCK_SIZE_OP2
        <5>1. n \in Nat /\ (n + 1) * B = n * B + B /\ B \in Nat
          BY <1>6
        <5>2. y + B - 1 \in Int
          OBVIOUS
        <5> QED BY ONLY <3>1, <5>1, <5>2
      <4>5. IsFiniteSet(T) /\ T \subseteq Nat
        <5>1. IsFiniteSet(y .. w) /\ y .. w \subseteq Nat
          <6>1. y \in Int /\ y .. w \subseteq Nat
            OBVIOUS
          <6> QED BY <6>1, FS_Interval
        <5> QED BY <4>3, <4>4, <5>1, FS_Subset
      <4>6. ASSUME NEW id \in T PROVE f[id] \in Int
        <5>1. id \in Counting(n) /\ U(EdgeOf(id)) = x /\ id \in Nat
          BY <4>1, <4>5
        <5>2. Gain(x, id) \in Int
          BY <1>3, <5>1, GainIs
        <5>3. Active(id)
          BY <5>1 DEF Counting, Active
        <5> QED BY <4>2, <5>1, <5>2, <5>3 DEF Gain
      <4>7. SumFunctionOnSet(f, T) \in Int
        BY <4>5, <4>6, SumType
      <4> QED BY <2>3, <4>1, <4>2, <4>7
    <3> QED BY <3>5, <3>6
  <2>7. p + q + r = p + (q + r)
    BY <2>5, <2>6
  <2> QED BY ONLY <2>1, <2>2, <2>3, <2>4, <2>7
<1>9. KernelRuns'
  <2>1. RunTo(n + 1)'
    BY <1>2, <1>6, <1>7, <1>8 DEF RunTo
  <2> QED BY <1>2, <1>3, <1>6, <1>7, <2>1 DEF KernelRuns
<1>10. QueueOK'
  BY <1>1, <1>2 DEF TriInv, QueueOK, LoopAt, InLoop
<1>11. HostOK' /\ NotYet'
  BY <1>1, <1>2 DEF TriInv, HostOK, NotYet
<1> QED BY <1>1, <1>9, <1>10, <1>11 DEF TriInv, BinsCounted, BinsPlaced, Counted, Finished

\* All blocks together have added what the edges of the range add.
LEMMA KernelDoneKeeps == ASSUME TriangleAssumption, TriInv, KernelDone PROVE TriInv'
<1>1. stage = "kernel" /\ stage' = "loop" /\ blocks = {}
  BY DEF KernelDone
<1>2. /\ Edges' = Edges /\ binOf' = binOf /\ Vertices' = Vertices /\ uOf' = uOf /\ commonOf' = commonOf
      /\ queuePos' = queuePos /\ edgeQueue' = edgeQueue /\ start' = start /\ united' = united
      /\ adj' = adj /\ workFactor' = workFactor /\ triPerVertex' = triPerVertex /\ phase' = phase
      /\ threadsLog' = threadsLog
  BY Frame DEF KernelDone, bins, loop
<1>3. GraphOK /\ KernelOK /\ kernel.to = start
  BY <1>1, LoopIs DEF TriInv, KernelRuns
<1>4. PICK n \in 0 .. BlocksOf : RunTo(n)
  BY <1>1 DEF TriInv, KernelRuns
<1>5. PICK w \in Nat, z \in Nat : /\ w = (kernel.to - kernel.from) * kernel.threads /\ z = BlocksOf
                                  /\ w <= z * BLOCK_SIZE_OP2 /\ z * BLOCK_SIZE_OP2 \in Nat
  <2>1. PICK k \in Nat, a \in Nat, c \in Nat : kernel.threads = PowerOfTwo[k] /\ a = kernel.from /\ c = kernel.to /\ a < c
    BY <1>3 DEF KernelOK
  <2>2. PICK w \in Nat : w = (kernel.to - kernel.from) * kernel.threads
    <3>1. PICK y \in Nat : y = c - a
      BY <2>1
    <3>2. PICK T \in Nat : T = kernel.threads
      BY <2>1, PowersAre
    <3>3. y * T \in Nat
      OBVIOUS
    <3> QED BY <2>1, <3>1, <3>2, <3>3
  <2>3. PICK B \in Nat \ {0} : B = BLOCK_SIZE_OP2
    BY HalfIs
  <2>4. CeilingDiv(w, B) \in Nat /\ w <= CeilingDiv(w, B) * B
    BY RoundsUp
  <2>5. PICK z \in Nat : z = CeilingDiv(w, B)
    BY <2>4
  <2>6. z * B \in Nat
    OBVIOUS
  <2>7. z = BlocksOf
    BY ONLY <2>2, <2>3, <2>5 DEF BlocksOf
  <2> QED BY ONLY <2>2, <2>3, <2>4, <2>5, <2>6, <2>7, w \in Nat, z \in Nat
<1>6. n = z
  <2>1. n .. z - 1 = {} /\ n \in 0 .. z
    BY <1>1, <1>4, <1>5 DEF RunTo
  <2>2. ~(n < z)
    <3> SUFFICES ASSUME n < z PROVE FALSE
      OBVIOUS
    <3>1. n \in n .. z - 1
      BY <2>1
    <3> QED BY <2>1, <3>1
  <2> QED BY <2>1, <2>2
<1>7. PICK a \in 0 .. Cardinality(Edges), c \in 0 .. Cardinality(Edges) :
         a = kernel.from /\ c = start /\ c = kernel.to /\ a <= c
  <2>1. start \in 0 .. Cardinality(Edges) /\ Cardinality(Edges) \in Nat
    BY <1>1, LoopIs
  <2> QED BY <1>3, <2>1 DEF KernelOK
<1> DEFINE J == a .. c - 1
<1>8. Parted(a, c, J)
  BY <1>1, <1>7, LoopIs, TakenIs
<1>9. ASSUME NEW x \in Vertices
      PROVE  triPerVertex[x] = Added(commonOf, uOf, Taken(edgeQueue, c), x)
  <2>1. triPerVertex[x] = Added(commonOf, uOf, Taken(edgeQueue, a), x)
                          + SumFunctionOnSet(gainOf[x], 0 .. z * BLOCK_SIZE_OP2 - 1)
    BY <1>4, <1>6, <1>7 DEF RunTo
  <2>2. SumFunctionOnSet(gainOf[x], 0 .. z * BLOCK_SIZE_OP2 - 1) = Added(commonOf, uOf, GivenIn(J), x)
    <3>1. \A i, j \in kernel.from .. kernel.to - 1 : edgeQueue[i] = edgeQueue[j] => i = j
      BY <1>7, <1>8 DEF Parted
    <3>2. SumFunctionOnSet(gainOf[x], 0 .. z * BLOCK_SIZE_OP2 - 1)
            = Added(commonOf, uOf, {edgeQueue[i] : i \in kernel.from .. kernel.to - 1}, x)
      BY <1>3, <1>5, <3>1, KernelSum
    <3>3. {edgeQueue[i] : i \in kernel.from .. kernel.to - 1} = GivenIn(J)
      BY <1>7 DEF GivenIn
    <3> QED BY <3>2, <3>3
  <2>3. PICK S, T : S = Taken(edgeQueue, a) /\ T = GivenIn(J)
    OBVIOUS
  <2>4. S \in SUBSET Edges /\ T \in SUBSET Edges /\ S \cap T = {} /\ S \cup T = Taken(edgeQueue, c)
    BY <1>8, <2>3 DEF Parted
  <2>5. Added(commonOf, uOf, S \cup T, x) = Added(commonOf, uOf, S, x) + Added(commonOf, uOf, T, x)
    BY <1>3, <2>4, AddedIs
  <2> QED BY ONLY <2>1, <2>2, <2>3, <2>4, <2>5
<1>10. Counted'
  BY <1>2, <1>7, <1>9 DEF Counted, CountsOf
<1>11. QueueOK'
  BY <1>1, <1>2 DEF TriInv, QueueOK, LoopAt, InLoop
<1>12. HostOK' /\ NotYet'
  BY <1>1, <1>2 DEF TriInv, HostOK, NotYet
<1> QED BY <1>1, <1>10, <1>11, <1>12 DEF TriInv, BinsCounted, BinsPlaced, KernelRuns, Finished

\* When the loop ends, the queue has been taken to its end.
LEMMA LoopEnds ==
    ASSUME TriangleAssumption, TriInv, stage = "loop", phase = "finished"
    PROVE  Taken(edgeQueue, start) = Edges
<1>1. PICK b \in 0 .. MAX_ADJ_UNIONS_BINS : LoopAt(b)
  BY DEF TriInv, QueueOK
<1>2. b = MAX_ADJ_UNIONS_BINS /\ start = queuePos[b]
  BY <1>1 DEF LoopAt
<1>3. start = Cardinality(Edges) /\ start \in 0 .. Cardinality(Edges) /\ Cardinality(Edges) \in Nat
  BY <1>2, LoopIs
<1>4. PICK J : J = start .. start - 1
  OBVIOUS
<1>5. Parted(start, start, J)
  <2>1. start <= start
    BY <1>3
  <2> QED BY <1>3, <1>4, <2>1, LoopIs, TakenIs
<1> QED BY <1>3, <1>5 DEF Parted

\* The loop returns with the whole queue taken.
LEMMA RunDoneKeeps == ASSUME TriangleAssumption, TriInv, RunDone PROVE TriInv'
<1>1. stage = "loop" /\ phase = "finished" /\ stage' = "done"
  BY DEF RunDone
<1>2. /\ Edges' = Edges /\ Vertices' = Vertices /\ uOf' = uOf /\ commonOf' = commonOf
      /\ united' = united /\ adj' = adj /\ workFactor' = workFactor /\ triPerVertex' = triPerVertex
  BY Frame DEF RunDone
<1>3. united = SetToBag(Edges) /\ CountsOf(Edges)
  BY <1>1, LoopEnds DEF TriInv, QueueOK, Counted
<1>4. HostOK' /\ NotYet'
  BY <1>1, <1>2 DEF TriInv, HostOK, NotYet
<1>5. Finished'
  BY <1>1, <1>2, <1>3 DEF Finished, CountsOf
<1> QED BY <1>1, <1>4, <1>5 DEF TriInv, BinsCounted, BinsPlaced, QueueOK, Counted, KernelRuns

\* The other actions leave alone what the invariant is about.
LEMMA TCNextKeeps == ASSUME TriangleAssumption PROVE TriInv /\ [TCNext]_tcVars => TriInv'
<1> SUFFICES ASSUME TriInv, [TCNext]_tcVars PROVE TriInv'
  OBVIOUS
<1>1. CASE LocalClusteringCoefficients
  <2>1. Edges' = Edges /\ Vertices' = Vertices
    BY <1>1, Frame DEF LocalClusteringCoefficients
  <2> QED BY <1>1, <2>1 DEF LocalClusteringCoefficients, TriInv, HostOK, NotYet, BinsCounted,
                            BinsPlaced, QueueOK, Counted, KernelRuns, Finished
<1>2. CASE Reset
  <2>1. Vertices' = Vertices
    BY <1>2, Frame DEF Reset
  <2> QED BY <1>2, <2>1 DEF Reset, TriInv, HostOK, NotYet, BinsCounted, BinsPlaced, QueueOK,
                            Counted, KernelRuns, Finished, EmptyBag, NoCounts
<1>3. CASE UNCHANGED tcVars
  <2>1. /\ adj' = adj /\ workFactor' = workFactor /\ stage' = stage /\ sizes' = sizes /\ queuePos' = queuePos
        /\ devicePos' = devicePos /\ placing' = placing /\ edgeQueue' = edgeQueue /\ phase' = phase
        /\ threadsLog' = threadsLog /\ start' = start /\ kernel' = kernel /\ blocks' = blocks
        /\ triPerVertex' = triPerVertex /\ united' = united
    BY <1>3 DEF tcVars, bins, loop, run
  <2>2. /\ Edges' = Edges /\ binOf' = binOf /\ Vertices' = Vertices /\ uOf' = uOf /\ commonOf' = commonOf
    BY <2>1, Frame
  <2>3. HostOK' /\ NotYet'
    BY <2>1, <2>2 DEF TriInv, HostOK, NotYet, NoCounts
  <2>4. BinsCounted' /\ BinsPlaced'
    BY <2>1, <2>2 DEF TriInv, BinsCounted, BinsPlaced
  <2>5. QueueOK'
    BY <2>1, <2>2 DEF TriInv, QueueOK, LoopAt, InLoop
  <2>6. Counted' /\ Finished'
    BY <2>1, <2>2 DEF TriInv, Counted, Finished, CountsOf
  <2>7. gainOf' = gainOf /\ BlocksOf' = BlocksOf /\ KernelOK' = KernelOK
    <3>1. gainOf' = gainOf
      BY <2>1, <2>2 DEF gainOf, Gain, Active, Avoided, EdgeOf, U, V, Count, UnionThread
    <3>2. BlocksOf' = BlocksOf
      BY <2>1 DEF BlocksOf
    <3>3. KernelOK' = KernelOK
      BY <2>1, <2>2 DEF KernelOK, U
    <3> QED BY <3>1, <3>2, <3>3
  <2>8. KernelRuns'
    BY <2>1, <2>2, <2>7 DEF TriInv, KernelRuns, RunTo
  <2> QED BY <2>3, <2>4, <2>5, <2>6, <2>8 DEF TriInv
<1> QED BY <1>1, <1>2, <1>3, CountBinsKeeps, ScanBinsKeeps, PlaceEdgeKeeps, PlaceDoneKeeps,
           LaunchRangeKeeps, RunBlockKeeps, KernelDoneKeeps, RunDoneKeeps DEF TCNext, TCRun

\* The invariant holds in every state.
LEMMA TriInvariance == ASSUME TriangleAssumption PROVE TCSpec => []TriInv
<1>1. TCInit => TriInv
  BY InitOK
<1>2. TriInv /\ [TCNext]_tcVars => TriInv'
  BY TCNextKeeps
<1> QED BY <1>1, <1>2, PTL DEF TCSpec

\* Whatever order the atomics of the placing kernel took, the queue has every
\* edge once, each between the host's sums for its bin.
THEOREM QueueIsSorted == TCSpec => []QueueSorted
<1>1. TriInv => QueueSorted
  <2> SUFFICES ASSUME TriInv, stage \in {"loop", "kernel"}
               PROVE  /\ DOMAIN edgeQueue = 0 .. nE - 1
                      /\ {edgeQueue[i] : i \in DOMAIN edgeQueue} = Edges
                      /\ \A e \in Edges : \E i \in queuePos[BinIndex(e)] .. queuePos[BinIndex(e) + 1] - 1 :
                            edgeQueue[i] = e
    BY DEF QueueSorted
  <2>1. Queued(Edges, binOf, MAX_ADJ_UNIONS_BINS, queuePos, edgeQueue) /\ Cardinality(Edges) \in Nat
    BY TriangleAssumption, LoopIs
  <2>2. /\ DOMAIN edgeQueue = 0 .. Cardinality(Edges) - 1
        /\ \A i \in DOMAIN edgeQueue : /\ edgeQueue[i] \in Edges
                                       /\ \A b \in 0 .. MAX_ADJ_UNIONS_BINS :
                                             i < queuePos[b] <=> binOf[edgeQueue[i]] < b
        /\ \A e \in Edges : \E i \in DOMAIN edgeQueue : edgeQueue[i] = e
    BY <2>1 DEF Queued
  <2>3. ASSUME NEW e \in Edges
        PROVE  \E i \in queuePos[BinIndex(e)] .. queuePos[BinIndex(e) + 1] - 1 : edgeQueue[i] = e
    <3>1. PICK m \in Nat, b \in Nat : /\ m = MAX_ADJ_UNIONS_BINS /\ b = binOf[e] /\ b = BinIndex(e)
                                     /\ b \in 0 .. m - 1
      <4>1. Binned(Edges, binOf, MAX_ADJ_UNIONS_BINS)
        BY TriangleAssumption, LoopIs
      <4>2. binOf[e] = BinIndex(e)
        BY DEF binOf
      <4>3. PICK m \in Nat : m = MAX_ADJ_UNIONS_BINS /\ binOf[e] \in 0 .. m - 1
        BY <4>1 DEF Binned
      <4>4. binOf[e] \in Nat
        BY <4>3
      <4> QED BY ONLY <4>2, <4>3, <4>4, m \in Nat
    <3>2. b \in 0 .. m /\ b + 1 \in 0 .. m
      BY ONLY <3>1, m \in Nat, b \in Nat
    <3>3. PICK i \in DOMAIN edgeQueue : edgeQueue[i] = e
      BY <2>2
    <3>4. ~(i < queuePos[b]) /\ i < queuePos[b + 1]
      <4>1. ~(b < b) /\ b < b + 1
        OBVIOUS
      <4> QED BY <2>2, <3>1, <3>2, <3>3, <4>1
    <3>5. i \in Nat /\ queuePos[b] \in Nat /\ queuePos[b + 1] \in Nat
      <4>1. PICK c \in Nat : c = Cardinality(Edges) /\ i \in 0 .. c - 1
        BY <2>1, <2>2
      <4>2. \A d \in 0 .. m : queuePos[d] \in 0 .. c
        BY TriangleAssumption, <3>1, <4>1, LoopIs
      <4> QED BY ONLY <3>2, <4>1, <4>2, c \in Nat
    <3>6. i \in queuePos[b] .. queuePos[b + 1] - 1
      BY <3>4, <3>5
    <3> QED BY <3>1, <3>3, <3>6
  <2> QED BY <2>2, <2>3 DEF nE
<1>2. TCSpec => []TriInv
  BY TriangleAssumption, TriInvariance
<1> QED BY <1>1, <1>2, PTL

\* The ranges the host launches give no edge to two kernels, and when run()
\* returns every edge has been given to one.
THEOREM EdgesUnited == TCSpec => []EachEdgeUnited
<1>1. TriInv => EachEdgeUnited
  <2> SUFFICES ASSUME TriInv PROVE EachEdgeUnited
    OBVIOUS
  <2>1. \E S : united = SetToBag(S) /\ (stage = "done" => S = Edges)
    BY Zenon DEF TriInv, HostOK, NotYet, QueueOK, Finished
  <2> QED BY <2>1 DEF EachEdgeUnited, BagToSet, SetToBag
<1>2. TCSpec => []TriInv
  BY TriangleAssumption, TriInvariance
<1> QED BY <1>1, <1>2, PTL

\* When run() returns, the count of each vertex is the sum of the common
\* neighbours of the edges counted at it.
THEOREM CountsAreExact == TCSpec => []CountsExact
<1>1. TriInv => CountsExact
  <2> SUFFICES ASSUME TriInv, stage = "done", NEW v \in Vertices
               PROVE  triPerVertex[v] = SumFunction([e \in {d \in Edges : U(d) = v} |-> Common(e)])
    BY DEF CountsExact
  <2>1. triPerVertex[v] = Added(commonOf, uOf, Edges, v)
    BY DEF TriInv, Finished, CountsOf
  <2>2. PICK S : S = {d \in Edges : U(d) = v}
    OBVIOUS
  <2>3. {d \in Edges : uOf[d] = v} = S
    BY <2>2 DEF uOf
  <2>4. PICK f : f = [e \in S |-> Common(e)]
    OBVIOUS
  <2>5. GraphOK
    BY TriangleAssumption, InvIs DEF TriInv
  <2>6. IsFiniteSet(S) /\ \A e \in S : f[e] \in Int /\ commonOf[e] = f[e]
    <3>1. IsFiniteSet(S)
      BY <2>2, <2>5, GraphEdgesAre, FS_Subset
    <3> QED BY <2>2, <2>4, <2>5, <3>1, CommonIs DEF commonOf
  <2>7. SumFunctionOnSet(f, S) = SumFunctionOnSet(commonOf, S)
    BY <2>6, SumSame
  <2>8. SumFunction(f) = SumFunctionOnSet(f, S)
    BY <2>4 DEF SumFunction
  <2> QED BY <2>1, <2>2, <2>3, <2>4, <2>7, <2>8 DEF Added
<1>2. TCSpec => []TriInv
  BY TriangleAssumption, TriInvariance
<1> QED BY <1>1, <1>2, PTL
=============================================================================
