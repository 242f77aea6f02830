----------------------------- MODULE Enumeration -----------------------------
(***************************************************************************)
(* Facts that the proofs of several components rest on: a set of naturals  *)
(* has a least element, the elements of a finite set that are told apart   *)
(* by ranks in 1 .. n are all reached by these ranks, a bag of finitely    *)
(* many items fills finitely many positions; induction over a set of       *)
(* numbers or a finite set; what a recursive function on the naturals      *)
(* computes; and the sum of a function over a finite set.                  *)
(***************************************************************************)
EXTENDS Integers, FiniteSetTheorems, WellFoundedInduction, TLAPS

\* Less-than on the naturals as a set of pairs.
LEMMA LessWellFounded == IsWellFoundedOn({ss \in Nat \X Nat : ss[1] < ss[2]}, Nat)
  BY NatLessThanWellFounded DEF OpToRel

\* A set of naturals that is not empty has a least element.
LEMMA LeastElement ==
    ASSUME NEW S \in SUBSET Nat, S # {}
    PROVE  \E x \in S : \A y \in S : x <= y
<1> DEFINE R == {ss \in Nat \X Nat : ss[1] < ss[2]}
<1>1. PICK x \in S : \A y \in S : ~(<<y, x>> \in R)
  <2>1. IsWellFoundedOn(R, Nat)
    BY LessWellFounded
  <2> HIDE DEF R
  <2> QED BY <2>1, WFMin, Zenon
<1>2. ASSUME NEW y \in S PROVE x <= y
  <2>1. ~(y < x)
    BY <1>1
  <2> QED BY <2>1
<1> QED BY <1>2

\* A set of naturals with an upper bound has a greatest element.
LEMMA GreatestElement ==
    ASSUME NEW S \in SUBSET Nat, S # {}, NEW n \in Nat, \A y \in S : y <= n
    PROVE  \E x \in S : \A y \in S : y <= x
<1> DEFINE T == {n - x : x \in S}
<1>1. T \in SUBSET Nat /\ T # {}
  <2>1. ASSUME NEW x \in S PROVE n - x \in Nat
    <3>1. x \in Nat /\ x <= n
      OBVIOUS
    <3> QED BY <3>1
  <2>2. T \in SUBSET Nat
    BY <2>1
  <2>3. T # {}
    OBVIOUS
  <2> QED BY <2>2, <2>3
<1>2. PICK t \in T : \A u \in T : t <= u
  <2> HIDE DEF T
  <2> QED BY <1>1, LeastElement
<1>3. PICK x \in S : t = n - x
  OBVIOUS
<1>4. ASSUME NEW y \in S PROVE y <= x
  <2>1. n - y \in T
    OBVIOUS
  <2>2. n - x <= n - y
    <3> HIDE DEF T
    <3> QED BY <2>1, <1>2, <1>3
  <2> QED BY <2>2
<1> QED BY <1>4

\* Ranks that differ reach every number up to the size of the set.
LEMMA RanksReachAll ==
    ASSUME NEW S, IsFiniteSet(S),
           NEW r \in [S -> 1 .. Cardinality(S)],
           \A x, y \in S : r[x] = r[y] => x = y,
           NEW n \in 1 .. Cardinality(S)
    PROVE  \E x \in S : r[x] = n
<1> DEFINE T == 1 .. Cardinality(S)
<1>1. Cardinality(S) \in Nat
  BY FS_CardinalityType
<1>2. IsFiniteSet(T) /\ Cardinality(T) = Cardinality(S)
  BY <1>1, FS_Interval
<1>3. r \in Injection(S, T)
  BY DEF Injection, IsInjective
<1>4. r \in Surjection(S, T)
  <2> HIDE DEF T
  <2> QED BY <1>2, <1>3, FS_Injection
<1> QED BY <1>4 DEF Surjection

-----------------------------------------------------------------------------
(* Bags of finitely many items: the buffers of the queues.                 *)

\* The positions that a buffer with b[i] copies of item i fills.
Filled(S, b) == UNION {{i} \X (1 .. b[i]) : i \in S}

\* A buffer has finitely many items.
LEMMA FilledFinite == ASSUME NEW S, IsFiniteSet(S), NEW b \in [S -> Nat]
                      PROVE  IsFiniteSet(Filled(S, b))
<1> DEFINE Of(i) == {i} \X (1 .. b[i])
           All == {Of(i) : i \in S}
<1>1. IsFiniteSet(All)
  <2>1. [i \in S |-> Of(i)] \in Surjection(S, All)
    BY DEF Surjection
  <2> QED BY <2>1, FS_Surjection
<1>2. ASSUME NEW C \in All PROVE IsFiniteSet(C)
  <2>1. PICK i \in S : C = Of(i)
    OBVIOUS
  <2>2. IsFiniteSet({i})
    BY FS_Singleton
  <2>3. b[i] \in Int /\ 1 \in Int
    OBVIOUS
  <2>4. IsFiniteSet(1 .. b[i])
    BY <2>3, FS_Interval
  <2> QED BY <2>1, <2>2, <2>4, FS_Product
<1> QED BY <1>1, <1>2, FS_UNION DEF Filled

\* Its counter is zero exactly if nothing is in it.
LEMMA FilledIsZero == ASSUME NEW S, IsFiniteSet(S), NEW b \in [S -> Nat]
                      PROVE  /\ Cardinality(Filled(S, b)) \in Nat
                             /\ Cardinality(Filled(S, b)) = 0 <=> b = [i \in S |-> 0]
<1>1. Filled(S, b) = {} <=> b = [i \in S |-> 0]
  <2>1. ASSUME Filled(S, b) = {}, NEW v \in S PROVE b[v] = 0
    <3>1. <<v, 1>> \notin Filled(S, b)
      BY <2>1
    <3>2. b[v] > 0 => <<v, 1>> \in {v} \X (1 .. b[v])
      OBVIOUS
    <3> QED BY <3>1, <3>2 DEF Filled
  <2>2. ASSUME b = [i \in S |-> 0] PROVE Filled(S, b) = {}
    BY <2>2 DEF Filled
  <2> QED BY <2>1, <2>2
<1> QED BY <1>1, FilledFinite, FS_EmptySet, FS_CardinalityType

\* One more copy of an item fills one more position.
LEMMA FilledByOne == ASSUME NEW S, IsFiniteSet(S), NEW b \in [S -> Nat], NEW v \in S
                     PROVE  Cardinality(Filled(S, [b EXCEPT ![v] = @ + 1]))
                              = Cardinality(Filled(S, b)) + 1
<1> DEFINE c == [b EXCEPT ![v] = @ + 1]
           new == <<v, b[v] + 1>>
<1>1. c \in [S -> Nat] /\ \A i \in S : c[i] = IF i = v THEN b[i] + 1 ELSE b[i]
  OBVIOUS
<1>2. new \notin Filled(S, b)
  BY DEF Filled
<1>3. Filled(S, c) = Filled(S, b) \cup {new}
  <2>1. ASSUME NEW s \in Filled(S, c) PROVE s \in Filled(S, b) \cup {new}
    <3>1. PICK i \in S : s \in {i} \X (1 .. c[i])
      BY DEF Filled
    <3>2. PICK k \in 1 .. c[i] : s = <<i, k>>
      BY <3>1
    <3>3. s = new \/ k \in 1 .. b[i]
      BY <1>1, <3>2
    <3> QED BY <3>2, <3>3 DEF Filled
  <2>2. ASSUME NEW s \in Filled(S, b) PROVE s \in Filled(S, c)
    <3>1. PICK i \in S : s \in {i} \X (1 .. b[i])
      BY DEF Filled
    <3>2. 1 .. b[i] \subseteq 1 .. c[i]
      BY <1>1
    <3>3. s \in {i} \X (1 .. c[i])
      BY <3>1, <3>2
    <3> QED BY <3>3 DEF Filled
  <2>3. new \in Filled(S, c)
    <3>1. b[v] + 1 \in 1 .. c[v]
      BY <1>1
    <3>2. new \in {v} \X (1 .. c[v])
      BY <3>1
    <3> QED BY <3>2 DEF Filled
  <2> QED BY <2>1, <2>2, <2>3
<1> HIDE DEF c, new
<1>4. Cardinality(Filled(S, c)) = Cardinality(Filled(S, b)) + 1
  BY <1>2, <1>3, FilledFinite, FS_AddElement
<1> QED BY <1>4 DEF c

\* A one-to-one correspondence relates sets of the same size.
LEMMA SameCount ==
    ASSUME NEW S, NEW T, IsFiniteSet(T), NEW f \in Bijection(S, T)
    PROVE  IsFiniteSet(S) /\ Cardinality(S) = Cardinality(T)
<1>1. f \in Injection(S, T) /\ f \in Surjection(S, T)
  BY DEF Bijection
<1> QED BY <1>1, FS_Injection

\* The items of D that have key e.
WithKey(D, key, e) == {x \in D : key[x] = e}

\* The items of a finite set, taken by a key, fill a bag that counts the items
\* of each key.
LEMMA BagOfKeys ==
    ASSUME NEW D, IsFiniteSet(D), NEW P, NEW key \in [D -> P], NEW c \in [P -> Nat],
           \A e \in P : c[e] = Cardinality(WithKey(D, key, e))
    PROVE  /\ IsFiniteSet(Filled(P, c))
           /\ Cardinality(Filled(P, c)) = Cardinality(D)
<1> DEFINE Of(e)     == WithKey(D, key, e)
           Pairing(e) == CHOOSE f \in Bijection(1 .. c[e], Of(e)) : TRUE
           g         == [z \in Filled(P, c) |-> Pairing(z[1])[z[2]]]
<1>1. ASSUME NEW e \in P PROVE Pairing(e) \in Bijection(1 .. c[e], Of(e))
  <2>1. IsFiniteSet(Of(e))
    BY FS_Subset DEF WithKey
  <2>2. ExistsBijection(1 .. c[e], Of(e))
    BY <2>1, FS_CardinalityType
  <2> QED BY <2>2 DEF ExistsBijection
<1>2. ASSUME NEW e \in P
      PROVE  /\ Pairing(e) \in [1 .. c[e] -> Of(e)]
             /\ \A i, j \in 1 .. c[e] : Pairing(e)[i] = Pairing(e)[j] => i = j
             /\ \A x \in Of(e) : \E i \in 1 .. c[e] : Pairing(e)[i] = x
  <2> HIDE DEF Pairing, Of
  <2> QED BY <1>1 DEF Bijection, Injection, Surjection, IsInjective
<1>3. \A z : z \in Filled(P, c) <=> \E e \in P : \E i \in 1 .. c[e] : z = <<e, i>>
  BY DEF Filled
<1> HIDE DEF Pairing
<1>4. ASSUME NEW z \in Filled(P, c)
      PROVE  z[1] \in P /\ z[2] \in 1 .. c[z[1]] /\ z = <<z[1], z[2]>>
  BY <1>3
<1>5. ASSUME NEW z \in Filled(P, c) PROVE g[z] \in D /\ key[g[z]] = z[1]
  BY <1>2, <1>4 DEF WithKey
<1>6. \A y, z \in Filled(P, c) : g[y] = g[z] => y = z
  <2> SUFFICES ASSUME NEW y \in Filled(P, c), NEW z \in Filled(P, c), g[y] = g[z]
               PROVE  y = z
    OBVIOUS
  <2>1. y[1] = z[1]
    BY <1>5
  <2>2. Pairing(y[1])[y[2]] = Pairing(z[1])[z[2]]
    OBVIOUS
  <2>3. y[2] = z[2]
    BY <2>1, <2>2, <1>2, <1>4
  <2> QED BY <2>1, <2>3, <1>4
<1>7. ASSUME NEW x \in D PROVE \E z \in Filled(P, c) : g[z] = x
  <2>1. key[x] \in P /\ x \in Of(key[x])
    BY DEF WithKey
  <2>2. PICK i \in 1 .. c[key[x]] : Pairing(key[x])[i] = x
    BY <2>1, <1>2
  <2>3. <<key[x], i>> \in Filled(P, c)
    BY <2>1, <1>3
  <2> QED BY <2>2, <2>3
<1>8. g \in [Filled(P, c) -> D]
  BY <1>5
<1>9. g \in Bijection(Filled(P, c), D)
  <2> HIDE DEF g
  <2> QED BY <1>6, <1>7, <1>8 DEF Bijection, Injection, Surjection, IsInjective
<1> QED BY <1>9, SameCount

\* A bag to which the items of a finite set are added by a key, item x as one
\* more of key[x], has that many items more.
LEMMA BagGrows ==
    ASSUME NEW P, IsFiniteSet(P), NEW c \in [P -> Nat], NEW a \in [P -> Nat],
           NEW n \in Nat, NEW key \in [1 .. n -> P],
           \A e \in P : a[e] = c[e] + Cardinality(WithKey(1 .. n, key, e))
    PROVE  Cardinality(Filled(P, a)) = Cardinality(Filled(P, c)) + n
<1> DEFINE New == {<<key[i], -i>> : i \in 1 .. n}
           D   == Filled(P, c) \cup New
           k   == [x \in D |-> x[1]]
<1>1. \A z : z \in Filled(P, c) <=> \E e \in P : \E i \in 1 .. c[e] : z = <<e, i>>
  BY DEF Filled
<1>2. IsFiniteSet(Filled(P, c)) /\ Cardinality(Filled(P, c)) \in Nat
  BY FilledFinite, FS_CardinalityType
<1>3. IsFiniteSet(1 .. n) /\ Cardinality(1 .. n) = n
  BY FS_Interval
<1>4. IsFiniteSet(New) /\ Cardinality(New) = n
  <2> DEFINE f == [z \in New |-> -z[2]]
  <2>1. ASSUME NEW z \in New PROVE \E i \in 1 .. n : z = <<key[i], -i>> /\ f[z] = i
    <3>1. PICK i \in 1 .. n : z = <<key[i], -i>>
      OBVIOUS
    <3>2. f[z] = -z[2] /\ z[2] = -i /\ -(-i) = i
      BY <3>1
    <3> QED BY <3>1, <3>2
  <2>2. \A i \in 1 .. n : <<key[i], -i>> \in New /\ f[<<key[i], -i>>] = i
    OBVIOUS
  <2>3. f \in [New -> 1 .. n]
    BY <2>1
  <2>4. ASSUME NEW y \in New, NEW z \in New, f[y] = f[z] PROVE y = z
    <3>1. PICK i \in 1 .. n : y = <<key[i], -i>> /\ f[y] = i
      BY <2>1
    <3>2. PICK j \in 1 .. n : z = <<key[j], -j>> /\ f[z] = j
      BY <2>1
    <3> QED BY <3>1, <3>2, <2>4
  <2>5. f \in Bijection(New, 1 .. n)
    <3> HIDE DEF f, New
    <3> QED BY <2>2, <2>3, <2>4 DEF Bijection, Injection, Surjection, IsInjective
  <2> QED BY <1>3, <2>5, SameCount
<1>5. Filled(P, c) \cap New = {}
  BY <1>1
<1>6. IsFiniteSet(D) /\ Cardinality(D) = Cardinality(Filled(P, c)) + n
  <2> HIDE DEF New
  <2>1. Cardinality(Filled(P, c) \cap New) = 0
    BY <1>5, FS_EmptySet
  <2>2. /\ IsFiniteSet(D)
        /\ Cardinality(D) = Cardinality(Filled(P, c)) + Cardinality(New)
                             - Cardinality(Filled(P, c) \cap New)
    BY ONLY <1>2, <1>4, FS_Union
  <2> QED BY <1>2, <1>4, <2>1, <2>2
<1>7. k \in [D -> P]
  BY <1>1
<1>8. ASSUME NEW e \in P PROVE a[e] = Cardinality(WithKey(D, k, e))
  <2> DEFINE Old == {x \in D : x \in Filled(P, c) /\ x[1] = e}
             Add == {x \in New : x[1] = e}
             I   == {i \in 1 .. n : key[i] = e}
  <2>1. WithKey(D, k, e) = Old \cup Add
    BY DEF WithKey
  <2>2. IsFiniteSet(Old) /\ Cardinality(Old) = c[e]
    <3> DEFINE f == [z \in Old |-> z[2]]
    <3>1. \A z \in Old : z[2] \in 1 .. c[e] /\ z = <<e, z[2]>>
      BY <1>1
    <3>2. \A i \in 1 .. c[e] : <<e, i>> \in Old /\ f[<<e, i>>] = i
      BY <1>1
    <3>3. f \in [Old -> 1 .. c[e]]
      BY <3>1
    <3>4. IsFiniteSet(1 .. c[e]) /\ Cardinality(1 .. c[e]) = c[e]
      BY FS_Interval
    <3>5. \A y, z \in Old : f[y] = f[z] => y = z
      BY <3>1
    <3>6. f \in Bijection(Old, 1 .. c[e])
      <4> HIDE DEF f, Old
      <4> QED BY <3>2, <3>3, <3>5 DEF Bijection, Injection, Surjection, IsInjective
    <3> QED BY <3>4, <3>6, SameCount
  <2>3. IsFiniteSet(Add) /\ Cardinality(Add) = Cardinality(I)
    <3> DEFINE f == [z \in Add |-> -z[2]]
    <3>1. \A z \in Add : -z[2] \in I /\ z = <<e, z[2]>> /\ z[2] \in Int
      OBVIOUS
    <3>2. \A i \in I : <<e, -i>> \in Add /\ f[<<e, -i>>] = i
      OBVIOUS
    <3>3. f \in [Add -> I]
      BY <3>1
    <3>4. IsFiniteSet(I)
      BY <1>3, FS_Subset
    <3>5. \A y, z \in Add : f[y] = f[z] => y = z
      <4>1. ASSUME NEW y \in Add, NEW z \in Add, f[y] = f[z] PROVE y = z
        <5>1. y = <<e, y[2]>> /\ z = <<e, z[2]>> /\ -y[2] = -z[2] /\ y[2] \in Int /\ z[2] \in Int
          BY <3>1, <4>1
        <5>2. y[2] = z[2]
          BY <5>1
        <5> QED BY <5>1, <5>2
      <4> QED BY <4>1
    <3>6. f \in Bijection(Add, I)
      <4> HIDE DEF f, Add, I
      <4> QED BY <3>2, <3>3, <3>5 DEF Bijection, Injection, Surjection, IsInjective
    <3> QED BY <3>4, <3>6, SameCount
  <2>4. Old \cap Add = {}
    BY <1>5
  <2>5. c[e] \in Nat /\ Cardinality(I) \in Nat
    BY <1>3, FS_Subset, FS_CardinalityType
  <2>9. a[e] = c[e] + Cardinality(I)
    BY DEF WithKey
  <2>10. Cardinality(WithKey(D, k, e)) = Cardinality(Old \cup Add)
    BY <2>1
  <2> HIDE DEF Old, Add, D, k, I
  <2>6. Cardinality(Old \cap Add) = 0
    BY <2>4, FS_EmptySet
  <2>7. Cardinality(Old \cup Add) = Cardinality(Old) + Cardinality(Add)
                                     - Cardinality(Old \cap Add)
    BY ONLY <2>2, <2>3, FS_Union
  <2>8. Cardinality(WithKey(D, k, e)) = Cardinality(Old) + Cardinality(Add)
    BY <2>2, <2>3, <2>5, <2>6, <2>7, <2>10
  <2> QED BY <2>2, <2>3, <2>8, <2>9
<1> HIDE DEF k, D
<1>9. Cardinality(Filled(P, a)) = Cardinality(D)
  BY <1>6, <1>7, <1>8, BagOfKeys
<1> QED BY <1>6, <1>9

-----------------------------------------------------------------------------
(* Induction over the naturals, with sets and functions for operators.     *)

\* Induction: a set that has 0, and with a number the next one, has all.
LEMMA SetInduction ==
    ASSUME NEW S, 0 \in S, \A n \in Nat : n \in S => n + 1 \in S
    PROVE  \A n \in Nat : n \in S
<1> DEFINE Bad == {n \in Nat : n \notin S}
<1>1. SUFFICES ASSUME Bad # {} PROVE FALSE
  OBVIOUS
<1>2. PICK n \in Bad : \A m \in Bad : n <= m
  <2>1. Bad \in SUBSET Nat
    OBVIOUS
  <2> HIDE DEF Bad
  <2> QED BY <1>1, <2>1, LeastElement
<1>3. n \in Nat /\ n # 0
  OBVIOUS
<1>4. n - 1 \in Nat /\ n - 1 \notin Bad
  BY <1>2, <1>3
<1>5. n - 1 + 1 \in S
  BY <1>4
<1> QED BY <1>3, <1>5

\* A function that is applied again and again has iterates.
LEMMA Iterates ==
    ASSUME NEW S, NEW x \in S, NEW f \in [S -> S]
    PROVE  \E g \in [Nat -> S] : g[0] = x /\ \A n \in Nat : g[n + 1] = f[g[n]]
<1> DEFINE First(n) == {h \in [0 .. n -> S] :
                          h[0] = x /\ \A i \in 0 .. n - 1 : h[i + 1] = f[h[i]]}
           All == {n \in Nat : First(n) # {}}
<1>1. \A n \in Nat : First(n) # {}
  <2>1. 0 \in All
    <3>1. [i \in 0 .. 0 |-> x] \in First(0)
      OBVIOUS
    <3> QED BY <3>1
  <2>2. ASSUME NEW n \in Nat, n \in All PROVE n + 1 \in All
    <3>1. PICK h \in First(n) : TRUE
      BY <2>2
    <3> DEFINE k == [i \in 0 .. n + 1 |-> IF i <= n THEN h[i] ELSE f[h[n]]]
    <3>2. h \in [0 .. n -> S] /\ h[0] = x /\ \A i \in 0 .. n - 1 : h[i + 1] = f[h[i]]
      BY <3>1
    <3>3. k \in [0 .. n + 1 -> S] /\ k[0] = x
      BY <3>2
    <3>4. ASSUME NEW i \in 0 .. n PROVE k[i + 1] = f[k[i]]
      BY <3>2
    <3>5. n + 1 - 1 = n
      OBVIOUS
    <3>6. k \in First(n + 1)
      <4> HIDE DEF k
      <4> QED BY <3>3, <3>4, <3>5
    <3> QED BY <3>6
  <2> HIDE DEF All
  <2>3. \A n \in Nat : n \in All
    BY <2>1, <2>2, SetInduction
  <2> QED BY <2>3 DEF All
<1>2. ASSUME NEW m \in Nat, NEW n \in Nat, NEW h \in First(m), NEW k \in First(n)
      PROVE  \A i \in Nat : i <= m /\ i <= n => h[i] = k[i]
  <2> DEFINE Same == {i \in Nat : i <= m /\ i <= n => h[i] = k[i]}
  <2>1. 0 \in Same
    OBVIOUS
  <2>2. ASSUME NEW i \in Nat, i \in Same PROVE i + 1 \in Same
    <3>1. CASE i + 1 <= m /\ i + 1 <= n
      <4>1. h[i] = k[i] /\ i \in 0 .. m - 1 /\ i \in 0 .. n - 1
        BY <2>2, <3>1
      <4>2. h[i + 1] = f[h[i]] /\ k[i + 1] = f[k[i]]
        BY <4>1
      <4> QED BY <4>1, <4>2
    <3> QED BY <3>1
  <2> HIDE DEF Same
  <2>3. \A i \in Nat : i \in Same
    BY <2>1, <2>2, SetInduction
  <2> QED BY <2>3 DEF Same
<1> DEFINE One(n) == CHOOSE h \in First(n) : TRUE
           g == [n \in Nat |-> One(n)[n]]
<1>3. \A n \in Nat : One(n) \in First(n)
  BY <1>1
<1>4. ASSUME NEW n \in Nat PROVE /\ One(n)[n] \in S /\ g[n + 1] = f[g[n]]
  <2>1. One(n) \in First(n) /\ One(n + 1) \in First(n + 1)
    <3> HIDE DEF One, First
    <3>1. n + 1 \in Nat
      OBVIOUS
    <3> QED BY <1>3, <3>1
  <2>2. PICK h, k : h = One(n) /\ k = One(n + 1)
    OBVIOUS
  <2>3. h \in First(n) /\ k \in First(n + 1)
    BY <2>1, <2>2
  <2> HIDE DEF One
  <2>4. h[n] \in S /\ g[n] = h[n] /\ g[n + 1] = k[n + 1]
    BY <2>2, <2>3
  <2>5. k[n + 1] = f[k[n]]
    <3>1. \A i \in 0 .. (n + 1) - 1 : k[i + 1] = f[k[i]]
      BY <2>3
    <3> QED BY <3>1
  <2>6. k[n] = h[n]
    <3>1. n + 1 \in Nat /\ n <= n /\ n <= n + 1
      OBVIOUS
    <3> HIDE DEF First
    <3> QED BY <1>2, <2>3, <3>1
  <2> QED BY <2>2, <2>4, <2>5, <2>6
<1>5. g[0] = x
  <2>1. One(0) \in First(0)
    <3> HIDE DEF One, First
    <3> QED BY <1>3
  <2> HIDE DEF One
  <2> QED BY <2>1
<1>6. g \in [Nat -> S]
  BY <1>4
<1> HIDE DEF g
<1> QED BY <1>4, <1>5, <1>6

-----------------------------------------------------------------------------
(* Definitions by recursion, and sums over finite sets.                     *)

\* A definition by recursion has a solution, if the value at x depends only on
\* values of lower rank.  F takes a function to the right side of its equation.
IsRecursion(D, Val, rank, F) ==
    /\ Val # {} /\ rank \in [D -> Nat] /\ F \in [[D -> Val] -> [D -> Val]]
    /\ \A g, h \in [D -> Val] : \A x \in D :
          (\A y \in D : rank[y] < rank[x] => g[y] = h[y]) => F[g][x] = F[h][x]

\* Such a definition has a solution.
LEMMA FixedPoint ==
    ASSUME NEW D, NEW Val, NEW rank, NEW F, IsRecursion(D, Val, rank, F)
    PROVE  \E g : g \in [D -> Val] /\ g = F[g]
<1>0. /\ Val # {} /\ rank \in [D -> Nat] /\ F \in [[D -> Val] -> [D -> Val]]
      /\ \A g, h \in [D -> Val] : \A x \in D :
            (\A y \in D : rank[y] < rank[x] => g[y] = h[y]) => F[g][x] = F[h][x]
  BY DEF IsRecursion
<1>1. PICK g0 : g0 \in [D -> Val]
  <2>1. PICK v : v \in Val
    BY <1>0
  <2>2. [x \in D |-> v] \in [D -> Val]
    BY <2>1
  <2> QED BY <2>2
<1>2. PICK G : /\ G \in [Nat -> [D -> Val]] /\ G[0] = g0
               /\ \A n \in Nat : G[n + 1] = F[G[n]]
  <2>1. PICK S : S = [D -> Val]
    OBVIOUS
  <2>2. g0 \in S /\ F \in [S -> S]
    BY <1>0, <1>1, <2>1
  <2>3. PICK g : g \in [Nat -> S] /\ g[0] = g0 /\ \A n \in Nat : g[n + 1] = F[g[n]]
    BY ONLY <2>2, Iterates
  <2> QED BY <2>1, <2>3
<1>3. ASSUME NEW n \in Nat, NEW m \in Nat, NEW x \in D,
             \A y \in D : rank[y] < rank[x] => G[n][y] = G[m][y]
      PROVE  G[n + 1][x] = G[m + 1][x]
  <2>1. G[n] \in [D -> Val] /\ G[m] \in [D -> Val]
    BY <1>2
  <2>2. F[G[n]][x] = F[G[m]][x]
    BY <1>0, <1>3, <2>1
  <2> QED BY <1>2, <2>2
\* From step rank[x] + 1 on, the value at x stays.
<1> DEFINE Stays == {n \in Nat : \A x \in D : rank[x] < n => G[n][x] = G[n + 1][x]}
<1>4. 0 \in Stays
  BY <1>0
<1>5. ASSUME NEW n \in Nat, n \in Stays PROVE n + 1 \in Stays
  <2> SUFFICES ASSUME NEW x \in D, rank[x] < n + 1 PROVE G[n + 1][x] = G[n + 1 + 1][x]
    OBVIOUS
  <2>1. ASSUME NEW y \in D, rank[y] < rank[x] PROVE G[n][y] = G[n + 1][y]
    <3>1. rank[y] < n
      BY <1>0, <2>1
    <3> QED BY <1>5, <3>1
  <2>2. n + 1 \in Nat
    OBVIOUS
  <2> QED BY <1>3, <2>1, <2>2
<1>6. \A n \in Nat : n \in Stays
  <2> HIDE DEF Stays
  <2> QED BY <1>4, <1>5, SetInduction
<1> DEFINE Later == {k \in Nat : \A x \in D : G[rank[x] + 1 + k][x] = G[rank[x] + 1][x]}
<1>7. 0 \in Later
  BY <1>0
<1>8. ASSUME NEW k \in Nat, k \in Later PROVE k + 1 \in Later
  <2> SUFFICES ASSUME NEW x \in D PROVE G[rank[x] + 1 + (k + 1)][x] = G[rank[x] + 1][x]
    OBVIOUS
  <2>1. PICK n \in Nat : n = rank[x] + 1 + k /\ rank[x] < n /\ n + 1 = rank[x] + 1 + (k + 1)
    <3>1. PICK r \in Nat : r = rank[x]
      BY <1>0
    <3>2. r + 1 + k \in Nat /\ r < r + 1 + k /\ r + 1 + k + 1 = r + 1 + (k + 1)
      OBVIOUS
    <3> QED BY <3>1, <3>2
  <2>2. G[n][x] = G[n + 1][x]
    BY <1>6, <2>1
  <2> QED BY <1>8, <2>1, <2>2
<1>9. \A k \in Nat : k \in Later
  <2> HIDE DEF Later
  <2> QED BY <1>7, <1>8, SetInduction
<1> DEFINE g == [x \in D |-> G[rank[x] + 1][x]]
<1>10. g \in [D -> Val]
  <2>1. ASSUME NEW x \in D PROVE G[rank[x] + 1][x] \in Val
    <3>1. rank[x] + 1 \in Nat
      BY <1>0
    <3>2. G[rank[x] + 1] \in [D -> Val]
      BY <1>2, <3>1
    <3> QED BY <3>2
  <2> QED BY <2>1
<1>11. ASSUME NEW x \in D PROVE g[x] = F[g][x]
  <2>1. PICK n \in Nat : n = rank[x]
    BY <1>0
  <2>2. G[n] \in [D -> Val] /\ g[x] = F[G[n]][x]
    BY <1>2, <2>1
  <2>3. ASSUME NEW y \in D, rank[y] < rank[x] PROVE g[y] = G[n][y]
    <3>1. PICK k \in Nat : k = n - rank[y] - 1 /\ rank[y] + 1 + k = n
      <4>1. PICK r \in Nat : r = rank[y] /\ r < n
        BY <1>0, <2>1, <2>3
      <4> QED BY <4>1
    <3>2. G[rank[y] + 1 + k][y] = G[rank[y] + 1][y]
      BY <1>9
    <3> QED BY <3>1, <3>2
  <2> HIDE DEF g
  <2>4. F[g][x] = F[G[n]][x]
    BY <1>0, <1>10, <2>2, <2>3
  <2> QED BY <2>2, <2>4
<1>12. g = F[g]
  <2>1. F[g] \in [D -> Val]
    BY <1>0, <1>10
  <2> HIDE DEF g
  <2> QED BY <1>10, <1>11, <2>1
<1> HIDE DEF g
<1> QED BY <1>10, <1>12

\* Removing an element from a finite set.
LEMMA OneLess ==
    ASSUME NEW S, IsFiniteSet(S), NEW x \in S
    PROVE  /\ IsFiniteSet(S \ {x})
           /\ Cardinality(S) \in Nat /\ Cardinality(S \ {x}) \in Nat
           /\ Cardinality(S) = Cardinality(S \ {x}) + 1
<1>1. /\ IsFiniteSet(S \ {x}) /\ Cardinality(S \ {x}) = Cardinality(S) - 1
  BY FS_RemoveElement
<1>2. Cardinality(S) \in Nat /\ Cardinality(S \ {x}) \in Nat
  BY <1>1, FS_CardinalityType
<1> QED BY <1>1, <1>2

\* A sum over a finite set is what is left when any element is taken out.
LEMMA SumSteps ==
    ASSUME NEW S, IsFiniteSet(S), NEW f, \A x \in S : f[x] \in Int
    PROVE  /\ SumFunctionOnSet(f, {}) = 0
           /\ \A T \in SUBSET S :
                 /\ SumFunctionOnSet(f, T) \in Int
                 /\ \A x \in T : SumFunctionOnSet(f, T) = f[x] + SumFunctionOnSet(f, T \ {x})
<1> DEFINE Choice(s) == CHOOSE x \in s : TRUE
           Add(it, s) == IF s = {} THEN 0 ELSE f[Choice(s)] + it[s \ {Choice(s)}]
           Iter(T) == CHOOSE it : it = [s \in SUBSET T |-> Add(it, s)]
<1>0. ASSUME NEW T \in SUBSET S PROVE IsFiniteSet(T)
  BY FS_Subset
<1>1. ASSUME NEW T PROVE SumFunctionOnSet(f, T) = Iter(T)[T]
  BY DEF SumFunctionOnSet, FoldFunctionOnSet, MapThenFoldSet
<1>2. ASSUME NEW s, s # {} PROVE Choice(s) \in s
  BY <1>2
<1> HIDE DEF Choice
<1>3. ASSUME NEW T \in SUBSET S PROVE Iter(T) = [s \in SUBSET T |-> Add(Iter(T), s)]
  <2> DEFINE D == SUBSET T
             rank == [s \in D |-> Cardinality(s)]
             F == [it \in [D -> Int] |-> [s \in D |-> Add(it, s)]]
  <2>1. rank \in [D -> Nat]
    BY <1>0, FS_CardinalityType
  <2>2. ASSUME NEW it \in [D -> Int], NEW s \in D PROVE Add(it, s) \in Int
    <3>1. CASE s = {}
      BY <3>1
    <3>2. CASE s # {}
      <4>1. Choice(s) \in s /\ s \ {Choice(s)} \in D
        BY <1>2, <3>2
      <4>2. f[Choice(s)] \in Int /\ it[s \ {Choice(s)}] \in Int
        BY <4>1
      <4> QED BY <4>2
    <3> QED BY <3>1, <3>2
  <2>3. F \in [[D -> Int] -> [D -> Int]]
    <3> HIDE DEF Add, D
    <3> QED BY <2>2
  <2>4. ASSUME NEW g \in [D -> Int], NEW h \in [D -> Int], NEW s \in D,
               \A y \in D : rank[y] < rank[s] => g[y] = h[y]
        PROVE  F[g][s] = F[h][s]
    <3>1. Add(g, s) = Add(h, s)
      <4>1. CASE s # {}
        <5>1. Choice(s) \in s /\ s \ {Choice(s)} \in D
          BY <1>2, <4>1
        <5>2. rank[s \ {Choice(s)}] < rank[s]
          BY <1>0, <5>1, OneLess
        <5>3. g[s \ {Choice(s)}] = h[s \ {Choice(s)}]
          <6> HIDE DEF rank, D
          <6> QED BY <2>4, <5>1, <5>2
        <5> QED BY <5>3
      <4> QED BY <4>1
    <3> HIDE DEF Add, D
    <3> QED BY <3>1
  <2>5. Int # {}
    OBVIOUS
  <2>6. \E g \in [D -> Int] : g = F[g]
    <3>1. IsRecursion(D, Int, rank, F)
      <4> HIDE DEF D, rank, F
      <4> QED BY <2>1, <2>3, <2>4, <2>5 DEF IsRecursion
    <3> HIDE DEF D, rank, F
    <3> QED BY <3>1, FixedPoint
  <2>7. \E g : g = [s \in D |-> Add(g, s)]
    <3> HIDE DEF Add, D
    <3> QED BY <2>6
  <2> HIDE DEF Add
  <2> QED BY <2>7
<1>4. ASSUME NEW T \in SUBSET S, NEW s \in SUBSET T PROVE Iter(T)[s] = Add(Iter(T), s)
  <2> HIDE DEF Add, Iter
  <2> QED BY <1>3
<1> HIDE DEF Iter
<1> DEFINE I == Iter(S)
           Same == {n \in Nat : \A T \in SUBSET S : \A s \in SUBSET T :
                      Cardinality(s) = n => Iter(T)[s] = I[s] /\ I[s] \in Int}
<1>5. 0 \in Same
  <2> SUFFICES ASSUME NEW T \in SUBSET S, NEW s \in SUBSET T, Cardinality(s) = 0
               PROVE  Iter(T)[s] = I[s] /\ I[s] \in Int
    OBVIOUS
  <2>1. s = {}
    BY <1>0, FS_EmptySet
  <2>2. Iter(T)[s] = 0 /\ Iter(S)[s] = 0
    BY <1>4, <2>1
  <2> QED BY <2>2
<1>6. ASSUME NEW n \in Nat, n \in Same PROVE n + 1 \in Same
  <2> SUFFICES ASSUME NEW T \in SUBSET S, NEW s \in SUBSET T, Cardinality(s) = n + 1
               PROVE  Iter(T)[s] = I[s] /\ I[s] \in Int
    OBVIOUS
  <2>1. s # {} /\ s \in SUBSET S /\ IsFiniteSet(s)
    BY <1>0, FS_EmptySet
  <2>2. PICK r : r = s \ {Choice(s)}
    OBVIOUS
  <2>3. Choice(s) \in s /\ r \in SUBSET T /\ Cardinality(r) = n
    <3>1. Choice(s) \in s /\ r \in SUBSET T
      BY <1>2, <2>1, <2>2
    <3>2. Cardinality(r) \in Nat /\ Cardinality(s) = Cardinality(r) + 1
      BY <2>1, <2>2, <3>1, OneLess
    <3> QED BY <3>1, <3>2
  <2>4. Iter(T)[r] = I[r] /\ I[r] \in Int
    BY <1>6, <2>3
  <2>5. Iter(T)[s] = f[Choice(s)] + Iter(T)[r] /\ I[s] = f[Choice(s)] + I[r]
    BY <1>4, <2>1, <2>2
  <2> QED BY <2>3, <2>4, <2>5
<1>7. \A n \in Nat : n \in Same
  <2> HIDE DEF Same
  <2> QED BY <1>5, <1>6, SetInduction
<1>8. ASSUME NEW T \in SUBSET S PROVE SumFunctionOnSet(f, T) = I[T] /\ I[T] \in Int
  <2>1. Cardinality(T) \in Nat
    BY <1>0, FS_CardinalityType
  <2>2. Cardinality(T) \in Same
    BY <1>7, <2>1
  <2>3. Iter(T)[T] = I[T] /\ I[T] \in Int
    BY <2>2
  <2> QED BY <1>1, <2>3
<1> DEFINE Whole == {n \in Nat : \A T \in SUBSET S : Cardinality(T) = n =>
                      \A x \in T : I[T] = f[x] + I[T \ {x}]}
<1>9. 0 \in Whole
  <2>1. ASSUME NEW T \in SUBSET S, Cardinality(T) = 0 PROVE T = {}
    BY <1>0, <2>1, FS_EmptySet
  <2> QED BY <2>1
<1>10. ASSUME NEW n \in Nat, n \in Whole PROVE n + 1 \in Whole
  <2> SUFFICES ASSUME NEW T \in SUBSET S, Cardinality(T) = n + 1, NEW x \in T
               PROVE  I[T] = f[x] + I[T \ {x}]
    OBVIOUS
  <2>1. PICK y : y = Choice(T)
    OBVIOUS
  <2>2. y \in T /\ IsFiniteSet(T)
    BY <1>0, <1>2, <2>1
  <2>3. I[T] = f[y] + I[T \ {y}]
    BY <1>4, <2>1, <2>2
  <2>4. CASE y = x
    BY <2>3, <2>4
  <2>5. CASE y # x
    <3>1. PICK A, B, C : A = T \ {x} /\ B = T \ {y} /\ C = (T \ {x}) \ {y}
      OBVIOUS
    <3>2. /\ A \in SUBSET S /\ B \in SUBSET S /\ C \in SUBSET S
          /\ y \in A /\ x \in B /\ A \ {y} = C /\ B \ {x} = C
      BY <2>2, <2>5, <3>1
    <3>3. Cardinality(A) = n /\ Cardinality(B) = n
      <4>1. /\ Cardinality(A) \in Nat /\ Cardinality(T) = Cardinality(A) + 1
            /\ Cardinality(B) \in Nat /\ Cardinality(T) = Cardinality(B) + 1
        BY <2>2, <3>1, OneLess
      <4> QED BY <4>1
    <3>4. I[A] = f[y] + I[C] /\ I[B] = f[x] + I[C]
      <4>1. \A z \in A : I[A] = f[z] + I[A \ {z}]
        BY <1>10, <3>2, <3>3
      <4>2. \A z \in B : I[B] = f[z] + I[B \ {z}]
        BY <1>10, <3>2, <3>3
      <4> HIDE DEF I
      <4> QED BY <3>2, <4>1, <4>2
    <3>5. I[C] \in Int /\ f[x] \in Int /\ f[y] \in Int
      BY <1>8, <2>2, <3>2
    <3>6. I[T] = f[y] + (f[x] + I[C])
      BY <2>3, <3>1, <3>4
    <3>7. f[x] + I[T \ {x}] = f[x] + (f[y] + I[C])
      BY <3>1, <3>4
    <3> HIDE DEF I
    <3> QED BY <3>5, <3>6, <3>7
  <2> QED BY <2>4, <2>5
<1>11. \A n \in Nat : n \in Whole
  <2> HIDE DEF Whole
  <2> QED BY <1>9, <1>10, SetInduction
<1>12. ASSUME NEW T \in SUBSET S, NEW x \in T
       PROVE  SumFunctionOnSet(f, T) = f[x] + SumFunctionOnSet(f, T \ {x})
  <2>1. Cardinality(T) \in Nat /\ T \ {x} \in SUBSET S
    BY <1>0, FS_CardinalityType
  <2>2. Cardinality(T) \in Whole
    BY <1>11, <2>1
  <2>3. I[T] = f[x] + I[T \ {x}]
    BY <2>2
  <2> HIDE DEF I, Whole
  <2> QED BY <1>8, <2>1, <2>3
<1>13. SumFunctionOnSet(f, {}) = 0
  <2>1. I[{}] = 0
    BY <1>4
  <2>2. {} \in SUBSET S
    OBVIOUS
  <2> HIDE DEF I
  <2> QED BY <1>8, <2>1, <2>2
<1> QED BY <1>8, <1>12, <1>13

\* Induction over a finite set: a family of sets that has the empty one, and with
\* a part of S the part with one more element, has S.
LEMMA FiniteInduction ==
    ASSUME NEW S, IsFiniteSet(S), NEW A, {} \in A,
           \A T \in SUBSET S : \A x \in S \ T : T \in A => T \cup {x} \in A
    PROVE  S \in A
<1> DEFINE Good == {n \in Nat : \A T \in SUBSET S : Cardinality(T) = n => T \in A}
<1>1. 0 \in Good
  <2>1. ASSUME NEW T \in SUBSET S, Cardinality(T) = 0 PROVE T = {}
    BY <2>1, FS_Subset, FS_EmptySet
  <2> QED BY <2>1
<1>2. ASSUME NEW n \in Nat, n \in Good PROVE n + 1 \in Good
  <2> SUFFICES ASSUME NEW T \in SUBSET S, Cardinality(T) = n + 1 PROVE T \in A
    OBVIOUS
  <2>1. IsFiniteSet(T) /\ T # {}
    BY FS_Subset, FS_EmptySet
  <2>2. PICK x \in T : TRUE
    BY <2>1
  <2>3. PICK R : R = T \ {x}
    OBVIOUS
  <2>4. Cardinality(R) \in Nat /\ Cardinality(T) = Cardinality(R) + 1
    BY <2>1, <2>2, <2>3, OneLess
  <2>5. R \in SUBSET S /\ Cardinality(R) = n /\ x \in S \ R /\ R \cup {x} = T
    BY <2>2, <2>3, <2>4
  <2>6. R \in A
    BY <1>2, <2>5
  <2> QED BY <2>5, <2>6
<1>3. \A n \in Nat : n \in Good
  <2> HIDE DEF Good
  <2> QED BY <1>1, <1>2, SetInduction
<1>4. Cardinality(S) \in Good
  <2> HIDE DEF Good
  <2> QED BY <1>3, FS_CardinalityType
<1> QED BY <1>4

\* A sum of integers is one, and the empty sum is zero.
LEMMA SumType ==
    ASSUME NEW S, IsFiniteSet(S), NEW f, \A x \in S : f[x] \in Int
    PROVE  SumFunctionOnSet(f, S) \in Int /\ SumFunctionOnSet(f, {}) = 0
  BY SumSteps

\* One more element.
LEMMA SumAdds ==
    ASSUME NEW S, IsFiniteSet(S), NEW x, x \notin S, NEW f,
           f[x] \in Int, \A y \in S : f[y] \in Int
    PROVE  SumFunctionOnSet(f, S \cup {x}) = SumFunctionOnSet(f, S) + f[x]
<1>1. PICK T : T = S \cup {x}
  OBVIOUS
<1>2. IsFiniteSet(T) /\ x \in T /\ T \ {x} = S /\ \A y \in T : f[y] \in Int
  BY <1>1, FS_AddElement
<1>3. SumFunctionOnSet(f, T) = f[x] + SumFunctionOnSet(f, T \ {x})
  <2>1. T \in SUBSET T
    OBVIOUS
  <2> QED BY <1>2, <2>1, SumSteps
<1>4. SumFunctionOnSet(f, S) \in Int
  BY SumType
<1>5. SumFunctionOnSet(f, T) = f[x] + SumFunctionOnSet(f, S)
  BY <1>2, <1>3
<1>6. PICK a, b \in Int : a = SumFunctionOnSet(f, S) /\ b = f[x]
  BY <1>4
<1>7. SumFunctionOnSet(f, T) = a + b
  BY <1>5, <1>6
<1> QED BY <1>1, <1>6, <1>7

\* Sums of functions that agree.
LEMMA SumSame ==
    ASSUME NEW S, IsFiniteSet(S), NEW f, NEW g, \A x \in S : f[x] \in Int /\ g[x] = f[x]
    PROVE  SumFunctionOnSet(f, S) = SumFunctionOnSet(g, S)
<1> DEFINE A == {T \in SUBSET S : SumFunctionOnSet(f, T) = SumFunctionOnSet(g, T)}
<1>1. {} \in A
  BY SumType
<1>2. ASSUME NEW T \in SUBSET S, NEW x \in S \ T, T \in A PROVE T \cup {x} \in A
  <2>1. IsFiniteSet(T) /\ \A y \in T : f[y] \in Int /\ g[y] \in Int
    BY FS_Subset
  <2>2. SumFunctionOnSet(f, T \cup {x}) = SumFunctionOnSet(f, T) + f[x]
    BY <2>1, SumAdds
  <2>3. SumFunctionOnSet(g, T \cup {x}) = SumFunctionOnSet(g, T) + g[x]
    BY <2>1, SumAdds
  <2> QED BY <1>2, <2>2, <2>3
<1>3. S \in A
  <2> HIDE DEF A
  <2> QED BY <1>1, <1>2, FiniteInduction
<1> QED BY <1>3

\* Sums over two sets that are apart.
LEMMA SumApart ==
    ASSUME NEW S, IsFiniteSet(S), NEW T, IsFiniteSet(T), S \cap T = {}, NEW f,
           \A x \in S \cup T : f[x] \in Int
    PROVE  SumFunctionOnSet(f, S \cup T) = SumFunctionOnSet(f, S) + SumFunctionOnSet(f, T)
<1> DEFINE A == {R \in SUBSET T : SumFunctionOnSet(f, S \cup R)
                                    = SumFunctionOnSet(f, S) + SumFunctionOnSet(f, R)}
<1>1. {} \in A
  <2>1. SumFunctionOnSet(f, S) \in Int /\ SumFunctionOnSet(f, {}) = 0
    BY SumType
  <2>2. S \cup {} = S
    OBVIOUS
  <2> QED BY <2>1, <2>2
<1>2. ASSUME NEW R \in SUBSET T, NEW x \in T \ R, R \in A PROVE R \cup {x} \in A
  <2>1. /\ IsFiniteSet(R) /\ IsFiniteSet(S \cup R) /\ x \notin S \cup R
        /\ \A y \in S \cup R : f[y] \in Int
        /\ f[x] \in Int
    BY FS_Subset, FS_Union
  <2>2. PICK Y : Y = S \cup R
    OBVIOUS
  <2>3. SumFunctionOnSet(f, Y \cup {x}) = SumFunctionOnSet(f, Y) + f[x]
    BY <2>1, <2>2, SumAdds
  <2>4. SumFunctionOnSet(f, R \cup {x}) = SumFunctionOnSet(f, R) + f[x]
    BY <2>1, SumAdds
  <2>5. Y \cup {x} = S \cup (R \cup {x})
    BY <2>2
  <2>6. SumFunctionOnSet(f, Y) = SumFunctionOnSet(f, S) + SumFunctionOnSet(f, R)
    BY <1>2, <2>2
  <2>7. PICK a, b, c \in Int : /\ a = SumFunctionOnSet(f, S)
                              /\ b = SumFunctionOnSet(f, R) /\ c = f[x]
    <3>1. SumFunctionOnSet(f, S) \in Int /\ SumFunctionOnSet(f, R) \in Int /\ f[x] \in Int
      <4>1. \A y \in S : f[y] \in Int
        OBVIOUS
      <4>2. \A y \in R : f[y] \in Int
        OBVIOUS
      <4> QED BY <2>1, <4>1, <4>2, SumType
    <3> QED BY <3>1
  <2>8. SumFunctionOnSet(f, S \cup (R \cup {x})) = (a + b) + c
    BY <2>3, <2>5, <2>6, <2>7
  <2>9. SumFunctionOnSet(f, R \cup {x}) = b + c
    BY <2>4, <2>7
  <2>10. SumFunctionOnSet(f, S \cup (R \cup {x}))
           = SumFunctionOnSet(f, S) + SumFunctionOnSet(f, R \cup {x})
    BY <2>7, <2>8, <2>9
  <2> QED BY <2>10
<1>3. T \in A
  <2> HIDE DEF A
  <2> QED BY <1>1, <1>2, FiniteInduction
<1> QED BY <1>3

\* A sum may be taken group by group.
LEMMA SumGroups ==
    ASSUME NEW S, IsFiniteSet(S), NEW f, \A x \in S : f[x] \in Int,
           NEW K, IsFiniteSet(K), NEW key, \A x \in S : key[x] \in K
    PROVE  SumFunctionOnSet(f, S)
             = SumFunctionOnSet([k \in K |-> SumFunctionOnSet(f, {x \in S : key[x] = k})], K)
<1> DEFINE Group(k) == {x \in S : key[x] = k}
           g == [k \in K |-> SumFunctionOnSet(f, Group(k))]
           Part(R) == {x \in S : key[x] \in R}
           A == {R \in SUBSET K : SumFunctionOnSet(f, Part(R)) = SumFunctionOnSet(g, R)}
<1>0. ASSUME NEW k \in K PROVE g[k] = SumFunctionOnSet(f, Group(k)) /\ g[k] \in Int
  <2>1. Group(k) \in SUBSET S
    OBVIOUS
  <2>2. SumFunctionOnSet(f, Group(k)) \in Int
    <3> HIDE DEF Group
    <3> QED BY <2>1, SumSteps
  <2> QED BY <2>2
<1> HIDE DEF g
<1>1. {} \in A
  <2>1. Part({}) = {}
    OBVIOUS
  <2>2. SumFunctionOnSet(f, {}) = 0
    BY SumType
  <2>3. SumFunctionOnSet(g, {}) = 0
    BY <1>0, SumType
  <2> HIDE DEF Part
  <2> QED BY <2>1, <2>2, <2>3
<1>2. ASSUME NEW R \in SUBSET K, NEW k \in K \ R, R \in A PROVE R \cup {k} \in A
  <2>1. /\ Part(R) \in SUBSET S /\ Group(k) \in SUBSET S
        /\ Part(R) \cap Group(k) = {} /\ Part(R \cup {k}) = Part(R) \cup Group(k)
    OBVIOUS
  <2>2. IsFiniteSet(R) /\ \A r \in R \cup {k} : g[r] \in Int
    BY <1>0, FS_Subset
  <2>3. SumFunctionOnSet(g, R \cup {k}) = SumFunctionOnSet(g, R) + g[k]
    BY <2>2, SumAdds
  <2>4. SumFunctionOnSet(f, Part(R)) = SumFunctionOnSet(g, R)
    BY <1>2
  <2> HIDE DEF Part, Group
  <2>5. IsFiniteSet(Part(R)) /\ IsFiniteSet(Group(k))
    BY <2>1, FS_Subset
  <2>6. \A x \in Part(R) \cup Group(k) : f[x] \in Int
    BY <2>1
  <2>7. SumFunctionOnSet(f, Part(R) \cup Group(k))
          = SumFunctionOnSet(f, Part(R)) + SumFunctionOnSet(f, Group(k))
    BY <2>1, <2>5, <2>6, SumApart
  <2> QED BY <1>0, <2>1, <2>3, <2>4, <2>7
<1>3. K \in A
  <2> HIDE DEF A
  <2> QED BY <1>1, <1>2, FiniteInduction
<1>4. Part(K) = S
  OBVIOUS
<1>5. SumFunctionOnSet(f, Part(K)) = SumFunctionOnSet(g, K)
  <2> HIDE DEF Part
  <2> QED BY <1>3
<1>6. g = [k \in K |-> SumFunctionOnSet(f, {x \in S : key[x] = k})]
  BY DEF g
<1> HIDE DEF Part
<1> QED BY <1>4, <1>5, <1>6

\* A sum in other names.
LEMMA SumRenamed ==
    ASSUME NEW S, IsFiniteSet(S), NEW f, NEW g, NEW b, \A x \in S : f[x] \in Int /\ g[b[x]] = f[x],
           \A x, y \in S : b[x] = b[y] => x = y
    PROVE  SumFunctionOnSet(f, S) = SumFunctionOnSet(g, {b[x] : x \in S})
<1> DEFINE Image(T) == {b[x] : x \in T}
           A == {T \in SUBSET S : /\ IsFiniteSet(Image(T))
                                  /\ SumFunctionOnSet(f, T) = SumFunctionOnSet(g, Image(T))}
<1>1. {} \in A
  <2>1. Image({}) = {}
    OBVIOUS
  <2>2. IsFiniteSet({}) /\ SumFunctionOnSet(f, {}) = 0 /\ SumFunctionOnSet(g, {}) = 0
    <3>1. IsFiniteSet({})
      BY FS_EmptySet
    <3> QED BY <3>1, SumType
  <2> HIDE DEF Image
  <2> QED BY <2>1, <2>2
<1>2. ASSUME NEW T \in SUBSET S, NEW x \in S \ T, T \in A PROVE T \cup {x} \in A
  <2>1. Image(T \cup {x}) = Image(T) \cup {b[x]} /\ b[x] \notin Image(T)
    OBVIOUS
  <2>2. \A z \in Image(T) : g[z] \in Int
    OBVIOUS
  <2>3. IsFiniteSet(T) /\ IsFiniteSet(Image(T)) /\ g[b[x]] = f[x] /\ f[x] \in Int
        /\ \A y \in T : f[y] \in Int
    BY <1>2, FS_Subset
  <2>4. SumFunctionOnSet(f, T) = SumFunctionOnSet(g, Image(T))
    BY <1>2
  <2> HIDE DEF Image
  <2>5. SumFunctionOnSet(f, T \cup {x}) = SumFunctionOnSet(f, T) + f[x]
    BY <2>3, SumAdds
  <2>6. SumFunctionOnSet(g, Image(T) \cup {b[x]}) = SumFunctionOnSet(g, Image(T)) + g[b[x]]
    <3>1. PICK I, z : I = Image(T) /\ z = b[x]
      OBVIOUS
    <3>2. IsFiniteSet(I) /\ z \notin I /\ g[z] \in Int /\ \A y \in I : g[y] \in Int
      BY <2>1, <2>2, <2>3, <3>1
    <3>3. SumFunctionOnSet(g, I \cup {z}) = SumFunctionOnSet(g, I) + g[z]
      BY <3>2, SumAdds
    <3> QED BY <3>1, <3>3
  <2>7. IsFiniteSet(Image(T) \cup {b[x]})
    BY <2>3, FS_AddElement
  <2> QED BY <2>1, <2>3, <2>4, <2>5, <2>6, <2>7
<1>3. S \in A
  <2> HIDE DEF A
  <2> QED BY <1>1, <1>2, FiniteInduction
<1> QED BY <1>3

\* A sum of ones is a number of elements.
LEMMA SumOfOnes ==
    ASSUME NEW S, IsFiniteSet(S), NEW f, \A x \in S : f[x] = 1
    PROVE  SumFunctionOnSet(f, S) = Cardinality(S)
<1> DEFINE A == {T \in SUBSET S : SumFunctionOnSet(f, T) = Cardinality(T)}
<1>1. {} \in A
  BY SumType, FS_EmptySet
<1>2. ASSUME NEW T \in SUBSET S, NEW x \in S \ T, T \in A PROVE T \cup {x} \in A
  <2>1. IsFiniteSet(T) /\ Cardinality(T \cup {x}) = Cardinality(T) + 1
    BY FS_Subset, FS_AddElement
  <2>2. f[x] = 1 /\ f[x] \in Int /\ \A y \in T : f[y] \in Int
    OBVIOUS
  <2>3. SumFunctionOnSet(f, T \cup {x}) = SumFunctionOnSet(f, T) + f[x]
    BY <2>1, <2>2, SumAdds
  <2> QED BY <1>2, <2>1, <2>2, <2>3
<1>3. S \in A
  <2> HIDE DEF A
  <2> QED BY <1>1, <1>2, FiniteInduction
<1> QED BY <1>3

\* Counting group by group.
LEMMA CountGroups ==
    ASSUME NEW S, IsFiniteSet(S), NEW K, IsFiniteSet(K), NEW key, \A x \in S : key[x] \in K
    PROVE  SumFunctionOnSet([k \in K |-> Cardinality({x \in S : key[x] = k})], K) = Cardinality(S)
<1> DEFINE f == [x \in S |-> 1]
           Group(k) == {x \in S : key[x] = k}
<1>1. \A x \in S : f[x] = 1
  OBVIOUS
<1> HIDE DEF f
<1>2. ASSUME NEW k \in K PROVE SumFunctionOnSet(f, Group(k)) = Cardinality(Group(k))
  <2>1. IsFiniteSet(Group(k)) /\ \A x \in Group(k) : f[x] = 1
    BY <1>1, FS_Subset
  <2> HIDE DEF Group
  <2> QED BY <2>1, SumOfOnes
<1>3. [k \in K |-> SumFunctionOnSet(f, Group(k))] = [k \in K |-> Cardinality(Group(k))]
  <2> HIDE DEF Group
  <2> QED BY <1>2
<1>4. SumFunctionOnSet(f, S) = SumFunctionOnSet([k \in K |-> SumFunctionOnSet(f, Group(k))], K)
  <2>1. \A x \in S : f[x] \in Int
    BY <1>1
  <2> QED BY <2>1, SumGroups
<1>5. SumFunctionOnSet(f, S) = Cardinality(S)
  BY <1>1, SumOfOnes
<1> HIDE DEF Group
<1>6. SumFunctionOnSet([k \in K |-> Cardinality(Group(k))], K) = Cardinality(S)
  BY <1>3, <1>4, <1>5
<1> QED BY <1>6 DEF Group

\* A number between the first and the last of some bounds that do not fall lies
\* between two that follow each other, and only there.
LEMMA OneInterval ==
    ASSUME NEW T \in Nat \ {0}, NEW b \in [0 .. T -> Nat],
           \A t \in 0 .. T - 1 : b[t] <= b[t + 1],
           NEW k \in Nat, b[0] <= k, k < b[T]
    PROVE  /\ \E t \in 0 .. T - 1 : b[t] <= k /\ k < b[t + 1]
           /\ \A s, t \in 0 .. T - 1 :
                 b[s] <= k /\ k < b[s + 1] /\ b[t] <= k /\ k < b[t + 1] => s = t
<1> DEFINE S == {t \in 0 .. T : k < b[t]}
<1>1. PICK x \in S : \A y \in S : x <= y
  <2>1. T \in S
    OBVIOUS
  <2>2. S \in SUBSET Nat /\ S # {}
    BY <2>1
  <2> HIDE DEF S
  <2> QED BY <2>2, LeastElement
<1>2. PICK t \in 0 .. T - 1 : t + 1 = x
  <2>1. b[0] \in Nat /\ x \in 0 .. T /\ k < b[x]
    BY <1>1
  <2>2. x # 0
    BY <2>1
  <2>3. x - 1 \in 0 .. T - 1 /\ (x - 1) + 1 = x
    BY <2>1, <2>2
  <2> QED BY <2>3
<1>3. b[t] <= k /\ k < b[t + 1]
  <2>1. t \in 0 .. T /\ ~(x <= t)
    BY <1>2
  <2>2. ~(k < b[t]) /\ b[t] \in Nat
    BY <1>1, <2>1
  <2> QED BY <1>1, <1>2, <2>2
\* The bounds grow.
<1> DEFINE A == {m \in Nat : \A s \in 0 .. T : s + m \in 0 .. T => b[s] <= b[s + m]}
<1>4. 0 \in A
  <2>1. \A s \in 0 .. T : s + 0 = s /\ b[s] \in Nat
    OBVIOUS
  <2> QED BY <2>1
<1>5. ASSUME NEW m \in Nat, m \in A PROVE m + 1 \in A
  <2> SUFFICES ASSUME NEW s \in 0 .. T, s + (m + 1) \in 0 .. T PROVE b[s] <= b[s + (m + 1)]
    OBVIOUS
  <2>1. PICK r \in 0 .. T - 1 : r = s + m /\ r + 1 = s + (m + 1)
    <3>1. s + m \in 0 .. T - 1 /\ (s + m) + 1 = s + (m + 1)
      OBVIOUS
    <3> QED BY <3>1
  <2>2. r \in 0 .. T /\ r + 1 \in 0 .. T
    BY <2>1
  <2>3. b[s] <= b[r] /\ b[r] <= b[r + 1] /\ b[s] \in Nat /\ b[r] \in Nat /\ b[r + 1] \in Nat
    BY <1>5, <2>1, <2>2
  <2> QED BY <2>1, <2>3
<1>6. \A m \in Nat : m \in A
  <2> HIDE DEF A
  <2> QED BY <1>4, <1>5, SetInduction
<1>7. ASSUME NEW s \in 0 .. T, NEW r \in 0 .. T, s <= r PROVE b[s] <= b[r]
  <2>1. r - s \in Nat /\ s + (r - s) = r
    BY <1>7
  <2> QED BY <1>6, <2>1
<1>8. ASSUME NEW s \in 0 .. T - 1, NEW r \in 0 .. T - 1, s < r, k < b[s + 1], b[r] <= k
      PROVE  FALSE
  <2>1. s + 1 \in 0 .. T /\ r \in 0 .. T /\ s + 1 <= r
    BY <1>8
  <2>2. b[s + 1] <= b[r] /\ b[s + 1] \in Nat /\ b[r] \in Nat
    BY <1>7, <2>1
  <2> QED BY <1>8, <2>2
<1>9. ASSUME NEW s \in 0 .. T - 1, NEW r \in 0 .. T - 1,
             b[s] <= k, k < b[s + 1], b[r] <= k, k < b[r + 1]
      PROVE  s = r
  <2>1. ~(s < r) /\ ~(r < s)
    BY <1>8, <1>9
  <2> QED BY <2>1
<1> QED BY <1>3, <1>9

\* A list whose neighbours rise, rises.
LEMMA StepsRise ==
    ASSUME NEW l, NEW n \in Nat, \A i \in 1 .. n : l[i] \in Nat,
           \A i \in 1 .. n - 1 : l[i] < l[i + 1]
    PROVE  \A i, j \in 1 .. n : i < j => l[i] < l[j]
<1> DEFINE A == {k \in Nat : \A i, j \in 1 .. n : i < j /\ j <= k => l[i] < l[j]}
<1>1. 0 \in A
  OBVIOUS
<1>2. ASSUME NEW k \in Nat, k \in A PROVE k + 1 \in A
  <2>1. ASSUME NEW i \in 1 .. n, NEW j \in 1 .. n, i < j, j <= k + 1 PROVE l[i] < l[j]
    <3>1. CASE j <= k
      BY <1>2, <2>1, <3>1
    <3>2. CASE j = k + 1
      <4>1. k \in 1 .. n - 1 /\ k \in 1 .. n /\ k + 1 \in 1 .. n
        BY <2>1, <3>2
      <4>2. l[k] < l[k + 1] /\ l[k] \in Nat /\ l[k + 1] \in Nat /\ l[i] \in Nat
        BY <4>1
      <4>3. CASE i = k
        BY <3>2, <4>2, <4>3
      <4>4. CASE i # k
        <5>1. i < k
          BY <2>1, <3>2, <4>4
        <5>2. l[i] < l[k]
          BY <1>2, <4>1, <5>1
        <5> QED BY <3>2, <4>2, <5>2
      <4> QED BY <4>3, <4>4
    <3> QED BY <2>1, <3>1, <3>2
  <2> QED BY <2>1
<1>3. \A k \in Nat : k \in A
  <2> HIDE DEF A
  <2> QED BY <1>1, <1>2, SetInduction
<1>4. n \in A
  BY <1>3
<1> QED BY <1>4

\* Sums of numbers that are not negative grow with the set.
LEMMA SumOfNats ==
    ASSUME NEW S, IsFiniteSet(S), NEW f, \A x \in S : f[x] \in Nat
    PROVE  SumFunctionOnSet(f, S) \in Nat
<1> DEFINE A == {T \in SUBSET S : SumFunctionOnSet(f, T) \in Nat}
<1>1. {} \in A
  <2>1. \A x \in S : f[x] \in Int
    OBVIOUS
  <2> QED BY <2>1, SumType
<1>2. ASSUME NEW T \in SUBSET S, NEW x \in S \ T, T \in A PROVE T \cup {x} \in A
  <2>1. IsFiniteSet(T) /\ x \notin T /\ f[x] \in Int /\ \A y \in T : f[y] \in Int
    BY FS_Subset
  <2>2. SumFunctionOnSet(f, T \cup {x}) = SumFunctionOnSet(f, T) + f[x]
    BY <2>1, SumAdds
  <2>3. SumFunctionOnSet(f, T) \in Nat /\ f[x] \in Nat
    BY <1>2
  <2>4. T \cup {x} \in SUBSET S
    OBVIOUS
  <2> QED BY <2>2, <2>3, <2>4
<1>3. S \in A
  <2> HIDE DEF A
  <2> QED BY <1>1, <1>2, FiniteInduction
<1> QED BY <1>3

\* The sum over a part is no larger than the sum over the whole.
LEMMA SumOfPart ==
    ASSUME NEW S, IsFiniteSet(S), NEW f, \A x \in S : f[x] \in Nat, NEW T \in SUBSET S
    PROVE  /\ SumFunctionOnSet(f, T) \in Nat /\ SumFunctionOnSet(f, S) \in Nat
           /\ SumFunctionOnSet(f, T) <= SumFunctionOnSet(f, S)
<1>1. IsFiniteSet(T) /\ IsFiniteSet(S \ T)
  BY FS_Subset
<1>2. /\ SumFunctionOnSet(f, T) \in Nat /\ SumFunctionOnSet(f, S \ T) \in Nat
      /\ SumFunctionOnSet(f, S) \in Nat
  BY <1>1, SumOfNats
<1>3. T \cup (S \ T) = S /\ T \cap (S \ T) = {} /\ \A x \in T \cup (S \ T) : f[x] \in Int
  OBVIOUS
<1>4. SumFunctionOnSet(f, T \cup (S \ T))
        = SumFunctionOnSet(f, T) + SumFunctionOnSet(f, S \ T)
  BY <1>1, <1>3, SumApart
<1> QED BY <1>2, <1>3, <1>4

\* The sum of sums.
LEMMA SumPlus ==
    ASSUME NEW S, IsFiniteSet(S), NEW f, NEW g, NEW h,
           \A x \in S : f[x] \in Int /\ g[x] \in Int /\ h[x] = f[x] + g[x]
    PROVE  SumFunctionOnSet(h, S) = SumFunctionOnSet(f, S) + SumFunctionOnSet(g, S)
<1> DEFINE A == {T \in SUBSET S :
                   SumFunctionOnSet(h, T) = SumFunctionOnSet(f, T) + SumFunctionOnSet(g, T)}
<1>1. {} \in A
  <2>1. SumFunctionOnSet(h, {}) = 0 /\ SumFunctionOnSet(f, {}) = 0 /\ SumFunctionOnSet(g, {}) = 0
    <3>1. \A x \in S : h[x] \in Int
      OBVIOUS
    <3> QED BY <3>1, SumType
  <2> QED BY <2>1
<1>2. ASSUME NEW T \in SUBSET S, NEW x \in S \ T, T \in A PROVE T \cup {x} \in A
  <2>1. IsFiniteSet(T) /\ \A y \in T \cup {x} : f[y] \in Int /\ g[y] \in Int /\ h[y] \in Int
    BY FS_Subset
  <2>2. SumFunctionOnSet(f, T \cup {x}) = SumFunctionOnSet(f, T) + f[x]
    BY <2>1, SumAdds
  <2>3. SumFunctionOnSet(g, T \cup {x}) = SumFunctionOnSet(g, T) + g[x]
    BY <2>1, SumAdds
  <2>4. SumFunctionOnSet(h, T \cup {x}) = SumFunctionOnSet(h, T) + h[x]
    BY <2>1, SumAdds
  <2>5. PICK p \in Int, q \in Int, r \in Int, s \in Int :
           p = SumFunctionOnSet(f, T) /\ q = SumFunctionOnSet(g, T) /\ r = f[x] /\ s = g[x]
    BY <2>1, SumType
  <2>6. SumFunctionOnSet(h, T) = p + q /\ h[x] = r + s
    BY <1>2, <2>5
  <2>7. SumFunctionOnSet(h, T \cup {x}) = (p + r) + (q + s)
    BY <2>4, <2>5, <2>6
  <2>8. SumFunctionOnSet(f, T \cup {x}) = p + r /\ SumFunctionOnSet(g, T \cup {x}) = q + s
    BY <2>2, <2>3, <2>5
  <2>9. T \cup {x} \in SUBSET S
    OBVIOUS
  <2> QED BY <2>7, <2>8, <2>9
<1>3. S \in A
  <2> HIDE DEF A
  <2> QED BY <1>1, <1>2, FiniteInduction
<1> QED BY <1>3

\* The sum of the marks of a set is its size.
LEMMA SumOfMarks ==
    ASSUME NEW S, IsFiniteSet(S), NEW B \in SUBSET S, NEW f,
           \A x \in S : f[x] = IF x \in B THEN 1 ELSE 0
    PROVE  SumFunctionOnSet(f, S) = Cardinality(B)
<1> DEFINE A == {T \in SUBSET S : SumFunctionOnSet(f, T) = Cardinality(T \cap B)}
<1>1. {} \in A
  <2>1. SumFunctionOnSet(f, {}) = 0
    <3>1. \A x \in S : f[x] \in Int
      OBVIOUS
    <3> QED BY <3>1, SumType
  <2>2. {} \cap B = {}
    OBVIOUS
  <2> QED BY <2>1, <2>2, FS_EmptySet
<1>2. ASSUME NEW T \in SUBSET S, NEW x \in S \ T, T \in A PROVE T \cup {x} \in A
  <2>1. IsFiniteSet(T) /\ IsFiniteSet(T \cap B) /\ \A y \in T \cup {x} : f[y] \in Int
    BY FS_Subset
  <2>2. SumFunctionOnSet(f, T \cup {x}) = SumFunctionOnSet(f, T) + f[x]
    BY <2>1, SumAdds
  <2>3. SumFunctionOnSet(f, T) = Cardinality(T \cap B) /\ Cardinality(T \cap B) \in Nat
    BY <1>2, <2>1, FS_CardinalityType
  <2>4. CASE x \in B
    <3>1. (T \cup {x}) \cap B = (T \cap B) \cup {x} /\ x \notin T \cap B
      BY <2>4
    <3>2. Cardinality((T \cup {x}) \cap B) = Cardinality(T \cap B) + 1
      BY <2>1, <3>1, FS_AddElement
    <3> QED BY <2>2, <2>3, <2>4, <3>2
  <2>5. CASE x \notin B
    <3>1. (T \cup {x}) \cap B = T \cap B
      BY <2>5
    <3>2. f[x] = 0
      BY <2>5
    <3>3. SumFunctionOnSet(f, T \cup {x}) = SumFunctionOnSet(f, T)
      BY <2>2, <2>3, <3>2
    <3> QED BY <2>3, <3>1, <3>3
  <2> QED BY <2>4, <2>5
<1>3. S \in A
  <2> HIDE DEF A
  <2> QED BY <1>1, <1>2, FiniteInduction
<1>4. S \cap B = B
  OBVIOUS
<1> QED BY <1>3, <1>4

\* The product of two numbers, for leaves that would have to multiply.
LEMMA QuotientOf ==
    ASSUME NEW n \in Nat, NEW T \in Nat \ {0}
    PROVE  \E q \in Nat, r \in 0 .. T - 1 :
              q = n \div T /\ r = n % T /\ n = q * T + r /\ n = T * q + r
<1>1. PICK q \in Nat, r \in 0 .. T - 1 : q = n \div T /\ r = n % T /\ n = q * T + r
  OBVIOUS
<1>2. q * T = T * q
  OBVIOUS
<1> QED BY <1>1, <1>2
=============================================================================
