---------------------------- MODULE BoardProofs ----------------------------
(***************************************************************************)
(* Theorems about Board, for every set of names and of specifications: an  *)
(* evaluation gives what its name stands for, an iteration gives each name *)
(* that stays once, and the client's names are those of a Namespace.       *)
(***************************************************************************)
EXTENDS Board, TLAPS, FiniteSetTheorems, SequenceTheorems, WellFoundedInduction

-----------------------------------------------------------------------------
(***************************************************************************)
(* Numbers, and what is computed step by step.                             *)
(***************************************************************************)
(* A non-empty set of naturals has a least one.                            *)
LEMMA LeastNat ==
    ASSUME NEW S \in SUBSET Nat, S # {}
    PROVE  \E l \in S : \A m \in S : l <= m
<1> DEFINE R == OpToRel(<, Nat)
<1>1. IsWellFoundedOn(R, Nat)
    BY NatLessThanWellFounded, Zenon
<1>2. \A x, y \in Nat : x < y => <<x, y>> \in R
    BY Zenon DEF OpToRel
<1> HIDE DEF R
<1>3. PICK l \in S : \A m \in S : ~(<<m, l>> \in R)
    BY <1>1, WFMin, Zenon
<1>4. \A m \in S : ~(m < l)
    BY <1>2, <1>3, Zenon
<1>5. QED
    BY <1>4

(* The least of a set of naturals is one of them.                          *)
LEMMA MinIsIn ==
    ASSUME NEW S \in SUBSET Nat, S # {}
    PROVE  Min(S) \in S
<1>1. \E l \in S : \A m \in S : l <= m
    BY LeastNat
<1>2. QED
    BY <1>1, Zenon DEF Min

(* What holds at the start, and after each step, holds up to the end.      *)
LEMMA UpTo ==
    ASSUME NEW N \in Nat, NEW P, 0 \in P, \A n \in 1 .. N : n - 1 \in P => n \in P
    PROVE  \A n \in 0 .. N : n \in P
<1> DEFINE S == {n \in 0 .. N : n \notin P}
<1>1. SUFFICES ASSUME S # {} PROVE FALSE
    OBVIOUS
<1>2. PICK l \in S : \A m \in S : l <= m
    <2>1. S \in SUBSET Nat
        OBVIOUS
    <2> HIDE DEF S
    <2>2. QED
        BY <1>1, <2>1, LeastNat
<1>3. l \in 1 .. N /\ l - 1 \in 0 .. N /\ ~(l <= l - 1)
    OBVIOUS
<1>4. l - 1 \in P
    BY <1>2, <1>3
<1>5. QED
    BY <1>3, <1>4

(* What is computed in steps, from a value of a first type, each step from *)
(* a type to the next one, is computed.                                    *)
Steps(g, N, a, F) == g = [n \in 0 .. N |-> IF n = 0 THEN a ELSE F[n][g[n - 1]]]
Typed(g, N, X)    == \A n \in 0 .. N : g[n] \in X[n]

LEMMA Iterated ==
    ASSUME NEW N \in Nat, NEW X, NEW F, NEW a, a \in X[0],
           \A n \in 1 .. N : \A x \in X[n - 1] : F[n][x] \in X[n]
    PROVE  \E g : Steps(g, N, a, F) /\ Typed(g, N, X)
<1> DEFINE Made(g, m) ==
             /\ g = [n \in 0 .. m |-> IF n = 0 THEN a ELSE F[n][g[n - 1]]]
             /\ \A n \in 0 .. m : g[n] \in X[n]
           P == {m \in 0 .. N : \E g : Made(g, m)}
<1>1. 0 \in P
    <2> DEFINE g == [n \in 0 .. 0 |-> a]
    <2>1. g = [n \in 0 .. 0 |-> IF n = 0 THEN a ELSE F[n][g[n - 1]]]
        OBVIOUS
    <2>2. \A n \in 0 .. 0 : g[n] \in X[n]
        OBVIOUS
    <2>3. Made(g, 0)
        BY <2>1, <2>2, Zenon
    <2>4. 0 \in 0 .. N
        OBVIOUS
    <2>5. QED
        BY <2>3, <2>4, Zenon
<1>2. ASSUME NEW m \in 1 .. N, m - 1 \in P PROVE m \in P
    <2>1. PICK g : Made(g, m - 1)
        BY <1>2
    <2> DEFINE h == [n \in 0 .. m |-> IF n = m THEN F[m][g[m - 1]] ELSE g[n]]
    <2>2. m - 1 \in 0 .. (m - 1) /\ m \in Nat /\ m # 0
        OBVIOUS
    <2>3. \A n \in 0 .. (m - 1) : n \in 0 .. m /\ n # m /\ (n # 0 => n - 1 \in 0 .. (m - 1))
        OBVIOUS
    <2>4. \A n \in 0 .. m : n = m \/ n \in 0 .. (m - 1)
        OBVIOUS
    <2>5. h[m] = F[m][g[m - 1]] /\ \A n \in 0 .. (m - 1) : h[n] = g[n]
        BY <2>2, <2>3
    <2>6. \A n \in 0 .. m : h[n] = IF n = 0 THEN a ELSE F[n][h[n - 1]]
        <3>1. \A n \in 0 .. (m - 1) : g[n] = IF n = 0 THEN a ELSE F[n][g[n - 1]]
            BY <2>1, Zenon
        <3> HIDE DEF h
        <3>2. QED
            BY <2>2, <2>3, <2>4, <2>5, <3>1, Zenon
    <2>7. \A n \in 0 .. m : h[n] \in X[n]
        <3> HIDE DEF h
        <3>1. \A n \in 0 .. (m - 1) : g[n] \in X[n]
            BY <2>1
        <3>2. QED
            BY <2>2, <2>4, <2>5, <3>1, Zenon
    <2>8. h = [n \in 0 .. m |-> IF n = 0 THEN a ELSE F[n][h[n - 1]]]
        <3>1. h = [n \in 0 .. m |-> h[n]]
            BY Zenon
        <3> HIDE DEF h
        <3>2. QED
            BY <2>6, <3>1, Zenon
    <2>9. Made(h, m)
        <3> HIDE DEF h
        <3> QED
            BY <2>7, <2>8, Zenon
    <2>10. m \in 0 .. N
        OBVIOUS
    <2>11. QED
        BY <2>9, <2>10, Zenon
<1>3. N \in P
    <2> HIDE DEF P
    <2>1. \A n \in 0 .. N : n \in P
        BY <1>1, <1>2, UpTo, Zenon
    <2>2. QED
        BY <2>1
<1>4. QED
    BY <1>3, Zenon DEF Steps, Typed

-----------------------------------------------------------------------------
(***************************************************************************)
(* The places of a set, in order, and what is at them.                     *)
(***************************************************************************)
PlacesTo(S, n) == n \in Nat /\ S \subseteq 1 .. n
UpToPlace(S, i) == {j \in S : j <= i}

LEMMA PlacesAre ==
    ASSUME NEW n, NEW S, PlacesTo(S, n)
    PROVE  n \in Nat /\ \A j \in S : j \in Nat /\ j \in Int /\ 1 <= j /\ j <= n
BY DEF PlacesTo

LEMMA RankType ==
    ASSUME NEW n, NEW S, PlacesTo(S, n), NEW i \in Int
    PROVE  /\ IsFiniteSet(S) /\ Cardinality(S) \in Nat
           /\ Rank(S, i) \in Nat /\ Rank(S, i) <= Cardinality(S)
<1>1. IsFiniteSet(1 .. n)
    BY FS_Interval DEF PlacesTo
<1>2. IsFiniteSet(S)
    BY <1>1, FS_Subset DEF PlacesTo
<1>3. UpToPlace(S, i) \in SUBSET S
    BY DEF UpToPlace
<1>4. /\ IsFiniteSet(UpToPlace(S, i))
      /\ Cardinality(UpToPlace(S, i)) <= Cardinality(S)
    BY <1>2, <1>3, FS_Subset
<1>5. QED
    BY <1>2, <1>4, FS_CardinalityType DEF Rank, UpToPlace

(* One more place is one more of them, or none.                            *)
LEMMA RankStep ==
    ASSUME NEW n, NEW S, PlacesTo(S, n), NEW i \in Int
    PROVE  Rank(S, i) = IF i \in S THEN Rank(S, i - 1) + 1 ELSE Rank(S, i - 1)
<1>1. IsFiniteSet(UpToPlace(S, i - 1))
    <2>1. UpToPlace(S, i - 1) \in SUBSET S
        BY DEF UpToPlace
    <2>2. QED
        BY <2>1, RankType, FS_Subset
<1>2. \A j \in S : j \in Int
    BY PlacesAre
<1>3. CASE i \in S
    <2>1. UpToPlace(S, i) = UpToPlace(S, i - 1) \cup {i}
        <3>1. \A j \in S : j <= i <=> j <= i - 1 \/ j = i
            BY <1>2
        <3>2. QED
            BY <1>3, <3>1 DEF UpToPlace
    <2>2. i \notin UpToPlace(S, i - 1)
        BY <1>2 DEF UpToPlace
    <2>3. QED
        BY <1>1, <1>3, <2>1, <2>2, FS_AddElement DEF Rank, UpToPlace
<1>4. CASE i \notin S
    <2>1. \A j \in S : j <= i <=> j <= i - 1
        BY <1>2, <1>4
    <2>2. UpToPlace(S, i) = UpToPlace(S, i - 1)
        BY <2>1 DEF UpToPlace
    <2>3. QED
        BY <1>4, <2>2 DEF Rank, UpToPlace
<1>5. QED
    BY <1>3, <1>4

LEMMA RankEnds ==
    ASSUME NEW n, NEW S, PlacesTo(S, n)
    PROVE  Rank(S, 0) = 0 /\ Rank(S, n) = Cardinality(S)
<1>1. \A j \in S : ~(j <= 0) /\ j <= n
    BY PlacesAre
<1>2. UpToPlace(S, 0) = {} /\ UpToPlace(S, n) = S
    BY <1>1, Zenon DEF UpToPlace
<1>3. QED
    BY <1>2, FS_EmptySet DEF Rank, UpToPlace

LEMMA RankGrows ==
    ASSUME NEW n, NEW S, PlacesTo(S, n), NEW i \in Int, NEW j \in Int, i <= j
    PROVE  Rank(S, i) <= Rank(S, j)
<1>1. UpToPlace(S, i) \in SUBSET UpToPlace(S, j)
    BY PlacesAre DEF UpToPlace
<1>2. IsFiniteSet(UpToPlace(S, j))
    <2>1. UpToPlace(S, j) \in SUBSET S
        BY DEF UpToPlace
    <2>2. QED
        BY <2>1, RankType, FS_Subset
<1>3. Cardinality(UpToPlace(S, i)) <= Cardinality(UpToPlace(S, j))
    BY <1>1, <1>2, FS_Subset
<1>4. QED
    BY <1>3 DEF Rank, UpToPlace

(* Places are in the order of their ranks.                                 *)
LEMMA RankOrder ==
    ASSUME NEW n, NEW S, PlacesTo(S, n), NEW i \in Int, NEW j \in S, i < j
    PROVE  Rank(S, i) < Rank(S, j)
<1>1. j \in Int /\ j - 1 \in Int /\ i <= j - 1
    BY PlacesAre
<1>2. Rank(S, i) <= Rank(S, j - 1) /\ Rank(S, j) = Rank(S, j - 1) + 1
    BY <1>1, RankGrows, RankStep
<1>3. Rank(S, i) \in Nat /\ Rank(S, j - 1) \in Nat
    BY <1>1, RankType
<1>4. QED
    BY <1>2, <1>3

(* Each rank is that of one place, and the first is 1.                     *)
LEMMA PlaceOf ==
    ASSUME NEW n, NEW S, PlacesTo(S, n), NEW k \in 1 .. Cardinality(S)
    PROVE  Place(S, k) \in S /\ Rank(S, Place(S, k)) = k
<1> DEFINE I == {i \in 0 .. n : k <= Rank(S, i)}
<1>0. n \in Nat /\ k \in Nat /\ 1 <= k /\ k <= Cardinality(S) /\ Cardinality(S) \in Nat
    BY PlacesAre, RankType
<1>1. n \in I
    BY <1>0, RankEnds
<1>2. PICK i \in I : \A j \in I : i <= j
    <2>1. I \in SUBSET Nat /\ I # {}
        BY <1>1
    <2> HIDE DEF I
    <2>2. QED
        BY <2>1, LeastNat
<1>3. i # 0
    BY <1>0, RankEnds
<1>4. i \in Int /\ i - 1 \in 0 .. n /\ i - 1 \in Int /\ ~(i <= i - 1)
    BY <1>0, <1>3
<1>5. ~(k <= Rank(S, i - 1))
    BY <1>2, <1>4
<1>6. Rank(S, i) \in Nat /\ Rank(S, i - 1) \in Nat /\ k \in Nat
    BY <1>4, RankType
<1>7. i \in S /\ Rank(S, i) = k
    BY <1>4, <1>5, <1>6, RankStep
<1>8. QED
    BY <1>7 DEF Place

LEMMA RankOf ==
    ASSUME NEW n, NEW S, PlacesTo(S, n), NEW i \in S
    PROVE  Rank(S, i) \in 1 .. Cardinality(S) /\ Place(S, Rank(S, i)) = i
<1>1. /\ i \in Int /\ 0 < i /\ Rank(S, i) \in Nat
      /\ Rank(S, i) <= Cardinality(S) /\ Cardinality(S) \in Nat
    BY PlacesAre, RankType
<1>2. Rank(S, 0) < Rank(S, i)
    BY <1>1, RankOrder
<1>3. Rank(S, i) \in 1 .. Cardinality(S)
    BY <1>1, <1>2, RankEnds
<1> DEFINE q == Place(S, Rank(S, i))
<1>4. q \in S /\ Rank(S, q) = Rank(S, i)
    BY <1>3, PlaceOf
<1> HIDE DEF q
<1>5. q \in Int
    BY <1>4, PlacesAre
<1>6. (q < i => Rank(S, q) < Rank(S, i)) /\ (i < q => Rank(S, i) < Rank(S, q))
    BY <1>1, <1>4, <1>5, RankOrder
<1>7. q = i
    BY <1>1, <1>4, <1>5, <1>6
<1>8. QED
    BY <1>3, <1>7 DEF q

LEMMA PlaceOrder ==
    ASSUME NEW n, NEW S, PlacesTo(S, n),
           NEW k \in 1 .. Cardinality(S), NEW l \in 1 .. Cardinality(S)
    PROVE  k < l <=> Place(S, k) < Place(S, l)
<1>1. /\ Place(S, k) \in S /\ Rank(S, Place(S, k)) = k
      /\ Place(S, l) \in S /\ Rank(S, Place(S, l)) = l
    BY PlaceOf
<1>2. Place(S, k) \in Int /\ Place(S, l) \in Int /\ k \in Int /\ l \in Int
    BY <1>1, PlacesAre, RankType
<1>3. (Place(S, k) < Place(S, l) => k < l) /\ (Place(S, l) < Place(S, k) => l < k)
    BY <1>1, <1>2, RankOrder
<1>4. QED
    BY <1>1, <1>2, <1>3

(* Sets with their places in the same order have them at the same ranks.   *)
LEMMA SameRanks ==
    ASSUME NEW n, NEW m, NEW S, NEW T, PlacesTo(S, n), PlacesTo(T, m),
           NEW f \in [S -> T], \A t \in T : \E s \in S : f[s] = t,
           \A s, u \in S : s < u => f[s] < f[u]
    PROVE  /\ Cardinality(S) = Cardinality(T)
           /\ \A k \in 1 .. Cardinality(S) : Place(T, k) = f[Place(S, k)]
<1>1. \A s, u \in S : s <= u <=> f[s] <= f[u]
    <2> SUFFICES ASSUME NEW s \in S, NEW u \in S PROVE s <= u <=> f[s] <= f[u]
        OBVIOUS
    <2>1. s \in Int /\ u \in Int /\ f[s] \in Int /\ f[u] \in Int
        <3>1. f[s] \in T /\ f[u] \in T
            OBVIOUS
        <3>2. QED
            BY <3>1, PlacesAre
    <2>2. (s < u => f[s] < f[u]) /\ (u < s => f[u] < f[s])
        OBVIOUS
    <2>3. QED
        BY <2>1, <2>2
<1>2. ASSUME NEW s \in S PROVE Rank(T, f[s]) = Rank(S, s)
    <2> DEFINE g == [j \in UpToPlace(S, s) |-> f[j]]
    <2>1. UpToPlace(S, s) \in SUBSET S /\ UpToPlace(T, f[s]) \in SUBSET T
        BY DEF UpToPlace
    <2>2. g \in [UpToPlace(S, s) -> UpToPlace(T, f[s])]
        <3>1. \A j \in UpToPlace(S, s) : f[j] \in UpToPlace(T, f[s])
            BY <1>1 DEF UpToPlace
        <3>2. QED
            BY <3>1
    <2>3. \A a, b \in UpToPlace(S, s) : g[a] = g[b] => a = b
        <3>1. \A a, b \in S : f[a] = f[b] => a = b
            <4>1. \A a, b \in S : f[a] = f[b] => f[a] <= f[b] /\ f[b] <= f[a]
                <5>1. \A a \in S : f[a] \in T
                    OBVIOUS
                <5>2. \A a \in S : f[a] \in Int
                    BY <5>1, PlacesAre
                <5>3. QED
                    BY <5>2
            <4>2. \A a, b \in S : f[a] = f[b] => a <= b /\ b <= a
                BY <1>1, <4>1
            <4>3. \A a \in S : a \in Int
                BY PlacesAre
            <4>4. QED
                BY <4>2, <4>3
        <3>2. QED
            BY <2>1, <3>1
    <2>4. \A t \in UpToPlace(T, f[s]) : \E a \in UpToPlace(S, s) : g[a] = t
        <3>1. ASSUME NEW t \in UpToPlace(T, f[s]) PROVE \E a \in UpToPlace(S, s) : g[a] = t
            <4>1. PICK a \in S : f[a] = t
                BY <2>1
            <4>2. a <= s
                BY <1>1, <4>1 DEF UpToPlace
            <4>3. QED
                BY <4>1, <4>2 DEF UpToPlace
        <3>2. QED
            BY <3>1
    <2> HIDE DEF g
    <2>5. g \in Bijection(UpToPlace(S, s), UpToPlace(T, f[s]))
        BY <2>2, <2>3, <2>4 DEF Bijection, Injection, Surjection, IsInjective
    <2>6. IsFiniteSet(UpToPlace(S, s))
        <3>1. IsFiniteSet(S)
            BY RankType
        <3>2. QED
            BY <2>1, <3>1, FS_Subset
    <2>7. Cardinality(UpToPlace(T, f[s])) = Cardinality(UpToPlace(S, s))
        BY <2>5, <2>6, FS_Bijection DEF ExistsBijection
    <2>8. QED
        BY <2>7 DEF Rank, UpToPlace
<1>3. ASSUME NEW k \in 1 .. Cardinality(S)
      PROVE  k \in 1 .. Cardinality(T) /\ Place(T, k) = f[Place(S, k)]
    <2>1. Place(S, k) \in S /\ Rank(S, Place(S, k)) = k
        BY PlaceOf, Zenon
    <2>2. Rank(T, f[Place(S, k)]) = k /\ f[Place(S, k)] \in T
        BY <1>2, <2>1
    <2>3. QED
        BY <2>2, RankOf
<1>0. Cardinality(S) \in Nat /\ Cardinality(T) \in Nat
    BY RankType
<1>4. Cardinality(S) <= Cardinality(T)
    <2>1. CASE Cardinality(S) = 0
        BY <1>0, <2>1
    <2>2. CASE Cardinality(S) # 0
        <3>1. Cardinality(S) \in 1 .. Cardinality(S) /\ Cardinality(T) \in Nat
            BY <1>0, <2>2
        <3>2. QED
            BY <1>3, <3>1
    <2>3. QED
        BY <2>1, <2>2
<1>5. Cardinality(T) <= Cardinality(S)
    <2>1. CASE Cardinality(T) = 0
        BY <1>0, <2>1
    <2>2. CASE Cardinality(T) # 0
        <3>1. Cardinality(T) \in 1 .. Cardinality(T) /\ Cardinality(S) \in Nat
            BY <1>0, <2>2
        <3>2. Place(T, Cardinality(T)) \in T /\ Rank(T, Place(T, Cardinality(T))) = Cardinality(T)
            BY <3>1, PlaceOf, Zenon
        <3>3. PICK s \in S : f[s] = Place(T, Cardinality(T))
            BY <3>2
        <3>4. Rank(S, s) = Cardinality(T)
            BY <1>2, <3>2, <3>3
        <3>5. Rank(S, s) <= Cardinality(S)
            <4>1. s \in Int
                BY PlacesAre
            <4>2. QED
                BY <4>1, RankType
        <3>6. QED
            BY <3>4, <3>5
    <2>3. QED
        BY <2>1, <2>2
<1>6. QED
    BY <1>0, <1>3, <1>4, <1>5

-----------------------------------------------------------------------------
(***************************************************************************)
(* Lists.                                                                  *)
(***************************************************************************)
LEMMA IsSequence ==
    ASSUME NEW E, NEW n \in Nat, NEW M, M = [k \in 1 .. n |-> M[k]], \A k \in 1 .. n : M[k] \in E
    PROVE  M \in Seq(E) /\ DOMAIN M = 1 .. n /\ Len(M) = n
<1>1. M \in [1 .. n -> E]
    <2>1. [k \in 1 .. n |-> M[k]] \in [1 .. n -> E]
        OBVIOUS
    <2>2. QED
        BY <2>1, Zenon
<1>2. QED
    BY <1>1

LEMMA SublistIs ==
    ASSUME NEW E, NEW L \in Seq(E), NEW S, S \subseteq DOMAIN L
    PROVE  /\ PlacesTo(S, Len(L))
           /\ Sublist(L, S) \in Seq(E) /\ Len(Sublist(L, S)) = Cardinality(S)
           /\ DOMAIN Sublist(L, S) = 1 .. Cardinality(S)
           /\ \A k \in 1 .. Cardinality(S) :
                 Place(S, k) \in S /\ Sublist(L, S)[k] = L[Place(S, k)]
<1>1. PlacesTo(S, Len(L))
    BY DEF PlacesTo
<1>2. Cardinality(S) \in Nat
    BY <1>1, RankType
<1>3. \A k \in 1 .. Cardinality(S) : Place(S, k) \in S
    BY <1>1, PlaceOf
<1>4. \A k \in 1 .. Cardinality(S) : L[Place(S, k)] \in E
    BY <1>3
<1>5. Sublist(L, S) \in Seq(E) /\ Len(Sublist(L, S)) = Cardinality(S)
      /\ DOMAIN Sublist(L, S) = 1 .. Cardinality(S)
    BY <1>2, <1>4 DEF Sublist
<1>6. \A k \in 1 .. Cardinality(S) : Sublist(L, S)[k] = L[Place(S, k)]
    BY DEF Sublist
<1>7. QED
    BY <1>1, <1>3, <1>5, <1>6

(* A list after another one.                                               *)
LEMMA Joined ==
    ASSUME NEW E, NEW L \in Seq(E), NEW M \in Seq(E)
    PROVE  /\ L \o M \in Seq(E) /\ Len(L \o M) = Len(L) + Len(M)
           /\ \A i \in DOMAIN L : i \in DOMAIN (L \o M) /\ (L \o M)[i] = L[i]
           /\ \A i \in DOMAIN M : Len(L) + i \in DOMAIN (L \o M) /\ (L \o M)[Len(L) + i] = M[i]
           /\ \A i \in DOMAIN (L \o M) :
                 \/ i \in DOMAIN L /\ (L \o M)[i] = L[i]
                 \/ i - Len(L) \in DOMAIN M /\ i > Len(L) /\ (L \o M)[i] = M[i - Len(L)]
<1>1. L \o M \in Seq(E) /\ Len(L \o M) = Len(L) + Len(M)
    OBVIOUS
<1>2. DOMAIN L = 1 .. Len(L) /\ DOMAIN M = 1 .. Len(M) /\ Len(L) \in Nat /\ Len(M) \in Nat
      /\ DOMAIN (L \o M) = 1 .. Len(L) + Len(M)
    OBVIOUS
<1>3. \A i \in 1 .. Len(L) + Len(M) : (L \o M)[i] = IF i <= Len(L) THEN L[i] ELSE M[i - Len(L)]
    OBVIOUS
<1>4. QED
    BY <1>1, <1>2, <1>3

(* The first of a list with some property, by the set of those that have.  *)
First(I) == IF I # {} THEN Min(I) ELSE 0

LEMMA FirstIs ==
    ASSUME NEW I, I \subseteq Nat \ {0}
    PROVE  /\ First(I) = 0 <=> I = {}
           /\ I # {} => First(I) \in I /\ \A i \in I : First(I) <= i
<1>1. CASE I = {}
    BY <1>1 DEF First
<1>2. CASE I # {}
    <2>1. I \in SUBSET Nat
        OBVIOUS
    <2>2. \E l \in I : \A m \in I : l <= m
        BY <1>2, <2>1, LeastNat
    <2>3. Min(I) \in I /\ \A i \in I : Min(I) <= i
        BY <2>2, Zenon DEF Min
    <2>4. First(I) = Min(I)
        BY <1>2 DEF First
    <2>5. QED
        BY <1>2, <2>3, <2>4
<1>3. QED
    BY <1>1, <1>2

(* A first one stays first when others come after all that there were.     *)
LEMMA FirstStays ==
    ASSUME NEW I, I \subseteq Nat \ {0}, NEW J, J \subseteq Nat \ {0}, I \subseteq J, I # {},
           \A j \in J \ I : \A i \in I : i < j
    PROVE  First(J) = First(I)
<1>1. /\ First(I) \in I /\ \A i \in I : First(I) <= i
      /\ First(J) \in J /\ \A j \in J : First(J) <= j
    BY FirstIs
<1> DEFINE a == First(I)
           b == First(J)
<1> HIDE DEF a, b
<1>2. a \in I /\ b \in J /\ a \in J /\ a \in Nat /\ b \in Nat /\ b <= a
    BY <1>1 DEF a, b
<1>3. b \in I => a <= b
    BY <1>1 DEF a, b
<1>4. b \notin I => a < b
    BY <1>2
<1>5. QED
    BY <1>2, <1>3, <1>4 DEF a, b

(* A set of places moved up.                                               *)
LEMMA FirstMoves ==
    ASSUME NEW I, I \subseteq Nat \ {0}, NEW J, J \subseteq Nat \ {0}, NEW n \in Nat,
           \A j : j \in J <=> j - n \in I /\ j \in Int, J # {}
    PROVE  First(J) = n + First(I) /\ I # {}
<1>1. First(J) \in J /\ \A j \in J : First(J) <= j
    BY FirstIs
<1>2. First(J) - n \in I
    BY <1>1
<1>3. First(I) \in I /\ \A i \in I : First(I) <= i
    BY <1>2, FirstIs
<1>0. I # {}
    BY <1>2
<1> DEFINE a == First(I)
           b == First(J)
<1> HIDE DEF a, b
<1>9. a \in I /\ b \in J /\ b - n \in I
    BY <1>0, <1>1, <1>2, <1>3 DEF a, b
<1>4. a \in I /\ b \in J /\ b \in Int /\ a \in Int /\ b - n \in I
    BY <1>9
<1>5. a <= b - n
    BY <1>3, <1>4 DEF a
<1>6. n + a \in J
    <2>1. (n + a) - n = a /\ n + a \in Int
        BY <1>4
    <2>2. QED
        BY <1>4, <2>1
<1>7. b <= n + a
    BY <1>1, <1>6 DEF b
<1>8. QED
    BY <1>0, <1>4, <1>5, <1>7 DEF a, b

-----------------------------------------------------------------------------
(***************************************************************************)
(* The list of the board, and the iterator in it.                          *)
(***************************************************************************)
EntryRecord ==
    [name : Name, text : Name \cup {Data}, from : {"client", "program", "spec"},
     bound : Int, done : BOOLEAN, met : {"new", "owed", "given"}]
SpecRecord == [name : Name, text : Name \cup {Data, Foreign}]

(* What the program adds is data.                                          *)
IsList(L) ==
    L \in Seq(EntryRecord) /\ \A i \in DOMAIN L : L[i].from = "program" => L[i].text = Data

NoSpecIn(L) == \A i \in DOMAIN L : L[i].from # "spec"

(* Each name that an iteration owes is at the iterator or after it.        *)
InTurn(L, it) ==
    /\ it \in [gone : BOOLEAN, at : Nat] /\ it.at <= Len(L)
    /\ \A i \in DOMAIN L :
          /\ L[i].met = "owed" => it.at # End /\ it.at <= i
          /\ L[i].met = "given" => it.at = End \/ i < it.at

IsBoard(b) ==
    /\ b = [names |-> b.names, iter |-> b.iter]
    /\ IsList(b.names) /\ InTurn(b.names, b.iter)

LEMMA SpecIs ==
    ASSUME NEW s \in Specs \cup {NoSpec}
    PROVE  s \in Seq(SpecRecord)
<1>1. CASE s = NoSpec
    BY <1>1 DEF NoSpec
<1>2. CASE s # NoSpec
    BY <1>2, BoardAssumption DEF SpecRecord
<1>3. QED
    BY <1>1, <1>2

LEMMA EntryIs ==
    ASSUME NEW n \in Name, NEW t \in Name \cup {Data}, NEW from \in {"client", "program", "spec"}
    PROVE  /\ Entry(n, t, from) \in EntryRecord
           /\ Entry(n, t, from).name = n /\ Entry(n, t, from).text = t
           /\ Entry(n, t, from).from = from /\ Entry(n, t, from).bound = Unbound
           /\ Entry(n, t, from).met = "new"
BY DEF Entry, EntryRecord, Unbound

(* A name that is added is one that no iteration owes.                     *)
LEMMA LinkedIs ==
    ASSUME NEW b, IsBoard(b), NEW e \in EntryRecord, e.from = "program" => e.text = Data,
           e.met = "new"
    PROVE  /\ IsBoard(Linked(b, e))
           /\ Linked(b, e).names = Append(b.names, e) /\ Linked(b, e).iter = b.iter
<1> DEFINE L == b.names
           M == Append(L, e)
<1>1. Linked(b, e) = [names |-> M, iter |-> b.iter]
    BY DEF Linked, IsBoard
<1>2. L \in Seq(EntryRecord) /\ M \in Seq(EntryRecord) /\ Len(M) = Len(L) + 1
    <2>1. L \in Seq(EntryRecord)
        BY Zenon DEF IsBoard, IsList
    <2> HIDE DEF L
    <2>2. QED
        BY <2>1
<1>3. \A i \in DOMAIN M : (i \in DOMAIN L /\ M[i] = L[i]) \/ (i = Len(L) + 1 /\ M[i] = e)
    BY <1>2
<1>4. IsList(M)
    BY <1>2, <1>3 DEF IsBoard, IsList
<1>5. InTurn(M, b.iter)
    <2>1. InTurn(L, b.iter)
        BY DEF IsBoard
    <2>2. b.iter.at \in Nat /\ Len(L) \in Nat
        BY <1>2, <2>1 DEF InTurn
    <2> HIDE DEF M, L
    <2>3. QED
        BY <1>2, <1>3, <2>1, <2>2 DEF InTurn
<1>6. QED
    BY <1>1, <1>4, <1>5 DEF IsBoard

(* The names that come from a specification.                               *)
Defs(s) == Sublist(s, {i \in DOMAIN s : s[i].text # Foreign})
TargetAt(n, defs, t) == IF Named(defs, t) = 0 THEN Extern ELSE n + Named(defs, t)
NewImport(n, defs, d, compiled) ==
    [Entry(d.name, d.text, "spec") EXCEPT
        !.bound = IF compiled /\ d.text \in Name THEN TargetAt(n, defs, d.text) ELSE Unbound,
        !.done = compiled]
Imports(n, s, compiled) ==
    [k \in DOMAIN Defs(s) |-> NewImport(n, Defs(s), Defs(s)[k], compiled)]

DefRecord == [name : Name, text : Name \cup {Data}]

LEMMA DefsAre ==
    ASSUME NEW s \in Seq(SpecRecord)
    PROVE  /\ Defs(s) \in Seq(DefRecord)
<1> DEFINE S == {i \in DOMAIN s : s[i].text # Foreign}
<1>1. S \subseteq DOMAIN s
    OBVIOUS
<1>2. \A i \in S : s[i] \in DefRecord
    <2>1. \A i \in DOMAIN s : s[i] \in SpecRecord
        OBVIOUS
    <2>2. QED
        BY <2>1 DEF SpecRecord, DefRecord
<1> HIDE DEF S
<1>3. /\ Sublist(s, S) \in Seq(SpecRecord)
      /\ \A k \in DOMAIN Sublist(s, S) : Place(S, k) \in S /\ Sublist(s, S)[k] = s[Place(S, k)]
    BY <1>1, SublistIs
<1>4. \A k \in DOMAIN Sublist(s, S) : Sublist(s, S)[k] \in DefRecord
    BY <1>2, <1>3
<1>5. Sublist(s, S) \in Seq(DefRecord)
    <2> DEFINE D == Sublist(s, S)
    <2> HIDE DEF D
    <2>1. D \in Seq(SpecRecord) /\ \A k \in DOMAIN D : D[k] \in DefRecord
        BY <1>3, <1>4 DEF D
    <2>2. QED
        BY <2>1 DEF D
<1>6. QED
    BY <1>5 DEF Defs, S

LEMMA NamedType ==
    ASSUME NEW E, NEW L \in Seq(E), NEW n
    PROVE  /\ Named(L, n) = First({i \in 1 .. Len(L) : L[i].name = n})
           /\ Named(L, n) \in 0 .. Len(L)
<1> DEFINE I == {i \in 1 .. Len(L) : L[i].name = n}
<1>1. Named(L, n) = First(I)
    BY DEF Named, SelectInSeq, First
<1>2. I \subseteq Nat \ {0}
    OBVIOUS
<1>3. First(I) = 0 \/ First(I) \in I
    <2> HIDE DEF I
    <2> QED
        BY <1>2, FirstIs
<1>4. QED
    BY <1>1, <1>3

LEMMA ImportIs ==
    ASSUME NEW n \in Nat, NEW defs \in Seq(DefRecord), NEW d \in DefRecord,
           NEW compiled \in BOOLEAN
    PROVE  LET x == NewImport(n, defs, d, compiled) IN
           /\ x \in EntryRecord /\ x.from = "spec" /\ x.met = "new"
           /\ x.name = d.name /\ x.text = d.text
           /\ x.bound = IF compiled /\ d.text \in Name THEN TargetAt(n, defs, d.text) ELSE Unbound
<1>0. Named(defs, d.text) \in 0 .. Len(defs)
    BY NamedType
<1>1. Named(defs, d.text) \in Nat
    BY <1>0
<1>2. TargetAt(n, defs, d.text) \in Int
    BY <1>1 DEF TargetAt, Extern
<1>3. Entry(d.name, d.text, "spec") \in EntryRecord
      /\ Entry(d.name, d.text, "spec").name = d.name
      /\ Entry(d.name, d.text, "spec").text = d.text
      /\ Entry(d.name, d.text, "spec").from = "spec"
      /\ Entry(d.name, d.text, "spec").met = "new"
    BY EntryIs DEF DefRecord
<1>4. Unbound \in Int
    BY DEF Unbound
<1>5. QED
    BY <1>2, <1>3, <1>4 DEF NewImport, EntryRecord

LEMMA ImportsAre ==
    ASSUME NEW n \in Nat, NEW s \in Seq(SpecRecord), NEW compiled \in BOOLEAN
    PROVE  /\ Imports(n, s, compiled) \in Seq(EntryRecord)
           /\ DOMAIN Imports(n, s, compiled) = DOMAIN Defs(s)
           /\ Len(Imports(n, s, compiled)) = Len(Defs(s))
           /\ \A k \in DOMAIN Imports(n, s, compiled) :
                 LET x == Imports(n, s, compiled)[k] IN
                 /\ x.from = "spec" /\ x.met = "new"
                 /\ x.name = Defs(s)[k].name /\ x.text = Defs(s)[k].text
                 /\ x.bound = IF compiled /\ x.text \in Name THEN TargetAt(n, Defs(s), x.text)
                              ELSE Unbound
<1> DEFINE D == Defs(s)
           M == Imports(n, s, compiled)
<1>1. D \in Seq(DefRecord)
    BY DefsAre
<1> HIDE DEF D
<1>2. M = [k \in DOMAIN D |-> NewImport(n, D, D[k], compiled)]
    BY DEF Imports, D
<1> HIDE DEF M
<1>3. DOMAIN D = 1 .. Len(D) /\ Len(D) \in Nat /\ \A k \in DOMAIN D : D[k] \in DefRecord
    BY <1>1
<1>4. \A k \in DOMAIN D : M[k] = NewImport(n, D, D[k], compiled)
    BY <1>2
<1>5. \A k \in DOMAIN D :
         /\ M[k] \in EntryRecord /\ M[k].from = "spec" /\ M[k].met = "new"
         /\ M[k].name = D[k].name /\ M[k].text = D[k].text
         /\ M[k].bound = IF compiled /\ D[k].text \in Name THEN TargetAt(n, D, D[k].text) ELSE Unbound
    BY <1>1, <1>3, <1>4, ImportIs
<1>6. M \in Seq(EntryRecord) /\ DOMAIN M = DOMAIN D /\ Len(M) = Len(D)
    BY <1>2, <1>3, <1>5
<1>7. QED
    BY <1>5, <1>6 DEF M, D

LEMMA ImportedIs ==
    ASSUME NEW b, IsBoard(b), NEW s \in Seq(SpecRecord), NEW compiled \in BOOLEAN
    PROVE  /\ IsBoard(Imported(b, s, compiled))
           /\ Imported(b, s, compiled).names = b.names \o Imports(Len(b.names), s, compiled)
           /\ Imported(b, s, compiled).iter = b.iter
<1> DEFINE L == b.names
           M == Imports(Len(L), s, compiled)
           N == L \o M
<1>1. Imported(b, s, compiled) = [names |-> N, iter |-> b.iter]
    <2>1. Imported(b, s, compiled) = [b EXCEPT !.names = L \o M]
        BY Zenon DEF Imported, Imports, Defs, NewImport, TargetAt
    <2>2. QED
        BY <2>1 DEF IsBoard
<1>2. L \in Seq(EntryRecord) /\ Len(L) \in Nat
    BY DEF IsBoard, IsList
<1>3. M \in Seq(EntryRecord) /\ \A k \in DOMAIN M : M[k].from = "spec" /\ M[k].met = "new"
    BY <1>2, ImportsAre
<1> HIDE DEF M, L
<1>4. /\ N \in Seq(EntryRecord) /\ Len(N) = Len(L) + Len(M) /\ Len(M) \in Nat
      /\ \A i \in DOMAIN N : \/ i \in DOMAIN L /\ N[i] = L[i]
                             \/ i - Len(L) \in DOMAIN M /\ i > Len(L) /\ N[i] = M[i - Len(L)]
    BY <1>2, <1>3, Joined
<1> HIDE DEF N
<1>5. IsList(N)
    BY <1>3, <1>4 DEF IsBoard, IsList, L
<1>6. InTurn(N, b.iter)
    <2>1. InTurn(L, b.iter)
        BY DEF IsBoard, L
    <2>2. b.iter.at \in Nat /\ b.iter.at <= Len(N)
        BY <1>2, <1>4, <2>1 DEF InTurn
    <2>3. ASSUME NEW i \in DOMAIN N
          PROVE  /\ N[i].met = "owed" => b.iter.at # End /\ b.iter.at <= i
                 /\ N[i].met = "given" => b.iter.at = End \/ i < b.iter.at
        <3>1. CASE i \in DOMAIN L /\ N[i] = L[i]
            BY <2>1, <3>1 DEF InTurn
        <3>2. CASE i - Len(L) \in DOMAIN M /\ N[i] = M[i - Len(L)]
            BY <1>3, <3>2
        <3>3. QED
            BY <1>4, <3>1, <3>2
    <2>4. QED
        BY <2>1, <2>2, <2>3 DEF InTurn
<1>7. QED
    BY <1>1, <1>5, <1>6 DEF IsBoard, L, M, N

-----------------------------------------------------------------------------
(***************************************************************************)
(* Names that are removed.                                                 *)
(***************************************************************************)
Kept(L, S) == DOMAIN L \ S

LEMMA KeptIs ==
    ASSUME NEW L \in Seq(EntryRecord), NEW S
    PROVE  /\ Kept(L, S) \subseteq DOMAIN L /\ PlacesTo(Kept(L, S), Len(L))
           /\ Cardinality(Kept(L, S)) \in Nat
           /\ \A k \in 1 .. Cardinality(Kept(L, S)) :
                 /\ Place(Kept(L, S), k) \in Kept(L, S) /\ Place(Kept(L, S), k) \in DOMAIN L
                 /\ Place(Kept(L, S), k) \in Nat /\ Rank(Kept(L, S), Place(Kept(L, S), k)) = k
<1> DEFINE K == Kept(L, S)
<1>1. K \subseteq DOMAIN L
    BY DEF Kept
<1> HIDE DEF K
<1>2. PlacesTo(K, Len(L))
    BY <1>1 DEF PlacesTo
<1>3. Cardinality(K) \in Nat
    <2>1. 0 \in Int
        OBVIOUS
    <2>2. QED
        BY <1>2, <2>1, RankType
<1>4. \A k \in 1 .. Cardinality(K) : Place(K, k) \in K /\ Rank(K, Place(K, k)) = k
    BY <1>2, PlaceOf
<1>5. \A i \in K : i \in DOMAIN L /\ i \in Nat
    BY <1>1
<1>6. QED
    BY <1>1, <1>2, <1>3, <1>4, <1>5 DEF K

LEMMA UnlinkedIs ==
    ASSUME NEW b, IsBoard(b), NEW S
    PROVE  /\ IsBoard(Unlinked(b, S))
           /\ LET M == Unlinked(b, S).names
                  K == Kept(b.names, S)
              IN  /\ Len(M) = Cardinality(K) /\ DOMAIN M = 1 .. Cardinality(K)
                  /\ \A k \in DOMAIN M :
                        LET x == M[k]
                            y == b.names[Place(K, k)]
                        IN  /\ x.name = y.name /\ x.text = y.text /\ x.from = y.from
                            /\ x.met = y.met /\ (y.bound = Unbound => x.bound = Unbound)
<1> DEFINE L    == b.names
           K    == Kept(L, S)
           N    == Sublist(L, K)
           M    == [k \in DOMAIN N |-> [N[k] EXCEPT !.bound = Moved(K, @)]]
           at   == b.iter.at
           next == Rank(K, at - 1) + 1
           it   == IF at = End THEN b.iter
                   ELSE [gone |-> b.iter.gone \/ at \in S,
                         at   |-> IF next \in DOMAIN N THEN next ELSE End]
<1>1. Unlinked(b, S) = [names |-> M, iter |-> it]
    BY DEF Unlinked, Kept
<1>2. L \in Seq(EntryRecord) /\ InTurn(L, b.iter)
    BY DEF IsBoard, IsList
<1> HIDE DEF L
<1>3. /\ K \subseteq DOMAIN L /\ PlacesTo(K, Len(L)) /\ Cardinality(K) \in Nat
      /\ \A k \in 1 .. Cardinality(K) :
            Place(K, k) \in K /\ Place(K, k) \in DOMAIN L /\ Place(K, k) \in Nat /\ Rank(K, Place(K, k)) = k
    BY <1>2, KeptIs
<1> HIDE DEF K
<1>4. /\ N \in Seq(EntryRecord) /\ Len(N) = Cardinality(K) /\ DOMAIN N = 1 .. Cardinality(K)
      /\ \A k \in 1 .. Cardinality(K) : N[k] = L[Place(K, k)]
    BY <1>2, <1>3, SublistIs
<1> HIDE DEF N
<1>5. \A i \in Int : Moved(K, i) \in Int
    <2> TAKE i \in Int
    <2>1. Rank(K, i) \in Int
        BY <1>3, RankType
    <2>2. QED
        BY <2>1 DEF Moved, Gone
<1>6. \A k \in DOMAIN N :
         /\ M[k] \in EntryRecord
         /\ M[k].name = N[k].name /\ M[k].text = N[k].text /\ M[k].from = N[k].from
         /\ M[k].met = N[k].met /\ (N[k].bound = Unbound => M[k].bound = Unbound)
    <2> TAKE k \in DOMAIN N
    <2> DEFINE x == N[k]
               y == [x EXCEPT !.bound = Moved(K, @)]
    <2>1. x \in EntryRecord
        BY <1>4
    <2>2. M[k] = y
        OBVIOUS
    <2> HIDE DEF x, M
    <2>3. /\ y \in EntryRecord /\ y.name = x.name /\ y.text = x.text /\ y.from = x.from
          /\ y.met = x.met /\ y.bound = Moved(K, x.bound)
        BY <1>5, <2>1 DEF EntryRecord
    <2>4. x.bound = Unbound => y.bound = Unbound
        BY <2>3 DEF Moved, Unbound
    <2> HIDE DEF y
    <2>5. QED
        BY <2>2, <2>3, <2>4 DEF x
<1>12. M = [k \in 1 .. Cardinality(K) |-> M[k]]
    BY <1>4, Zenon
<1> HIDE DEF M
<1>7. M \in Seq(EntryRecord) /\ DOMAIN M = 1 .. Cardinality(K) /\ Len(M) = Cardinality(K)
    BY <1>3, <1>4, <1>6, <1>12, IsSequence
<1>8. IsList(M)
    <2>1. IsList(L)
        BY DEF IsBoard, L
    <2>2. QED
        BY <1>3, <1>4, <1>6, <1>7, <2>1 DEF IsList
<1>9. InTurn(M, it)
    <2>1. at \in Nat /\ at <= Len(L) /\ b.iter.gone \in BOOLEAN
        BY <1>2 DEF InTurn
    <2>2. at - 1 \in Int /\ at \in Int
        BY <2>1
    <2>3. Rank(K, at - 1) \in Nat
        BY <1>3, <2>2, RankType
    <2>4. next \in Nat /\ next > 0
        BY <2>3
    <2> DEFINE to == it.at
    <2>5. to = IF at = End THEN End ELSE IF next \in DOMAIN N THEN next ELSE End
        OBVIOUS
    <2>6. it \in [gone : BOOLEAN, at : Nat] /\ to <= Len(M)
        <3>1. CASE at = End
            BY <1>2, <1>3, <1>7, <3>1 DEF InTurn, End
        <3>2. CASE at # End
            <4> HIDE DEF next, at
            <4>1. it = [gone |-> b.iter.gone \/ at \in S,
                        at   |-> IF next \in DOMAIN N THEN next ELSE End]
                BY <3>2
            <4>2. QED
                BY <1>3, <1>4, <1>7, <2>1, <2>4, <4>1 DEF End
        <3>3. QED
            BY <3>1, <3>2
    <2>7. ASSUME NEW k \in DOMAIN M
          PROVE  /\ M[k].met = "owed" => to # End /\ to <= k
                 /\ M[k].met = "given" => to = End \/ k < to
        <3> DEFINE i == Place(K, k)
        <3>1. i \in K /\ i \in DOMAIN L /\ i \in Nat /\ Rank(K, i) = k /\ M[k].met = L[i].met /\ i \in Int
              /\ k \in Nat /\ k <= Cardinality(K) /\ k \in DOMAIN N
            BY <1>3, <1>4, <1>6, <1>7
        <3> HIDE DEF i, next, it, at
        <3>2. CASE M[k].met = "owed"
            <4>1. at # End /\ at <= i
                BY <1>2, <3>1, <3>2 DEF InTurn, at
            <4>2. at - 1 < i
                BY <2>1, <3>1, <4>1
            <4>3. Rank(K, at - 1) < k
                BY <1>3, <2>2, <3>1, <4>2, RankOrder
            <4>4. next <= k
                BY <2>3, <3>1, <4>3 DEF next
            <4>5. next \in DOMAIN N
                BY <1>3, <1>4, <2>4, <3>1, <4>4
            <4>6. to = next
                BY <2>5, <4>1, <4>5
            <4>7. QED
                BY <2>4, <3>2, <4>4, <4>6 DEF End
        <3>3. CASE M[k].met = "given" /\ at # End
            <4>1. i < at
                BY <1>2, <3>1, <3>3 DEF InTurn, at
            <4>2. i <= at - 1
                BY <2>1, <3>1, <4>1
            <4>3. k <= Rank(K, at - 1)
                BY <1>3, <2>2, <3>1, <4>2, RankGrows
            <4>4. k < next
                BY <2>3, <3>1, <4>3 DEF next
            <4>5. QED
                BY <2>5, <3>3, <4>4
        <3>4. CASE M[k].met = "given" /\ at = End
            BY <2>5, <3>4
        <3>5. QED
            BY <3>2, <3>3, <3>4
    <2>8. QED
        BY <2>6, <2>7 DEF InTurn
<1> HIDE DEF it
<1>10. IsBoard(Unlinked(b, S)) /\ Unlinked(b, S).names = M
    BY <1>1, <1>8, <1>9 DEF IsBoard
<1>11. QED
    BY <1>4, <1>6, <1>7, <1>10 DEF K, L

-----------------------------------------------------------------------------
(***************************************************************************)
(* The names of the client and of the program.                             *)
(***************************************************************************)
Mine(L) == {i \in DOMAIN L : L[i].from # "spec"}
OwnOf(L) == [k \in 1 .. Cardinality(Mine(L)) |-> Own(L[Place(Mine(L), k)])]

LEMMA MineIs ==
    ASSUME NEW L \in Seq(EntryRecord)
    PROVE  /\ Mine(L) \subseteq DOMAIN L /\ PlacesTo(Mine(L), Len(L))
           /\ Cardinality(Mine(L)) \in Nat
           /\ \A k \in 1 .. Cardinality(Mine(L)) :
                 Place(Mine(L), k) \in Mine(L) /\ Place(Mine(L), k) \in DOMAIN L
<1> DEFINE K == Mine(L)
<1>1. K \subseteq DOMAIN L
    BY DEF Mine
<1> HIDE DEF K
<1>2. PlacesTo(K, Len(L))
    BY <1>1 DEF PlacesTo
<1>3. Cardinality(K) \in Nat
    <2>1. 0 \in Int
        OBVIOUS
    <2>2. QED
        BY <1>2, <2>1, RankType
<1>4. \A k \in 1 .. Cardinality(K) : Place(K, k) \in K
    BY <1>2, PlaceOf
<1>5. QED
    BY <1>1, <1>2, <1>3, <1>4 DEF K

LEMMA OwnIs ==
    ASSUME names \in Seq(EntryRecord)
    PROVE  own = OwnOf(names)
<1>1. DOMAIN Sublist(names, Mine(names)) = 1 .. Cardinality(Mine(names))
    BY DEF Sublist
<1>2. \A k \in 1 .. Cardinality(Mine(names)) :
         Sublist(names, Mine(names))[k] = names[Place(Mine(names), k)]
    BY DEF Sublist
<1>3. own = [i \in DOMAIN Sublist(names, Mine(names)) |-> Own(Sublist(names, Mine(names))[i])]
    BY Zenon DEF own, Mine
<1>4. QED
    BY <1>1, <1>2, <1>3, Zenon DEF OwnOf

(* Lists with the same of these names in the same order.                   *)
LEMMA SameOwn ==
    ASSUME NEW L \in Seq(EntryRecord), NEW M \in Seq(EntryRecord),
           NEW f \in [Mine(L) -> Mine(M)], \A j \in Mine(M) : \E i \in Mine(L) : f[i] = j,
           \A i, j \in Mine(L) : i < j => f[i] < f[j],
           \A i \in Mine(L) : Own(M[f[i]]) = Own(L[i])
    PROVE  OwnOf(M) = OwnOf(L)
<1>1. PlacesTo(Mine(L), Len(L)) /\ PlacesTo(Mine(M), Len(M))
      /\ \A k \in 1 .. Cardinality(Mine(L)) : Place(Mine(L), k) \in Mine(L)
    BY MineIs
<1>2. /\ Cardinality(Mine(L)) = Cardinality(Mine(M))
      /\ \A k \in 1 .. Cardinality(Mine(L)) : Place(Mine(M), k) = f[Place(Mine(L), k)]
    BY <1>1, SameRanks
<1>3. \A k \in 1 .. Cardinality(Mine(L)) :
         Own(M[Place(Mine(M), k)]) = Own(L[Place(Mine(L), k)])
    BY <1>1, <1>2, Zenon
<1>4. QED
    BY <1>2, <1>3, Zenon DEF OwnOf

LEMMA SamePlaces ==
    ASSUME NEW L \in Seq(EntryRecord), NEW M \in Seq(EntryRecord), Mine(M) = Mine(L),
           \A i \in Mine(L) : Own(M[i]) = Own(L[i])
    PROVE  OwnOf(M) = OwnOf(L)
<1>1. \A k \in 1 .. Cardinality(Mine(L)) : Place(Mine(L), k) \in Mine(L)
    BY MineIs
<1>2. \A k \in 1 .. Cardinality(Mine(L)) : Own(M[Place(Mine(M), k)]) = Own(L[Place(Mine(L), k)])
    BY <1>1, Zenon
<1>3. QED
    BY <1>2, Zenon DEF OwnOf

(* The same list, seen from its texts.                                     *)
SameTexts(L, M) ==
    /\ DOMAIN M = DOMAIN L
    /\ \A i \in DOMAIN L : M[i].name = L[i].name /\ M[i].text = L[i].text /\ M[i].from = L[i].from

LEMMA TextsAreOwn ==
    ASSUME NEW L \in Seq(EntryRecord), NEW M \in Seq(EntryRecord), SameTexts(L, M)
    PROVE  OwnOf(M) = OwnOf(L)
<1>1. Mine(M) = Mine(L)
    BY DEF Mine, SameTexts
<1>2. \A i \in Mine(L) : Own(M[i]) = Own(L[i])
    BY DEF Mine, SameTexts, Own
<1>3. QED
    BY <1>1, <1>2, SamePlaces

LEMMA OwnJoined ==
    ASSUME NEW L \in Seq(EntryRecord), NEW M \in Seq(EntryRecord),
           \A i \in DOMAIN M : M[i].from = "spec"
    PROVE  OwnOf(L \o M) = OwnOf(L)
<1> DEFINE N == L \o M
<1>1. /\ N \in Seq(EntryRecord)
      /\ \A i \in DOMAIN L : i \in DOMAIN N /\ N[i] = L[i]
      /\ \A i \in DOMAIN N : \/ i \in DOMAIN L /\ N[i] = L[i]
                             \/ i - Len(L) \in DOMAIN M /\ N[i] = M[i - Len(L)]
    BY Joined
<1> HIDE DEF N
<1>2. Mine(N) = Mine(L)
    BY <1>1, Zenon DEF Mine
<1>3. \A i \in Mine(L) : Own(N[i]) = Own(L[i])
    BY <1>1, Zenon DEF Mine
<1>4. OwnOf(N) = OwnOf(L)
    BY <1>1, <1>2, <1>3, SamePlaces
<1>5. QED
    BY <1>4 DEF N

LEMMA OwnAdded ==
    ASSUME NEW L \in Seq(EntryRecord), NEW e \in EntryRecord, e.from # "spec"
    PROVE  OwnOf(Append(L, e)) = Append(OwnOf(L), Own(e))
<1> DEFINE M == Append(L, e)
           n == Len(L)
           S == Mine(L)
           T == Mine(M)
           c == Cardinality(S)
<1>1. M \in Seq(EntryRecord) /\ DOMAIN L = 1 .. n /\ DOMAIN M = 1 .. n + 1 /\ M[n + 1] = e /\ n \in Nat
      /\ \A i \in 1 .. n : M[i] = L[i]
    OBVIOUS
<1> HIDE DEF M, n
<1>2. T = S \cup {n + 1}
    <2>1. \A i : i \in 1 .. n + 1 <=> i \in 1 .. n \/ i = n + 1
        BY <1>1
    <2>2. QED
        BY <1>1, <2>1, Zenon DEF Mine
<1>3. PlacesTo(S, n) /\ PlacesTo(T, n + 1) /\ c \in Nat /\ S \subseteq 1 .. n
    BY <1>1, MineIs DEF n, PlacesTo
<1> HIDE DEF S, T
<1>4. Rank(T, n + 1) = Cardinality(T) /\ Rank(T, n + 1) = Rank(T, n) + 1
    <2>1. n + 1 \in T /\ n + 1 \in Int /\ (n + 1) - 1 = n
        BY <1>1, <1>2
    <2>2. QED
        BY <1>3, <2>1, RankEnds, RankStep
<1>5. \A i \in S : Rank(T, i) = Rank(S, i)
    <2> TAKE i \in S
    <2>1. UpToPlace(T, i) = UpToPlace(S, i)
        <3>1. i \in Int /\ ~(n + 1 <= i)
            BY <1>1, <1>3
        <3>2. QED
            BY <1>2, <3>1, Zenon DEF UpToPlace
    <2>2. QED
        BY <2>1 DEF Rank, UpToPlace
<1>6. Rank(T, n) = c
    <2>1. UpToPlace(T, n) = UpToPlace(S, n)
        <3>1. ~(n + 1 <= n)
            BY <1>1
        <3>2. QED
            BY <1>2, <3>1, Zenon DEF UpToPlace
    <2>2. Rank(T, n) = Rank(S, n)
        BY <2>1, Zenon DEF Rank, UpToPlace
    <2>3. Rank(S, n) = c
        BY <1>3, RankEnds, Zenon
    <2>4. QED
        BY <2>2, <2>3, Zenon
<1>7. Cardinality(T) = c + 1 /\ Place(T, c + 1) = n + 1
    <2>1. n + 1 \in T
        BY <1>2
    <2>2. QED
        BY <1>3, <1>4, <1>6, <2>1, RankOf
<1>8. \A k \in 1 .. c : Place(T, k) = Place(S, k) /\ Place(S, k) \in S
    <2> TAKE k \in 1 .. c
    <2>1. Place(S, k) \in S /\ Rank(S, Place(S, k)) = k
        BY <1>3, PlaceOf, Zenon
    <2>2. Place(S, k) \in T /\ Rank(T, Place(S, k)) = k
        BY <1>2, <1>5, <2>1
    <2>3. QED
        BY <1>3, <2>1, <2>2, RankOf
<1>9. \A k \in 1 .. c : M[Place(T, k)] = L[Place(S, k)]
    BY <1>1, <1>3, <1>8
<1> HIDE DEF c
<1>10. /\ OwnOf(M) = [k \in 1 .. c + 1 |-> Own(M[Place(T, k)])]
       /\ OwnOf(L) = [k \in 1 .. c |-> Own(L[Place(S, k)])]
    BY <1>7, Zenon DEF OwnOf, S, T, c
<1>11. Own(M[Place(T, c + 1)]) = Own(e)
    BY <1>1, <1>7
<1> DEFINE A == OwnOf(L)
           B == OwnOf(M)
           x == Own(e)
<1>12. B = [k \in 1 .. c + 1 |-> B[k]] /\ A = [k \in 1 .. c |-> A[k]]
       /\ (\A k \in 1 .. c : B[k] = A[k]) /\ B[c + 1] = x
    <2>1. 1 .. c \subseteq 1 .. c + 1 /\ c + 1 \in 1 .. c + 1
        BY <1>3
    <2>2. QED
        BY <1>9, <1>10, <1>11, <2>1, Zenon
<1> HIDE DEF A, B, x
<1>13. Append(A, x) = [k \in 1 .. c + 1 |-> IF k = c + 1 THEN x ELSE A[k]]
    <2> DEFINE E == {A[k] : k \in 1 .. c} \cup {x}
    <2>1. \A k \in 1 .. c : A[k] \in E
        OBVIOUS
    <2> HIDE DEF E
    <2>2. A \in Seq(E) /\ Len(A) = c
        BY <1>3, <1>12, <2>1, IsSequence
    <2>3. x \in E
        BY DEF E
    <2> DEFINE P == Append(A, x)
    <2>4. /\ P \in Seq(E) /\ Len(P) = c + 1 /\ P[c + 1] = x
          /\ \A k \in 1 .. c : P[k] = A[k]
        BY <1>3, <2>2, <2>3
    <2> HIDE DEF P
    <2>5. P = [k \in 1 .. c + 1 |-> P[k]]
        BY <2>4
    <2>6. \A k \in 1 .. c + 1 : P[k] = IF k = c + 1 THEN x ELSE A[k]
        <3>1. \A k \in 1 .. c + 1 : k = c + 1 \/ k \in 1 .. c
            BY <1>3
        <3>2. QED
            BY <2>4, <3>1
    <2>7. P = [k \in 1 .. c + 1 |-> IF k = c + 1 THEN x ELSE A[k]]
        BY <2>5, <2>6, Zenon
    <2>8. QED
        BY <2>7 DEF P
<1>14. \A k \in 1 .. c + 1 : B[k] = IF k = c + 1 THEN x ELSE A[k]
    <2>1. \A k \in 1 .. c + 1 : k = c + 1 \/ k \in 1 .. c
        BY <1>3
    <2>2. QED
        BY <1>12, <2>1
<1>15. B = Append(A, x)
    BY <1>12, <1>13, <1>14, Zenon
<1>16. QED
    BY <1>15 DEF A, B, x, M

(* What is kept of a list without some places.                             *)
KeptTexts(L, S, M) ==
    /\ DOMAIN M = 1 .. Cardinality(Kept(L, S))
    /\ \A k \in DOMAIN M :
          LET y == L[Place(Kept(L, S), k)]
          IN  M[k].name = y.name /\ M[k].text = y.text /\ M[k].from = y.from

LEMMA OwnKept ==
    ASSUME NEW L \in Seq(EntryRecord), NEW M \in Seq(EntryRecord), NEW S, KeptTexts(L, S, M),
           \A i \in DOMAIN L : i \in S <=> L[i].from = "spec"
    PROVE  OwnOf(M) = OwnOf(L)
<1> DEFINE K == Kept(L, S)
           f == [i \in K |-> Rank(K, i)]
<1>1. K = Mine(L)
    BY Zenon DEF Kept, Mine
<1>2. /\ PlacesTo(K, Len(L)) /\ Cardinality(K) \in Nat
      /\ \A k \in 1 .. Cardinality(K) : Place(K, k) \in K /\ Rank(K, Place(K, k)) = k
    BY KeptIs
<1>3. /\ DOMAIN M = 1 .. Cardinality(K)
      /\ \A k \in 1 .. Cardinality(K) : Own(M[k]) = Own(L[Place(K, k)]) /\ M[k].from = L[Place(K, k)].from
    BY DEF KeptTexts, Own
<1> HIDE DEF K
<1>4. \A i \in K : L[i].from # "spec"
    BY <1>1 DEF Mine
<1>5. Mine(M) = 1 .. Cardinality(K)
    <2>1. \A k \in DOMAIN M : M[k].from # "spec"
        BY <1>2, <1>3, <1>4, Zenon
    <2>2. Mine(M) = DOMAIN M
        BY <2>1 DEF Mine
    <2>3. QED
        BY <1>3, <2>2, Zenon
<1>6. \A i \in K : Rank(K, i) \in 1 .. Cardinality(K) /\ Place(K, Rank(K, i)) = i
    BY <1>2, RankOf
<1>7. f \in [Mine(L) -> Mine(M)]
    BY <1>1, <1>5, <1>6
<1>8. ASSUME NEW j \in Mine(M) PROVE \E i \in Mine(L) : f[i] = j
    BY <1>1, <1>2, <1>5, Zenon
<1>9. ASSUME NEW i \in Mine(L), NEW j \in Mine(L), i < j PROVE f[i] < f[j]
    <2>1. i \in K /\ j \in K
        BY <1>1
    <2>2. i \in Int
        BY <1>2, <2>1, PlacesAre
    <2>3. Rank(K, i) < Rank(K, j)
        BY <1>2, <1>9, <2>1, <2>2, RankOrder
    <2>4. QED
        BY <2>1, <2>3
<1>10. \A i \in Mine(L) : Own(M[f[i]]) = Own(L[i])
    BY <1>1, <1>3, <1>6
<1> HIDE DEF f
<1>11. QED
    BY <1>7, <1>8, <1>9, <1>10, SameOwn

Bears(L, S, n) == \A i \in DOMAIN L : i \in S <=> L[i].name = n

LEMMA OwnTaken ==
    ASSUME NEW L \in Seq(EntryRecord), NEW M \in Seq(EntryRecord), NEW S, NEW n,
           KeptTexts(L, S, M), Bears(L, S, n)
    PROVE  OwnOf(M) = Sublist(OwnOf(L), {j \in DOMAIN OwnOf(L) : OwnOf(L)[j].name # n})
<1> DEFINE K == Kept(L, S)
           A == Mine(L)
           T == Mine(M)
           Q == {j \in DOMAIN OwnOf(L) : OwnOf(L)[j].name # n}
           f == [k \in T |-> Rank(A, Place(K, k))]
<1>1. /\ K \subseteq DOMAIN L /\ PlacesTo(K, Len(L)) /\ Cardinality(K) \in Nat
      /\ \A k \in 1 .. Cardinality(K) : Place(K, k) \in K /\ Rank(K, Place(K, k)) = k
    BY KeptIs
<1>2. /\ DOMAIN M = 1 .. Cardinality(K)
      /\ \A k \in 1 .. Cardinality(K) : Own(M[k]) = Own(L[Place(K, k)]) /\ M[k].from = L[Place(K, k)].from
    BY DEF KeptTexts, Own
<1>3. \A i : i \in K <=> i \in DOMAIN L /\ L[i].name # n
    BY Zenon DEF Kept, Bears
<1>4. /\ A \subseteq DOMAIN L /\ PlacesTo(A, Len(L)) /\ Cardinality(A) \in Nat
      /\ \A i : i \in A <=> i \in DOMAIN L /\ L[i].from # "spec"
      /\ \A k \in 1 .. Cardinality(A) : Place(A, k) \in A
    BY MineIs, Zenon DEF Mine
<1>5. PlacesTo(T, Len(M)) /\ \A k : k \in T <=> k \in DOMAIN M /\ M[k].from # "spec"
    BY MineIs, Zenon DEF Mine
<1>6. DOMAIN OwnOf(L) = 1 .. Cardinality(A)
      /\ \A k \in 1 .. Cardinality(A) : OwnOf(L)[k] = Own(L[Place(A, k)])
    BY DEF OwnOf
<1>7. OwnOf(M) = [k \in 1 .. Cardinality(T) |-> Own(M[Place(T, k)])]
    BY DEF OwnOf
<1>8. \A k \in T : Place(K, k) \in K /\ Place(K, k) \in A /\ k \in 1 .. Cardinality(K)
    BY <1>1, <1>2, <1>3, <1>4, <1>5, Zenon
<1>9. \A j \in 1 .. Cardinality(A) : j \in Q <=> Place(A, j) \in K
    <2>1. \A i \in A : Own(L[i]).name = L[i].name
        BY DEF Own
    <2>2. QED
        BY <1>3, <1>4, <1>6, <2>1, Zenon
<1>10. Q \subseteq 1 .. Cardinality(A)
    BY <1>6
<1> HIDE DEF K, A, T, Q
<1>11. PlacesTo(Q, Cardinality(A))
    BY <1>4, <1>10 DEF PlacesTo
<1>12. \A i \in A : Rank(A, i) \in 1 .. Cardinality(A) /\ Place(A, Rank(A, i)) = i
    BY <1>4, RankOf
<1>13. \A k \in T : Rank(A, Place(K, k)) \in Q /\ Place(A, Rank(A, Place(K, k))) = Place(K, k)
    BY <1>8, <1>9, <1>12, Zenon
<1>14. f \in [T -> Q]
    BY <1>13
<1>15. ASSUME NEW q \in Q PROVE \E k \in T : f[k] = q
    <2> DEFINE i == Place(A, q)
    <2>1. q \in 1 .. Cardinality(A) /\ i \in A /\ i \in K /\ Rank(A, i) = q
        BY <1>4, <1>9, <1>10, PlaceOf
    <2> DEFINE k == Rank(K, i)
    <2>2. k \in 1 .. Cardinality(K) /\ Place(K, k) = i
        BY <1>1, <2>1, RankOf
    <2>3. k \in T
        BY <1>2, <1>4, <1>5, <2>1, <2>2, Zenon
    <2>4. f[k] = q
        BY <2>1, <2>2, <2>3, Zenon
    <2>5. QED
        BY <2>3, <2>4, Zenon
<1>16. ASSUME NEW k \in T, NEW l \in T, k < l PROVE f[k] < f[l]
    <2>1. k \in 1 .. Cardinality(K) /\ l \in 1 .. Cardinality(K)
          /\ Place(K, k) \in A /\ Place(K, l) \in A
        BY <1>8
    <2>2. Place(K, k) < Place(K, l)
        BY <1>1, <1>16, <2>1, PlaceOrder
    <2>3. Place(K, k) \in Int
        BY <1>4, <2>1, PlacesAre
    <2>4. Rank(A, Place(K, k)) < Rank(A, Place(K, l))
        BY <1>4, <2>1, <2>2, <2>3, RankOrder
    <2>5. QED
        BY <2>4, Zenon
<1>17. \A k \in T : f[k] = Rank(A, Place(K, k))
    OBVIOUS
<1> HIDE DEF f
<1>18. /\ Cardinality(T) = Cardinality(Q)
       /\ \A k \in 1 .. Cardinality(T) : Place(Q, k) = f[Place(T, k)] /\ Place(T, k) \in T
    BY <1>5, <1>11, <1>14, <1>15, <1>16, SameRanks, PlaceOf
<1>19. \A k \in 1 .. Cardinality(T) : OwnOf(L)[Place(Q, k)] = Own(M[Place(T, k)])
    <2> TAKE k \in 1 .. Cardinality(T)
    <2> DEFINE t == Place(T, k)
    <2>1. t \in T /\ Place(Q, k) = Rank(A, Place(K, t))
        BY <1>17, <1>18
    <2> HIDE DEF t
    <2>2. OwnOf(L)[Rank(A, Place(K, t))] = Own(L[Place(K, t)])
        BY <1>6, <1>10, <1>13, <2>1
    <2>3. Own(M[t]) = Own(L[Place(K, t)])
        BY <1>2, <1>8, <2>1
    <2>4. QED
        BY <2>1, <2>2, <2>3 DEF t
<1>20. Sublist(OwnOf(L), Q) = [k \in 1 .. Cardinality(Q) |-> OwnOf(L)[Place(Q, k)]]
    BY DEF Sublist
<1>21. OwnOf(M) = Sublist(OwnOf(L), Q)
    BY <1>7, <1>18, <1>19, <1>20, Zenon
<1>22. QED
    BY <1>21 DEF Q

-----------------------------------------------------------------------------
(***************************************************************************)
(* The board is parsed again.                                              *)
(***************************************************************************)
Again(e) == IF e.from = "client" THEN [e EXCEPT !.bound = Unbound, !.done = FALSE] ELSE e
Parsed(b) == [b EXCEPT !.names = [i \in DOMAIN @ |-> Again(@[i])]]

(* What names nothing is bound to nothing.                                 *)
DataFree(L) == \A i \in DOMAIN L : L[i].text = Data => L[i].bound = Unbound
AllFree(L)  == \A i \in DOMAIN L : L[i].bound = Unbound

LEMMA AgainIs ==
    ASSUME NEW e \in EntryRecord
    PROVE  /\ Again(e) \in EntryRecord
           /\ Again(e).name = e.name /\ Again(e).text = e.text /\ Again(e).from = e.from
           /\ Again(e).met = e.met
           /\ Again(e).bound = IF e.from = "client" THEN Unbound ELSE e.bound
<1>1. CASE e.from = "client"
    <2>1. Again(e) = [e EXCEPT !.bound = Unbound, !.done = FALSE]
        BY <1>1 DEF Again
    <2> DEFINE z == [e EXCEPT !.bound = Unbound]
               y == [z EXCEPT !.done = FALSE]
    <2>2. z \in EntryRecord /\ z.name = e.name /\ z.text = e.text /\ z.from = e.from
          /\ z.met = e.met /\ z.bound = Unbound
        BY DEF EntryRecord, Unbound
    <2>3. Again(e) = y
        BY <2>1
    <2> HIDE DEF z
    <2>4. y \in EntryRecord /\ y.name = z.name /\ y.text = z.text /\ y.from = z.from
          /\ y.met = z.met /\ y.bound = z.bound
        BY <2>2 DEF EntryRecord
    <2> HIDE DEF y
    <2>5. QED
        BY <1>1, <2>2, <2>3, <2>4, Zenon
<1>2. CASE e.from # "client"
    BY <1>2 DEF Again
<1>3. QED
    BY <1>1, <1>2

LEMMA ParsedIs ==
    ASSUME NEW b, IsBoard(b)
    PROVE  /\ IsBoard(Parsed(b))
           /\ SameTexts(b.names, Parsed(b).names)
           /\ \A i \in DOMAIN b.names :
                 Parsed(b).names[i].bound =
                     IF b.names[i].from = "client" THEN Unbound ELSE b.names[i].bound
<1> DEFINE L == b.names
           M == [i \in DOMAIN L |-> Again(L[i])]
<1>1. b = [names |-> L, iter |-> b.iter] /\ L \in Seq(EntryRecord) /\ IsList(L) /\ InTurn(L, b.iter)
    BY DEF IsBoard, IsList
<1>2. Parsed(b) = [names |-> M, iter |-> b.iter]
    <2>1. Parsed(b) = [b EXCEPT !.names = M]
        BY DEF Parsed
    <2> HIDE DEF M, L
    <2>2. \A x, y : b = [names |-> x, iter |-> y] => [b EXCEPT !.names = M] = [names |-> M, iter |-> y]
        OBVIOUS
    <2>3. QED
        BY <1>1, <2>1, <2>2, Zenon
<1>3. Parsed(b).names = M /\ Parsed(b).iter = b.iter
    <2> HIDE DEF M
    <2>1. QED
        BY <1>2
<1>4. \A i \in DOMAIN L :
          /\ M[i] \in EntryRecord
          /\ M[i].name = L[i].name /\ M[i].text = L[i].text /\ M[i].from = L[i].from
          /\ M[i].met = L[i].met
          /\ M[i].bound = IF L[i].from = "client" THEN Unbound ELSE L[i].bound
    <2> TAKE i \in DOMAIN L
    <2>1. L[i] \in EntryRecord /\ M[i] = Again(L[i])
        BY <1>1
    <2> HIDE DEF M, L
    <2>2. QED
        BY <2>1, AgainIs
<1>5. M \in Seq(EntryRecord) /\ DOMAIN M = DOMAIN L /\ Len(M) = Len(L)
    <2>1. Len(L) \in Nat /\ DOMAIN L = 1 .. Len(L) /\ M = [k \in 1 .. Len(L) |-> M[k]]
        BY <1>1
    <2> HIDE DEF M, L
    <2>2. \A k \in 1 .. Len(L) : M[k] \in EntryRecord
        BY <1>4, <2>1
    <2>3. QED
        BY <2>1, <2>2, IsSequence
<1> HIDE DEF M, L
<1>6. IsList(M)
    BY <1>1, <1>4, <1>5 DEF IsList
<1>7. InTurn(M, b.iter)
    BY <1>1, <1>4, <1>5 DEF InTurn
<1>8. IsBoard(Parsed(b))
    BY <1>2, <1>3, <1>6, <1>7 DEF IsBoard
<1>9. SameTexts(L, M)
    BY <1>4, <1>5 DEF SameTexts
<1>10. QED
    BY <1>3, <1>4, <1>8, <1>9 DEF L

LEMMA RefreshedIs ==
    ASSUME NEW b, IsBoard(b), DataFree(b.names), NEW s \in Specs \cup {NoSpec},
           s = NoSpec => NoSpecIn(b.names)
    PROVE  /\ IsBoard(Refreshed(b, s)) /\ AllFree(Refreshed(b, s).names)
           /\ OwnOf(Refreshed(b, s).names) = OwnOf(b.names)
           /\ s = NoSpec => NoSpecIn(Refreshed(b, s).names)
<1> DEFINE p == Parsed(b)
           L == p.names
           u == Unlinked(p, OfSpec(L))
<1>1. IsBoard(p) /\ SameTexts(b.names, L)
      /\ \A i \in DOMAIN b.names :
            L[i].bound = IF b.names[i].from = "client" THEN Unbound ELSE b.names[i].bound
    BY ParsedIs, Zenon
<1>2. Refreshed(b, s) = IF s = NoSpec THEN p ELSE Imported(u, s, FALSE)
    BY Zenon DEF Refreshed, Parsed, Again
<1>3. b.names \in Seq(EntryRecord) /\ L \in Seq(EntryRecord) /\ DOMAIN b.names = DOMAIN L
      /\ \A i \in DOMAIN b.names : b.names[i].from = "program" => b.names[i].text = Data
    BY <1>1, Zenon DEF IsBoard, IsList, SameTexts
<1>4. \A i \in DOMAIN L :
          /\ L[i].name = b.names[i].name /\ L[i].from = b.names[i].from
          /\ L[i].from # "spec" => L[i].bound = Unbound
    <2> TAKE i \in DOMAIN L
    <2>1. b.names[i] \in EntryRecord
        BY <1>3
    <2>2. b.names[i].from \in {"client", "program", "spec"}
        BY <2>1 DEF EntryRecord
    <2>3. QED
        BY <1>1, <1>3, <2>2, Zenon DEF SameTexts, DataFree
<1>5. OwnOf(L) = OwnOf(b.names)
    BY <1>1, <1>3, TextsAreOwn
<1> HIDE DEF p
<1>6. CASE s = NoSpec
    <2>1. \A i \in DOMAIN L : L[i].from # "spec"
        BY <1>3, <1>4, <1>6, Zenon DEF NoSpecIn
    <2>2. QED
        BY <1>1, <1>2, <1>4, <1>5, <1>6, <2>1, Zenon DEF AllFree, NoSpecIn
<1>7. CASE s # NoSpec
    <2> DEFINE K == Kept(L, OfSpec(L))
               M == u.names
               I == Imports(Len(M), s, FALSE)
    <2>1. /\ IsBoard(u) /\ DOMAIN M = 1 .. Cardinality(K)
          /\ \A k \in DOMAIN M :
                /\ M[k].name = L[Place(K, k)].name /\ M[k].text = L[Place(K, k)].text
                /\ M[k].from = L[Place(K, k)].from
                /\ L[Place(K, k)].bound = Unbound => M[k].bound = Unbound
        BY <1>1, UnlinkedIs
    <2>2. M \in Seq(EntryRecord)
        BY <2>1, Zenon DEF IsBoard, IsList
    <2>3. \A i \in DOMAIN L : i \in OfSpec(L) <=> L[i].from = "spec"
        <3>1. DOMAIN L = 1 .. Len(L)
            BY <1>3
        <3>2. QED
            BY <3>1, Zenon DEF OfSpec, Of
    <2>4. KeptTexts(L, OfSpec(L), M)
        BY <2>1, Zenon DEF KeptTexts
    <2>5. OwnOf(M) = OwnOf(L)
        BY <1>3, <2>2, <2>3, <2>4, OwnKept
    <2>6. \A k \in DOMAIN M : M[k].bound = Unbound
        <3> TAKE k \in DOMAIN M
        <3> HIDE DEF L
        <3>1. Place(K, k) \in K
            BY <1>3, <2>1, KeptIs
        <3>2. Place(K, k) \in DOMAIN L /\ Place(K, k) \notin OfSpec(L)
            BY <3>1, Zenon DEF Kept
        <3>3. QED
            BY <1>4, <2>1, <2>3, <3>2, Zenon
    <2>7. s \in Seq(SpecRecord)
        BY SpecIs
    <2>8. /\ IsBoard(Imported(u, s, FALSE)) /\ Imported(u, s, FALSE).names = M \o I
        BY <2>1, <2>7, ImportedIs
    <2>9. Len(M) \in Nat
        BY <2>2
    <2>10. /\ I \in Seq(EntryRecord)
           /\ \A k \in DOMAIN I : I[k].from = "spec" /\ I[k].bound = Unbound
        <3>1. \A k \in DOMAIN I :
                  I[k].from = "spec"
                  /\ I[k].bound = IF FALSE /\ I[k].text \in Name
                                  THEN TargetAt(Len(M), Defs(s), I[k].text) ELSE Unbound
            BY <2>7, <2>9, ImportsAre, Zenon
        <3>2. I \in Seq(EntryRecord)
            BY <2>7, <2>9, ImportsAre
        <3>3. QED
            BY <3>1, <3>2, Zenon
    <2> HIDE DEF I, M, K, u, L
    <2>11. OwnOf(M \o I) = OwnOf(M)
        BY <2>2, <2>10, OwnJoined
    <2>12. AllFree(M \o I)
        <3>1. \A i \in DOMAIN (M \o I) :
                  \/ i \in DOMAIN M /\ (M \o I)[i] = M[i]
                  \/ i - Len(M) \in DOMAIN I /\ (M \o I)[i] = I[i - Len(M)]
            BY <2>2, <2>10, Joined
        <3>2. QED
            BY <2>6, <2>10, <3>1, Zenon DEF AllFree
    <2>13. Refreshed(b, s) = Imported(u, s, FALSE)
        BY <1>2, <1>7
    <2>14. QED
        BY <1>5, <1>7, <2>5, <2>8, <2>11, <2>12, <2>13, Zenon
<1>8. QED
    BY <1>6, <1>7

-----------------------------------------------------------------------------
(***************************************************************************)
(* What a name is bound to.                                                *)
(***************************************************************************)
SpecNamed(L, n) == SelectInSeq(L, LAMBDA e : e.from = "spec" /\ e.name = n)
Loaded(L, loaded, i) == loaded /\ L[i].from = "spec"
TargetOf(L, loaded, i) ==
    IF Loaded(L, loaded, i) THEN SpecNamed(L, L[i].text) ELSE Named(L, L[i].text)

(* A reference is bound to its target or, as long as it may still be       *)
(* resolved, to nothing; in a loaded specification, to its target or, when *)
(* it has none, to what the program may add.                               *)
BoundAt(L, loaded, i) ==
    IF L[i].text = Data THEN L[i].bound = Unbound
    ELSE \/ L[i].bound = Unbound /\ ~Loaded(L, loaded, i)
         \/ L[i].bound > 0 /\ L[i].bound = TargetOf(L, loaded, i)
         \/ L[i].bound = Extern /\ Loaded(L, loaded, i) /\ TargetOf(L, loaded, i) = 0
BoundRight(L, loaded) == \A i \in DOMAIN L : BoundAt(L, loaded, i)

(* What was not compiled since it was parsed is bound to nothing.          *)
FreeIfNew(L, loaded, r) ==
    r = "no" => \A i \in DOMAIN L : ~Loaded(L, loaded, i) => L[i].bound = Unbound

LEMMA DataIsFree ==
    ASSUME NEW L, NEW loaded, BoundRight(L, loaded)
    PROVE  DataFree(L)
<1>1. QED
    BY Zenon DEF BoundRight, BoundAt, DataFree

LEMMA FreeIsRight ==
    ASSUME NEW L, AllFree(L)
    PROVE  BoundRight(L, FALSE) /\ \A r : FreeIfNew(L, FALSE, r)
<1>1. QED
    BY Zenon DEF BoundRight, BoundAt, AllFree, FreeIfNew, Loaded

LEMMA SpecNamedType ==
    ASSUME NEW L \in Seq(EntryRecord), NEW n
    PROVE  /\ SpecNamed(L, n) = First({i \in 1 .. Len(L) : L[i].from = "spec" /\ L[i].name = n})
           /\ SpecNamed(L, n) \in 0 .. Len(L)
<1> DEFINE I == {i \in 1 .. Len(L) : L[i].from = "spec" /\ L[i].name = n}
<1>1. SpecNamed(L, n) = First(I)
    BY DEF SpecNamed, SelectInSeq, First
<1>2. I \subseteq Nat \ {0}
    OBVIOUS
<1>3. First(I) = 0 \/ First(I) \in I
    <2> HIDE DEF I
    <2> QED
        BY <1>2, FirstIs
<1>4. QED
    BY <1>1, <1>3

LEMMA ExternalType ==
    ASSUME NEW L \in Seq(EntryRecord), NEW n
    PROVE  External(L, n) = First({i \in 1 .. Len(L) : L[i].from = "program" /\ L[i].name = n})
<1>1. QED
    BY DEF External, SelectInSeq, First

LEMMA TargetType ==
    ASSUME NEW L \in Seq(EntryRecord), NEW loaded, NEW i
    PROVE  TargetOf(L, loaded, i) \in 0 .. Len(L)
<1>1. Named(L, L[i].text) \in 0 .. Len(L) /\ SpecNamed(L, L[i].text) \in 0 .. Len(L)
    BY NamedType, SpecNamedType
<1>2. QED
    BY <1>1, Zenon DEF TargetOf

(* What a name is for depends on the texts only.                           *)
LEMMA SameTargets ==
    ASSUME NEW L \in Seq(EntryRecord), NEW M \in Seq(EntryRecord), SameTexts(L, M)
    PROVE  /\ \A n : Named(M, n) = Named(L, n) /\ External(M, n) = External(L, n)
           /\ \A loaded : \A i \in DOMAIN L :
                 /\ Loaded(M, loaded, i) <=> Loaded(L, loaded, i)
                 /\ TargetOf(M, loaded, i) = TargetOf(L, loaded, i)
<1>1. 1 .. Len(M) = DOMAIN L /\ 1 .. Len(L) = DOMAIN L
    BY DEF SameTexts
<1>2. \A i \in DOMAIN L : M[i].name = L[i].name /\ M[i].text = L[i].text /\ M[i].from = L[i].from
    BY DEF SameTexts
<1>3. ASSUME NEW n
      PROVE  Named(M, n) = Named(L, n) /\ External(M, n) = External(L, n)
             /\ SpecNamed(M, n) = SpecNamed(L, n)
    <2>1. {i \in 1 .. Len(M) : M[i].name = n} = {i \in 1 .. Len(L) : L[i].name = n}
        BY <1>1, <1>2
    <2>2. {i \in 1 .. Len(M) : M[i].from = "program" /\ M[i].name = n}
          = {i \in 1 .. Len(L) : L[i].from = "program" /\ L[i].name = n}
        BY <1>1, <1>2
    <2>3. {i \in 1 .. Len(M) : M[i].from = "spec" /\ M[i].name = n}
          = {i \in 1 .. Len(L) : L[i].from = "spec" /\ L[i].name = n}
        BY <1>1, <1>2
    <2>4. Named(M, n) = Named(L, n)
        <3>1. Named(M, n) = First({i \in 1 .. Len(M) : M[i].name = n})
            BY NamedType
        <3>2. Named(L, n) = First({i \in 1 .. Len(L) : L[i].name = n})
            BY NamedType
        <3>3. QED
            BY <2>1, <3>1, <3>2, Zenon
    <2>5. External(M, n) = External(L, n)
        <3>1. External(M, n) = First({i \in 1 .. Len(M) : M[i].from = "program" /\ M[i].name = n})
            BY ExternalType, Zenon
        <3>2. External(L, n) = First({i \in 1 .. Len(L) : L[i].from = "program" /\ L[i].name = n})
            BY ExternalType, Zenon
        <3>3. QED
            BY <2>2, <3>1, <3>2, Zenon
    <2>6. SpecNamed(M, n) = SpecNamed(L, n)
        <3>1. SpecNamed(M, n) = First({i \in 1 .. Len(M) : M[i].from = "spec" /\ M[i].name = n})
            BY SpecNamedType
        <3>2. SpecNamed(L, n) = First({i \in 1 .. Len(L) : L[i].from = "spec" /\ L[i].name = n})
            BY SpecNamedType
        <3>3. QED
            BY <2>3, <3>1, <3>2, Zenon
    <2>7. QED
        BY <2>4, <2>5, <2>6
<1>4. \A loaded : \A i \in DOMAIN L :
          /\ Loaded(M, loaded, i) <=> Loaded(L, loaded, i)
          /\ TargetOf(M, loaded, i) = TargetOf(L, loaded, i)
    BY <1>2, <1>3, Zenon DEF Loaded, TargetOf
<1>5. QED
    BY <1>3, <1>4, Zenon

(* A list that changed by what it is bound to, or by what is compiled.     *)
Changed(L, M) ==
    M \in Seq(EntryRecord) /\ SameTexts(L, M) /\ \A i \in DOMAIN L : M[i].met = L[i].met

LEMMA ChangedTwice ==
    ASSUME NEW L, NEW M, NEW R, Changed(L, M), Changed(M, R)
    PROVE  Changed(L, R)
<1>1. QED
    BY Zenon DEF Changed, SameTexts

LEMMA ChangedBoard ==
    ASSUME NEW b, IsBoard(b), NEW M, Changed(b.names, M)
    PROVE  IsBoard([b EXCEPT !.names = M]) /\ [b EXCEPT !.names = M] = [names |-> M, iter |-> b.iter]
<1> DEFINE L == b.names
           c == [names |-> M, iter |-> b.iter]
<1>1. b = [names |-> L, iter |-> b.iter] /\ IsList(L) /\ InTurn(L, b.iter)
    BY DEF IsBoard
<1> HIDE DEF L
<1>2. [b EXCEPT !.names = M] = c
    <2>1. \A x, y : b = [names |-> x, iter |-> y] => [b EXCEPT !.names = M] = [names |-> M, iter |-> y]
        OBVIOUS
    <2>2. QED
        BY <1>1, <2>1, Zenon
<1>3. /\ M \in Seq(EntryRecord) /\ L \in Seq(EntryRecord) /\ DOMAIN M = DOMAIN L
      /\ \A i \in DOMAIN L : M[i].text = L[i].text /\ M[i].from = L[i].from /\ M[i].met = L[i].met
    BY <1>1 DEF Changed, SameTexts, IsList, L
<1>4. Len(M) = Len(L)
    BY <1>3
<1>5. IsList(M)
    BY <1>1, <1>3, Zenon DEF IsList
<1>6. InTurn(M, b.iter)
    BY <1>1, <1>3, <1>4 DEF InTurn
<1>7. c.names = M /\ c.iter = b.iter
    OBVIOUS
<1> HIDE DEF c
<1>8. IsBoard(c)
    BY <1>5, <1>6, <1>7 DEF IsBoard, c
<1>9. QED
    BY <1>2, <1>8 DEF c

-----------------------------------------------------------------------------
(***************************************************************************)
(* The board is compiled.                                                  *)
(***************************************************************************)
LEMMA LinkIs ==
    ASSUME NEW L \in Seq(EntryRecord), NEW i \in DOMAIN L
    PROVE  /\ IsLink(L[i]) <=> L[i].text # Data
           /\ L[i].bound \in Int /\ L[i].text \in Name \cup {Data}
<1>1. L[i] \in EntryRecord
    OBVIOUS
<1>2. L[i].text \in Name \cup {Data} /\ L[i].bound \in Int
    BY <1>1 DEF EntryRecord
<1>3. Data \notin Name
    BY BoardAssumption
<1>4. QED
    BY <1>2, <1>3, Zenon DEF IsLink

BoundTo(e, n) == [e EXCEPT !.bound = n]

LEMMA BoundToIs ==
    ASSUME NEW e \in EntryRecord, NEW n \in Int
    PROVE  BoundTo(e, n) \in EntryRecord /\ BoundTo(e, n).bound = n
<1>1. QED
    BY DEF EntryRecord, BoundTo

(* One field of each name changes, or none.                                *)
OneField(L, M) ==
    /\ DOMAIN M = DOMAIN L /\ M = [i \in DOMAIN L |-> M[i]]
    /\ \A i \in DOMAIN L :
          \/ M[i] = L[i]
          \/ \E n \in Int : M[i] = BoundTo(L[i], n)
          \/ \E d \in BOOLEAN : M[i] = [L[i] EXCEPT !.done = d]

LEMMA ListChanges ==
    ASSUME NEW L \in Seq(EntryRecord), NEW M, OneField(L, M)
    PROVE  Changed(L, M)
<1>1. Len(L) \in Nat /\ DOMAIN L = 1 .. Len(L)
    OBVIOUS
<1>2. \A i \in DOMAIN L : /\ M[i] \in EntryRecord /\ M[i].met = L[i].met
                          /\ M[i].name = L[i].name /\ M[i].text = L[i].text /\ M[i].from = L[i].from
    <2> TAKE i \in DOMAIN L
    <2> DEFINE e == L[i]
               x == M[i]
    <2>1. e \in EntryRecord
        OBVIOUS
    <2>2. \/ x = e
          \/ \E n \in Int : x = BoundTo(e, n)
          \/ \E d \in BOOLEAN : x = [e EXCEPT !.done = d]
        BY DEF OneField
    <2> HIDE DEF e, x
    <2>3. CASE x = e
        BY <2>1, <2>3 DEF e, x
    <2>4. ASSUME NEW n \in Int, x = BoundTo(e, n)
          PROVE  x \in EntryRecord /\ x.met = e.met /\ x.name = e.name /\ x.text = e.text /\ x.from = e.from
        BY <2>1, <2>4 DEF EntryRecord, BoundTo
    <2>5. ASSUME NEW d \in BOOLEAN, x = [e EXCEPT !.done = d]
          PROVE  x \in EntryRecord /\ x.met = e.met /\ x.name = e.name /\ x.text = e.text /\ x.from = e.from
        BY <2>1, <2>5 DEF EntryRecord
    <2>6. x \in EntryRecord /\ x.met = e.met /\ x.name = e.name /\ x.text = e.text /\ x.from = e.from
        BY <2>1, <2>2, <2>4, <2>5, Zenon
    <2>7. QED
        BY <2>6, Zenon DEF e, x
<1>3. M \in Seq(EntryRecord)
    <2>1. M = [k \in 1 .. Len(L) |-> M[k]] /\ \A k \in 1 .. Len(L) : M[k] \in EntryRecord
        BY <1>1, <1>2, Zenon DEF OneField
    <2>2. QED
        BY <1>1, <2>1, IsSequence
<1>4. QED
    BY <1>2, <1>3, Zenon DEF Changed, SameTexts, OneField

LEMMA ResolvedIs ==
    ASSUME NEW L \in Seq(EntryRecord), NEW loaded, BoundRight(L, loaded)
    PROVE  LET R == Resolved(L) IN
           /\ Changed(L, R) /\ BoundRight(R, loaded)
           /\ \A i \in DOMAIN L : IsLink(R[i]) /\ R[i].bound = Unbound => Named(L, L[i].text) = 0
<1> DEFINE R == Resolved(L)
           Opens(i) == IsLink(L[i]) /\ L[i].bound = Unbound
           N(i) == Named(L, L[i].text)
<1>1. R = [i \in DOMAIN L |-> IF Opens(i) THEN BoundTo(L[i], N(i)) ELSE L[i]]
    BY Zenon DEF Resolved, BoundTo
<1>2. \A i \in DOMAIN L : N(i) \in 0 .. Len(L) /\ N(i) \in Int /\ N(i) >= 0
    <2>1. \A i \in DOMAIN L : N(i) \in 0 .. Len(L)
        BY NamedType
    <2>2. QED
        BY <2>1
<1>3. /\ DOMAIN R = DOMAIN L
      /\ \A i \in DOMAIN L : (Opens(i) => R[i] = BoundTo(L[i], N(i))) /\ (~Opens(i) => R[i] = L[i])
    BY <1>1, Zenon
<1>4. R = [i \in DOMAIN L |-> R[i]]
    BY <1>1, Zenon
<1> HIDE DEF R
<1>5. Changed(L, R)
    <2>1. ASSUME NEW i \in DOMAIN L
          PROVE  \/ R[i] = L[i]
                 \/ \E n \in Int : R[i] = BoundTo(L[i], n)
                 \/ \E d \in BOOLEAN : R[i] = [L[i] EXCEPT !.done = d]
        <3> HIDE DEF N, Opens
        <3>1. QED
            BY <1>2, <1>3, Zenon
    <2>2. DOMAIN R = DOMAIN L
        BY <1>3
    <2> HIDE DEF N, Opens
    <2>3. \A i \in DOMAIN L :
              \/ R[i] = L[i]
              \/ \E n \in Int : R[i] = BoundTo(L[i], n)
              \/ \E d \in BOOLEAN : R[i] = [L[i] EXCEPT !.done = d]
        BY <2>1, Zenon
    <2>4. OneField(L, R)
        BY <1>4, <2>2, <2>3 DEF OneField
    <2>5. QED
        BY <2>4, ListChanges
<1>6. \A i \in DOMAIN L : /\ Opens(i) => R[i].bound = N(i)
                          /\ ~Opens(i) => R[i].bound = L[i].bound
    <2>1. \A i \in DOMAIN L : L[i] \in EntryRecord
        OBVIOUS
    <2> HIDE DEF N, Opens
    <2>2. \A i \in DOMAIN L : BoundTo(L[i], N(i)).bound = N(i)
        BY <1>2, <2>1, BoundToIs, Zenon
    <2>3. QED
        BY <1>3, <2>2, Zenon
<1>7. /\ R \in Seq(EntryRecord) /\ SameTexts(L, R)
      /\ \A i \in DOMAIN L : R[i].text = L[i].text
    BY <1>5, Zenon DEF Changed, SameTexts
<1>8. \A i \in DOMAIN L : /\ Loaded(R, loaded, i) <=> Loaded(L, loaded, i)
                          /\ TargetOf(R, loaded, i) = TargetOf(L, loaded, i)
    BY <1>7, SameTargets, Zenon
<1>9. \A i \in DOMAIN L : IsLink(L[i]) <=> L[i].text # Data
    BY LinkIs, Zenon
<1>10. ASSUME NEW i \in DOMAIN L PROVE BoundAt(R, loaded, i)
    <2>1. BoundAt(L, loaded, i)
        BY Zenon DEF BoundRight
    <2>2. CASE ~Opens(i)
        BY <1>6, <1>7, <1>8, <2>1, <2>2, Zenon DEF BoundAt
    <2>3. CASE Opens(i)
        <3>1. L[i].text # Data /\ R[i].bound = N(i) /\ L[i].bound = Unbound
            BY <1>6, <1>9, <2>3, Zenon
        <3>2. ~Loaded(L, loaded, i)
            BY <2>1, <3>1 DEF BoundAt, Unbound, Extern
        <3>3. TargetOf(L, loaded, i) = N(i)
            BY <3>2, Zenon DEF TargetOf
        <3>4. CASE N(i) = 0
            BY <1>7, <1>8, <3>1, <3>2, <3>4, Zenon DEF BoundAt, Unbound
        <3>5. CASE N(i) # 0
            <4>1. N(i) > 0
                BY <1>2, <3>5
            <4>2. QED
                BY <1>7, <1>8, <3>1, <3>3, <4>1, Zenon DEF BoundAt
        <3>6. QED
            BY <3>4, <3>5
    <2>4. QED
        BY <2>2, <2>3
<1>11. BoundRight(R, loaded)
    BY <1>7, <1>10, Zenon DEF BoundRight, SameTexts
<1>12. ASSUME NEW i \in DOMAIN L, IsLink(R[i]), R[i].bound = Unbound PROVE N(i) = 0
    <2>1. IsLink(L[i])
        BY <1>7, <1>12, Zenon DEF IsLink
    <2>2. CASE Opens(i)
        BY <1>6, <1>12, <2>2, Zenon DEF Unbound
    <2>3. CASE ~Opens(i)
        BY <1>6, <1>12, <2>1, <2>3, Zenon
    <2>4. QED
        BY <2>2, <2>3
<1>13. QED
    BY <1>5, <1>11, <1>12, Zenon DEF R

LEMMA CompiledIs ==
    ASSUME NEW L \in Seq(EntryRecord), NEW K
    PROVE  LET M == Compiled(L, K) IN
           /\ Changed(L, M)
           /\ \A i \in DOMAIN L : M[i].bound = L[i].bound /\ (L[i].done => M[i].done)
<1> DEFINE M == Compiled(L, K)
           reached == UNION {{Walk(L, k, ToCompile(L))[n] : n \in 0 .. Len(L)} : k \in K}
<1>1. M = [i \in DOMAIN L |-> IF i \in reached THEN [L[i] EXCEPT !.done = TRUE] ELSE L[i]]
    BY Zenon DEF Compiled
<1> HIDE DEF reached
<1>2. DOMAIN M = DOMAIN L /\ \A i \in DOMAIN L : M[i] = [L[i] EXCEPT !.done = TRUE] \/ M[i] = L[i]
    BY <1>1, Zenon
<1>3. M = [i \in DOMAIN L |-> M[i]]
    BY <1>1, Zenon
<1> HIDE DEF M
<1>4. Changed(L, M)
    <2>1. ASSUME NEW i \in DOMAIN L
          PROVE  M[i] = L[i] \/ \E d \in BOOLEAN : M[i] = [L[i] EXCEPT !.done = d]
        BY <1>2, Zenon
    <2>2. OneField(L, M)
        BY <1>2, <1>3, <2>1, Zenon DEF OneField
    <2>3. QED
        BY <2>2, ListChanges
<1>5. \A i \in DOMAIN L : M[i].bound = L[i].bound /\ (L[i].done => M[i].done)
    <2>1. \A e \in EntryRecord : [e EXCEPT !.done = TRUE].bound = e.bound /\ [e EXCEPT !.done = TRUE].done
        BY DEF EntryRecord
    <2>2. \A i \in DOMAIN L : L[i] \in EntryRecord
        OBVIOUS
    <2>3. QED
        BY <1>2, <2>1, <2>2, Zenon
<1>6. QED
    BY <1>4, <1>5, Zenon DEF M

LEMMA CompiledIsRight ==
    ASSUME NEW L \in Seq(EntryRecord), NEW K, NEW loaded, BoundRight(L, loaded)
    PROVE  /\ BoundRight(Compiled(L, K), loaded)
           /\ Unresolved(Compiled(L, K)) <=> Unresolved(L)
<1> DEFINE M == Compiled(L, K)
<1>1. Changed(L, M) /\ \A i \in DOMAIN L : M[i].bound = L[i].bound
    BY CompiledIs, Zenon
<1> HIDE DEF M
<1>2. /\ M \in Seq(EntryRecord) /\ SameTexts(L, M) /\ DOMAIN M = DOMAIN L
      /\ \A i \in DOMAIN L : M[i].text = L[i].text
    BY <1>1, Zenon DEF Changed, SameTexts
<1>3. \A i \in DOMAIN L : /\ Loaded(M, loaded, i) <=> Loaded(L, loaded, i)
                          /\ TargetOf(M, loaded, i) = TargetOf(L, loaded, i)
    BY <1>2, SameTargets, Zenon
<1>4. BoundRight(M, loaded)
    BY <1>1, <1>2, <1>3, Zenon DEF BoundRight, BoundAt
<1>5. Unresolved(M) <=> Unresolved(L)
    BY <1>1, <1>2, Zenon DEF Unresolved, IsLink
<1>6. QED
    BY <1>4, <1>5 DEF M

(* Compiling binds what has a target, and does not succeed with references *)
(* that it found to have none.                                             *)
LEMMA SchemaIs ==
    ASSUME NEW L \in Seq(EntryRecord), NEW loaded, BoundRight(L, loaded)
    PROVE  LET c == Schema(L) IN
           /\ Changed(L, c.names) /\ BoundRight(c.names, loaded)
           /\ c.root \in {"no", "resolved", "stuck", "compiled"} \cup {root} /\ c.root # "no"
           /\ c.ok => (Unresolved(c.names) => root # "no" /\ Unresolved(L))
           /\ ~c.ok => root \notin {"stuck", "compiled"}
           /\ ~c.ok => \/ \E i \in DOMAIN L : IsLink(L[i]) /\ c.names[i].bound = Unbound
                                              /\ root = "no" /\ Named(L, L[i].text) = 0
                       \/ \E k \in DOMAIN c.names : Circular(c.names, k)
<1> DEFINE R == IF root = "no" THEN Resolved(L) ELSE L
           c == Schema(L)
           M == Compiled(R, DOMAIN R)
<1>1. c = IF root \in {"stuck", "compiled"} THEN [ok |-> TRUE, names |-> L, root |-> root]
          ELSE IF root = "no" /\ Unresolved(R) THEN [ok |-> FALSE, names |-> R, root |-> "resolved"]
          ELSE IF \E k \in DOMAIN R : Circular(R, k) THEN [ok |-> FALSE, names |-> R, root |-> "stuck"]
          ELSE [ok |-> TRUE, names |-> M, root |-> "compiled"]
    BY Zenon DEF Schema
<1>2. Changed(L, L)
    BY Zenon DEF Changed, SameTexts
<1>3. /\ Changed(L, R) /\ BoundRight(R, loaded)
      /\ root # "no" => R = L
      /\ root = "no" => \A i \in DOMAIN L : IsLink(R[i]) /\ R[i].bound = Unbound => Named(L, L[i].text) = 0
    <2>1. CASE root = "no"
        <3>1. R = Resolved(L)
            BY <2>1
        <3> HIDE DEF R
        <3>2. QED
            BY <2>1, <3>1, ResolvedIs, Zenon
    <2>2. CASE root # "no"
        BY <1>2, <2>2
    <2>3. QED
        BY <2>1, <2>2
<1> HIDE DEF R
<1>4. R \in Seq(EntryRecord) /\ SameTexts(L, R) /\ DOMAIN R = DOMAIN L
      /\ \A i \in DOMAIN L : R[i].text = L[i].text
    BY <1>3, Zenon DEF Changed, SameTexts
<1>5. Changed(R, M) /\ BoundRight(M, loaded) /\ (Unresolved(M) <=> Unresolved(R))
    BY <1>3, <1>4, CompiledIs, CompiledIsRight, Zenon
<1>6. Changed(L, M)
    BY <1>3, <1>5, ChangedTwice
<1> HIDE DEF M, c
<1>7. CASE root \in {"stuck", "compiled"}
    <2>1. c = [ok |-> TRUE, names |-> L, root |-> root]
        BY <1>1, <1>7
    <2>2. c.ok /\ c.names = L /\ c.root = root
        BY <2>1
    <2>3. QED
        BY <1>2, <1>7, <2>2 DEF c
<1>8. CASE root \notin {"stuck", "compiled"} /\ root = "no" /\ Unresolved(R)
    <2>1. c = [ok |-> FALSE, names |-> R, root |-> "resolved"]
        BY <1>1, <1>8
    <2>2. ~c.ok /\ c.names = R /\ c.root = "resolved"
        BY <2>1
    <2>3. PICK i \in DOMAIN R : IsLink(R[i]) /\ R[i].bound = Unbound
        BY <1>8, Zenon DEF Unresolved
    <2>4. i \in DOMAIN L /\ IsLink(L[i]) /\ R[i].bound = Unbound /\ root = "no" /\ Named(L, L[i].text) = 0
        BY <1>3, <1>4, <1>8, <2>3, Zenon DEF IsLink
    <2>5. QED
        BY <1>3, <2>2, <2>4 DEF c
<1>9. CASE root \notin {"stuck", "compiled"} /\ ~(root = "no" /\ Unresolved(R)) /\ \E k \in DOMAIN R : Circular(R, k)
    <2>1. c = [ok |-> FALSE, names |-> R, root |-> "stuck"]
        BY <1>1, <1>9
    <2>2. ~c.ok /\ c.names = R /\ c.root = "stuck"
        BY <2>1
    <2>3. \E k \in DOMAIN c.names : Circular(c.names, k)
        BY <1>9, <2>2
    <2>4. root \notin {"stuck", "compiled"}
        BY <1>9
    <2>5. QED
        BY <1>3, <2>2, <2>3, <2>4, Zenon DEF c
<1>10. CASE root \notin {"stuck", "compiled"} /\ ~(root = "no" /\ Unresolved(R)) /\ ~(\E k \in DOMAIN R : Circular(R, k))
    <2>1. c = [ok |-> TRUE, names |-> M, root |-> "compiled"]
        BY <1>1, <1>10
    <2>2. c.ok /\ c.names = M /\ c.root = "compiled"
        BY <2>1
    <2>3. Unresolved(M) => root # "no" /\ Unresolved(L)
        BY <1>3, <1>5, <1>10
    <2>4. QED
        BY <1>5, <1>6, <2>2, <2>3 DEF c
<1>11. QED
    BY <1>7, <1>8, <1>9, <1>10, Zenon

-----------------------------------------------------------------------------
(***************************************************************************)
(* Where the references of a name lead, and what it stands for.            *)
(***************************************************************************)
(* What each step makes of the one before it is computed.                  *)
Repeats(g, N, a, F) == g = [n \in 0 .. N |-> IF n = 0 THEN a ELSE F[g[n - 1]]]

LEMMA Repeated ==
    ASSUME NEW N \in Nat, NEW X, NEW a \in X, NEW F \in [X -> X]
    PROVE  \E g : Repeats(g, N, a, F) /\ \A n \in 0 .. N : g[n] \in X
<1> DEFINE XX == [n \in 0 .. N |-> X]
           FF == [n \in 1 .. N |-> F]
<1>1. a \in XX[0] /\ \A n \in 1 .. N : \A x \in XX[n - 1] : FF[n][x] \in XX[n]
    OBVIOUS
<1>2. \E g : Steps(g, N, a, FF) /\ Typed(g, N, XX)
    <2> HIDE DEF XX, FF
    <2>1. QED
        BY <1>1, Iterated
<1>3. PICK g : Steps(g, N, a, FF) /\ Typed(g, N, XX)
    BY <1>2
<1>4. \A n \in 0 .. N : n = 0 \/ FF[n] = F
    OBVIOUS
<1>5. [n \in 0 .. N |-> IF n = 0 THEN a ELSE FF[n][g[n - 1]]]
      = [n \in 0 .. N |-> IF n = 0 THEN a ELSE F[g[n - 1]]]
    <2> HIDE DEF FF
    <2>1. QED
        BY <1>4, Zenon
<1>6. Repeats(g, N, a, F)
    <2>1. g = [n \in 0 .. N |-> IF n = 0 THEN a ELSE FF[n][g[n - 1]]]
        BY <1>3, Zenon DEF Steps
    <2> HIDE DEF FF
    <2>2. QED
        BY <1>5, <2>1, Zenon DEF Repeats
<1>7. \A n \in 0 .. N : g[n] \in X
    <2>1. \A n \in 0 .. N : g[n] \in XX[n]
        BY <1>3, Zenon DEF Typed
    <2>2. QED
        BY <2>1
<1>8. QED
    BY <1>6, <1>7

StepOf(L, S, x) == IF x \in S /\ L[x].bound > 0 THEN L[x].bound ELSE 0

LEMMA StepType ==
    ASSUME NEW L \in Seq(EntryRecord), NEW loaded, BoundRight(L, loaded), NEW S, S \subseteq DOMAIN L,
           NEW x \in 0 .. Len(L)
    PROVE  StepOf(L, S, x) \in 0 .. Len(L)
<1>1. CASE x \in S /\ L[x].bound > 0
    <2>1. x \in DOMAIN L /\ BoundAt(L, loaded, x)
        BY <1>1 DEF BoundRight
    <2>2. L[x].bound = TargetOf(L, loaded, x)
        BY <1>1, <2>1 DEF BoundAt, Unbound, Extern
    <2>3. TargetOf(L, loaded, x) \in 0 .. Len(L)
        BY TargetType
    <2>4. QED
        BY <1>1, <2>2, <2>3 DEF StepOf
<1>2. CASE ~(x \in S /\ L[x].bound > 0)
    <2>1. StepOf(L, S, x) = 0
        BY <1>2, Zenon DEF StepOf
    <2>2. Len(L) \in Nat
        OBVIOUS
    <2>3. QED
        BY <2>1, <2>2
<1>3. QED
    BY <1>1, <1>2

IsWay(w, L, k, S) ==
    /\ w[0] = k
    /\ \A n \in 0 .. Len(L) : w[n] \in 0 .. Len(L)
    /\ \A n \in 1 .. Len(L) : w[n] = StepOf(L, S, w[n - 1])

LEMMA WalkIs ==
    ASSUME NEW L \in Seq(EntryRecord), NEW loaded, BoundRight(L, loaded), NEW S, S \subseteq DOMAIN L,
           NEW k \in 0 .. Len(L)
    PROVE  IsWay(Walk(L, k, S), L, k, S)
<1> DEFINE N == Len(L)
           X == 0 .. N
           F == [x \in X |-> StepOf(L, S, x)]
           Is(g) == g = [n \in 0 .. Len(L) |-> IF n = 0 THEN k ELSE StepOf(L, S, g[n - 1])]
           g0 == CHOOSE g : Is(g)
<1>1. N \in Nat
    OBVIOUS
<1>2. \A x \in X : StepOf(L, S, x) \in X
    BY StepType
<1>3. F \in [X -> X]
    <2> HIDE DEF X
    <2>1. QED
        BY <1>2
<1>4. \E g : Is(g)
    <2>1. PICK g : Repeats(g, N, k, F) /\ \A n \in 0 .. N : g[n] \in X
        <3> HIDE DEF F, N
        <3>1. k \in X
            BY DEF N
        <3> HIDE DEF X
        <3>2. \E g : Repeats(g, N, k, F) /\ \A n \in 0 .. N : g[n] \in X
            BY <1>1, <1>3, <3>1, Repeated
        <3>3. QED
            BY <3>2
    <2>2. \A n \in 0 .. N : n = 0 \/ F[g[n - 1]] = StepOf(L, S, g[n - 1])
        <3>1. \A n \in 0 .. N : n = 0 \/ n - 1 \in 0 .. N
            BY <1>1
        <3>2. \A x \in X : F[x] = StepOf(L, S, x)
            OBVIOUS
        <3> HIDE DEF F, N
        <3>3. QED
            BY <2>1, <3>1, <3>2, Zenon
    <2> HIDE DEF F
    <2>3. [n \in 0 .. N |-> IF n = 0 THEN k ELSE F[g[n - 1]]]
          = [n \in 0 .. N |-> IF n = 0 THEN k ELSE StepOf(L, S, g[n - 1])]
        BY <2>2, Zenon
    <2>4. g = [n \in 0 .. N |-> IF n = 0 THEN k ELSE F[g[n - 1]]]
        BY <2>1, Zenon DEF Repeats
    <2>5. Is(g)
        BY <2>3, <2>4, Zenon
    <2>6. QED
        BY <2>5, Zenon
<1>5. Is(g0)
    <2> HIDE DEF Is
    <2>1. QED
        BY <1>4, Zenon
<1>6. Walk(L, k, S) = g0
    BY Zenon DEF Walk, StepOf
<1> HIDE DEF g0, F
<1>7. g0[0] = k /\ \A n \in 1 .. N : g0[n] = StepOf(L, S, g0[n - 1])
    <2>1. \A n \in 1 .. N : n # 0 /\ n \in 0 .. N
        BY <1>1
    <2>2. 0 \in 0 .. N
        BY <1>1
    <2> HIDE DEF N
    <2>3. g0 = [n \in 0 .. N |-> IF n = 0 THEN k ELSE StepOf(L, S, g0[n - 1])]
        BY <1>5, Zenon DEF N
    <2>4. QED
        BY <2>1, <2>2, <2>3, Zenon
<1>8. \A n \in 0 .. N : g0[n] \in X
    <2> DEFINE P == {n \in 0 .. N : g0[n] \in X}
    <2>1. 0 \in P
        BY <1>1, <1>7
    <2>2. \A n \in 1 .. N : n - 1 \in P => n \in P
        <3>1. \A n \in 1 .. N : n \in 0 .. N
            BY <1>1
        <3> HIDE DEF N, X
        <3>2. QED
            BY <1>2, <1>7, <3>1, Zenon
    <2> HIDE DEF P, N, X
    <2>3. \A n \in 0 .. N : n \in P
        BY <1>1, <2>1, <2>2, UpTo
    <2>4. QED
        BY <2>3 DEF P
<1>9. QED
    BY <1>6, <1>7, <1>8, Zenon DEF IsWay

(* What each name of the list stands for, when that many references are    *)
(* followed.                                                               *)
GivesAt(g, h, i) ==
    IF names[i].text = Data THEN <<names[i].from, names[i].name>>
    ELSE IF ~Loaded(names, asLoaded, i) \/ TargetOf(names, asLoaded, i) # 0
         THEN g[h - 1][TargetOf(names, asLoaded, i)]
    ELSE IF External(names, names[i].text) = 0 THEN <<"missing">>
    ELSE <<"program", names[i].text>>
AreMeanings(g) ==
    /\ \A h \in 0 .. Len(names) : g[h][0] = Nothing
    /\ \A i \in 0 .. Len(names) : g[0][i] = Nothing
    /\ \A h, i \in 1 .. Len(names) : g[h][i] = GivesAt(g, h, i)

LEMMA MeansIs ==
    ASSUME names \in Seq(EntryRecord)
    PROVE  \E g : AreMeanings(g) /\ \A k : Means(k) = g[Len(names)][k]
<1> DEFINE N == Len(names)
           T(i) == TargetOf(names, asLoaded, i)
           Within(i) == Loaded(names, asLoaded, i)
           A == {Nothing, <<"missing">>}
                \cup {<<names[i].from, names[i].name>> : i \in 0 .. N}
                \cup {<<"program", names[i].text>> : i \in 0 .. N}
           X == [0 .. N -> A]
           a == [i \in 0 .. N |-> Nothing]
           From(w, i) ==
               IF i = 0 THEN Nothing
               ELSE IF names[i].text = Data THEN <<names[i].from, names[i].name>>
               ELSE IF ~Within(i) \/ T(i) # 0 THEN w[T(i)]
               ELSE IF External(names, names[i].text) = 0 THEN <<"missing">>
               ELSE <<"program", names[i].text>>
           Next_(w) == [i \in 0 .. N |-> From(w, i)]
           F == [w \in X |-> Next_(w)]
           At(g, h, i) ==
               IF i = 0 \/ h = 0 THEN Nothing
               ELSE IF names[i].text = Data THEN <<names[i].from, names[i].name>>
               ELSE IF ~Within(i) \/ T(i) # 0 THEN g[h - 1][T(i)]
               ELSE IF External(names, names[i].text) = 0 THEN <<"missing">>
               ELSE <<"program", names[i].text>>
           Is(g) == g = [h \in 0 .. Len(names) |-> [i \in 0 .. Len(names) |-> At(g, h, i)]]
           g0 == CHOOSE g : Is(g)
<1>1. N \in Nat /\ \A i \in 0 .. N : T(i) \in 0 .. N
    BY TargetType
<1>2. \A w \in X : \A i \in 0 .. N : From(w, i) \in A
    <2> SUFFICES ASSUME NEW w \in X, NEW i \in 0 .. N PROVE From(w, i) \in A
        OBVIOUS
    <2>1. w[T(i)] \in A
        <3> HIDE DEF A, T, N
        <3>1. QED
            BY <1>1
    <2>2. Nothing \in A /\ <<"missing">> \in A /\ <<names[i].from, names[i].name>> \in A
          /\ <<"program", names[i].text>> \in A
        BY Zenon
    <2> HIDE DEF A, T, N, Within
    <2>3. QED
        BY <2>1, <2>2, Zenon
<1> HIDE DEF A, T, N, Within
<1>3. F \in [X -> X]
    <2> HIDE DEF From
    <2>1. \A w \in X : Next_(w) \in X
        BY <1>2
    <2> HIDE DEF X, Next_
    <2>2. QED
        BY <2>1
<1>4. a \in X
    BY DEF A
<1>5. \E g : Is(g)
    <2>1. PICK g : Repeats(g, N, a, F) /\ \A n \in 0 .. N : g[n] \in X
        <3> HIDE DEF X, F, a
        <3>1. \E g : Repeats(g, N, a, F) /\ \A n \in 0 .. N : g[n] \in X
            BY <1>1, <1>3, <1>4, Repeated
        <3>2. QED
            BY <3>1
    <2>2. ASSUME NEW h \in 0 .. N
          PROVE  (IF h = 0 THEN a ELSE F[g[h - 1]]) = [i \in 0 .. N |-> At(g, h, i)]
        <3>1. CASE h = 0
            BY <3>1
        <3>2. CASE h # 0
            <4>1. g[h - 1] \in X
                <5>1. h - 1 \in 0 .. N
                    BY <1>1, <3>2
                <5>2. QED
                    BY <2>1, <5>1
            <4>2. F[g[h - 1]] = Next_(g[h - 1])
                <5> HIDE DEF X, Next_
                <5>1. QED
                    BY <4>1
            <4>3. \A i \in 0 .. N : From(g[h - 1], i) = At(g, h, i)
                BY <3>2, Zenon
            <4> HIDE DEF From, At
            <4>4. Next_(g[h - 1]) = [i \in 0 .. N |-> At(g, h, i)]
                BY <4>3, Zenon
            <4> HIDE DEF Next_, F
            <4>5. QED
                BY <3>2, <4>2, <4>4, Zenon
        <3>3. QED
            BY <3>1, <3>2
    <2> HIDE DEF F, a, At
    <2>3. [h \in 0 .. N |-> IF h = 0 THEN a ELSE F[g[h - 1]]] = [h \in 0 .. N |-> [i \in 0 .. N |-> At(g, h, i)]]
        BY <2>2, Zenon
    <2>4. g = [h \in 0 .. N |-> IF h = 0 THEN a ELSE F[g[h - 1]]]
        BY <2>1, Zenon DEF Repeats
    <2>5. Is(g)
        BY <2>3, <2>4, Zenon DEF N
    <2>6. QED
        BY <2>5, Zenon
<1>6. Is(g0)
    <2> HIDE DEF Is
    <2>1. QED
        BY <1>5, Zenon
<1>7. \A k : Means(k) = g0[Len(names)][k]
    BY Zenon DEF Means, Within, T, Loaded, TargetOf, SpecNamed
<1> HIDE DEF g0
<1>8. \A h, i \in 0 .. N : g0[h][i] = At(g0, h, i)
    <2> HIDE DEF At
    <2>1. g0 = [h \in 0 .. N |-> [i \in 0 .. N |-> At(g0, h, i)]]
        BY <1>6, Zenon DEF N
    <2> DEFINE Row(h) == [i \in 0 .. N |-> At(g0, h, i)]
    <2>2. \A h \in 0 .. N : g0[h] = Row(h)
        <3> HIDE DEF Row
        <3>1. g0 = [h \in 0 .. N |-> Row(h)]
            BY <2>1, Zenon DEF Row
        <3>2. QED
            BY <3>1, Zenon
    <2>3. \A h, i \in 0 .. N : Row(h)[i] = At(g0, h, i)
        BY Zenon
    <2> HIDE DEF Row
    <2>4. QED
        BY <2>2, <2>3, Zenon
<1>9. 0 \in 0 .. N /\ \A n \in 1 .. N : n \in 0 .. N /\ n # 0
    BY <1>1
<1>10. /\ \A h \in 0 .. N : g0[h][0] = Nothing
       /\ \A i \in 0 .. N : g0[0][i] = Nothing
       /\ \A h, i \in 1 .. N : g0[h][i] = GivesAt(g0, h, i)
    BY <1>8, <1>9, Zenon DEF GivesAt, Within, T
<1>11. AreMeanings(g0)
    BY <1>10, Zenon DEF AreMeanings, N
<1>12. QED
    BY <1>7, <1>11, Zenon

(* A list of the same texts, where what is bound is bound to its target.   *)
Reads(L) == L \in Seq(EntryRecord) /\ SameTexts(names, L) /\ BoundRight(L, asLoaded)

LEMMA ReadsIs ==
    ASSUME names \in Seq(EntryRecord), NEW L, Reads(L)
    PROVE  /\ Len(L) = Len(names) /\ Len(names) \in Nat /\ DOMAIN L = 1 .. Len(names)
           /\ \A n : Named(L, n) = Named(names, n) /\ External(L, n) = External(names, n)
           /\ \A i \in DOMAIN L :
                 /\ L[i].name = names[i].name /\ L[i].text = names[i].text
                 /\ L[i].from = names[i].from
                 /\ Loaded(L, asLoaded, i) <=> Loaded(names, asLoaded, i)
                 /\ TargetOf(L, asLoaded, i) = TargetOf(names, asLoaded, i)
<1>1. L \in Seq(EntryRecord) /\ SameTexts(names, L)
    BY DEF Reads
<1>2. DOMAIN L = DOMAIN names
      /\ \A i \in DOMAIN L : L[i].name = names[i].name /\ L[i].text = names[i].text
                             /\ L[i].from = names[i].from
    BY <1>1, Zenon DEF SameTexts
<1>3. Len(L) = Len(names) /\ Len(names) \in Nat /\ DOMAIN L = 1 .. Len(names)
    BY <1>1, <1>2
<1>4. QED
    <2>1. /\ \A n : Named(L, n) = Named(names, n) /\ External(L, n) = External(names, n)
          /\ \A loaded : \A i \in DOMAIN names :
                /\ Loaded(L, loaded, i) <=> Loaded(names, loaded, i)
                /\ TargetOf(L, loaded, i) = TargetOf(names, loaded, i)
        BY <1>1, SameTargets
    <2>2. QED
        BY <1>2, <1>3, <2>1, Zenon

(* One reference leads to what its target stands for.                      *)
LEMMA OneStep ==
    ASSUME names \in Seq(EntryRecord), NEW L, Reads(L), NEW g, AreMeanings(g),
           NEW x \in DOMAIN L, L[x].bound > 0, NEW h \in 1 .. Len(names)
    PROVE  g[h][x] = g[h - 1][L[x].bound]
<1>1. /\ x \in 1 .. Len(names) /\ L[x].text = names[x].text
      /\ Loaded(L, asLoaded, x) <=> Loaded(names, asLoaded, x)
      /\ TargetOf(L, asLoaded, x) = TargetOf(names, asLoaded, x)
    BY ReadsIs
<1>2. BoundAt(L, asLoaded, x)
    BY DEF Reads, BoundRight
<1>3. L[x].text # Data /\ L[x].bound = TargetOf(L, asLoaded, x) /\ TargetOf(L, asLoaded, x) # 0
    BY <1>2 DEF BoundAt, Unbound, Extern
<1>4. g[h][x] = GivesAt(g, h, x)
    BY <1>1, Zenon DEF AreMeanings
<1>5. GivesAt(g, h, x) = g[h - 1][TargetOf(names, asLoaded, x)]
    BY <1>1, <1>3, Zenon DEF GivesAt
<1>6. QED
    BY <1>1, <1>3, <1>4, <1>5

Follows(L, g, S, k, w) ==
    Reads(L) /\ AreMeanings(g) /\ S \subseteq DOMAIN L /\ IsWay(w, L, k, S)

LEMMA LeadsOn ==
    ASSUME names \in Seq(EntryRecord), NEW L, NEW g, NEW S, NEW k, NEW w, Follows(L, g, S, k, w)
    PROVE  \A n \in 0 .. Len(names) : w[n] # 0 => g[Len(names)][k] = g[Len(names) - n][w[n]]
<1> DEFINE N == Len(names)
           P == {n \in 0 .. N : w[n] # 0 => g[N][k] = g[N - n][w[n]]}
<1>6. Reads(L) /\ AreMeanings(g) /\ S \subseteq DOMAIN L /\ IsWay(w, L, k, S)
    BY Zenon DEF Follows
<1>1. Len(L) = N /\ N \in Nat /\ DOMAIN L = 1 .. N
    BY <1>6, ReadsIs
<1> HIDE DEF N
<1>2. 0 \in P
    <2>1. w[0] = k /\ N - 0 = N /\ 0 \in 0 .. N
        BY <1>1, <1>6 DEF IsWay
    <2>2. QED
        BY <2>1
<1>3. ASSUME NEW n \in 1 .. N, n - 1 \in P PROVE n \in P
    <2> SUFFICES ASSUME w[n] # 0 PROVE g[N][k] = g[N - n][w[n]]
        BY <1>1
    <2> DEFINE x == w[n - 1]
    <2>1. w[n] = StepOf(L, S, x)
        BY <1>1, <1>6 DEF IsWay
    <2>2. x \in S /\ L[x].bound > 0 /\ w[n] = L[x].bound
        BY <2>1 DEF StepOf
    <2>3. x \in DOMAIN L /\ x # 0
        BY <1>1, <1>6, <2>2
    <2>4. g[N][k] = g[N - (n - 1)][x]
        BY <1>3, <2>3
    <2>5. N - (n - 1) \in 1 .. N /\ N - (n - 1) - 1 = N - n
        BY <1>1
    <2> HIDE DEF x, P
    <2>6. \A h \in 1 .. N : g[h][x] = g[h - 1][L[x].bound]
        BY <1>6, <2>2, <2>3, OneStep DEF N
    <2>7. g[N - (n - 1)][x] = g[N - n][L[x].bound]
        BY <2>5, <2>6
    <2>8. QED
        BY <2>2, <2>4, <2>7
<1> HIDE DEF P
<1>4. \A n \in 0 .. N : n \in P
    BY <1>1, <1>2, <1>3, UpTo
<1>5. QED
    BY <1>4 DEF P, N

(* References that never end stand for nothing.                            *)
LEMMA CircleMeansNothing ==
    ASSUME names \in Seq(EntryRecord), NEW L, Reads(L), NEW S, S \subseteq DOMAIN L,
           NEW k \in 0 .. Len(L), Walk(L, k, S)[Len(L)] # 0
    PROVE  Means(k) = Nothing
<1>1. PICK g : AreMeanings(g) /\ \A i : Means(i) = g[Len(names)][i]
    BY MeansIs
<1>2. IsWay(Walk(L, k, S), L, k, S)
    BY WalkIs, Zenon DEF Reads
<1> DEFINE w == Walk(L, k, S)
           N == Len(names)
<1>3. Len(L) = N /\ N \in Nat /\ N \in 0 .. N
    BY ReadsIs
<1> HIDE DEF w, N
<1>4. w[N] # 0
    BY <1>3 DEF w
<1>5. w[N] \in 0 .. N
    BY <1>2, <1>3 DEF IsWay, w
<1>6. g[N][k] = g[N - N][w[N]]
    <2>1. \A n \in 0 .. N : w[n] # 0 => g[N][k] = g[N - n][w[n]]
        <3>1. Follows(L, g, S, k, w)
            BY <1>1, <1>2, Zenon DEF w, Follows
        <3>2. QED
            BY <3>1, LeadsOn DEF N
    <2>2. QED
        BY <1>3, <1>4, <2>1
<1>7. N - N = 0
    BY <1>3
<1>8. g[0][w[N]] = Nothing
    BY <1>1, <1>5, Zenon DEF AreMeanings, N
<1>9. QED
    BY <1>1, <1>6, <1>7, <1>8 DEF N

LEMMA CircularMeansNothing ==
    ASSUME names \in Seq(EntryRecord), NEW L, Reads(L), NEW k \in DOMAIN L, Circular(L, k)
    PROVE  Means(k) = Nothing
<1>1. ToCompile(L) \subseteq DOMAIN L
    BY DEF ToCompile
<1>2. Walk(L, k, ToCompile(L))[Len(L)] # 0
    BY DEF Circular
<1>3. k \in 0 .. Len(L)
    BY DEF Reads
<1>4. QED
    BY <1>1, <1>2, <1>3, CircleMeansNothing

LEMMA NoNameMeansNothing ==
    ASSUME names \in Seq(EntryRecord)
    PROVE  Means(0) = Nothing
<1>1. PICK g : AreMeanings(g) /\ \A i : Means(i) = g[Len(names)][i]
    BY MeansIs
<1>2. Len(names) \in 0 .. Len(names)
    OBVIOUS
<1>3. QED
    BY <1>1, <1>2, Zenon DEF AreMeanings

(* So do references to no name of the list.                                *)
LEMMA LostMeansNothing ==
    ASSUME names \in Seq(EntryRecord), NEW i \in DOMAIN names, names[i].text # Data,
           ~Loaded(names, asLoaded, i), Named(names, names[i].text) = 0
    PROVE  Means(i) = Nothing
<1>1. PICK g : AreMeanings(g) /\ \A k : Means(k) = g[Len(names)][k]
    BY MeansIs
<1> DEFINE N == Len(names)
<1>2. N \in 1 .. N /\ i \in 1 .. N /\ N - 1 \in 0 .. N
    OBVIOUS
<1>3. g[N][i] = GivesAt(g, N, i)
    BY <1>1, <1>2, Zenon DEF AreMeanings
<1>4. TargetOf(names, asLoaded, i) = 0
    BY Zenon DEF TargetOf
<1>5. GivesAt(g, N, i) = g[N - 1][0]
    BY <1>4, Zenon DEF GivesAt
<1>6. g[N - 1][0] = Nothing
    BY <1>1, <1>2, Zenon DEF AreMeanings
<1>7. QED
    BY <1>1, <1>3, <1>5, <1>6

(* What a compiled name gives is what it stands for; or else it recurses,  *)
(* for what stands for nothing, or fails, for what is not resolved.        *)
LEMMA ValueIsRight ==
    ASSUME names \in Seq(EntryRecord), NEW L, Reads(L), NEW k \in DOMAIN L
    PROVE  \/ Value(L, k) = Means(k)
           \/ Value(L, k) = Endless /\ Means(k) = Nothing
           \/ Value(L, k) \in Failures /\ Unresolved(L)
<1> DEFINE N   == Len(names)
           w   == Walk(L, k, DOMAIN L)
           EndsAt(n) == w[n] # 0 /\ (n = Len(L) \/ w[n + 1] = 0)
           c   == CHOOSE n \in 0 .. Len(L) : EndsAt(n)
           i   == w[c]
           v   == Value(L, k)
<1>1. Len(L) = N /\ N \in Nat /\ DOMAIN L = 1 .. N /\ k \in 0 .. Len(L) /\ k # 0
    BY ReadsIs
<1>2. IsWay(w, L, k, DOMAIN L)
    BY <1>1, WalkIs, Zenon DEF Reads
<1>3. v = IF w[Len(L)] # 0 THEN Endless
          ELSE IF L[i].text = Data THEN <<L[i].from, L[i].name>>
          ELSE IF L[i].bound # Extern THEN <<"nodata">>
          ELSE IF External(L, L[i].text) = 0 THEN <<"missing">> ELSE <<"program", L[i].text>>
    BY Zenon DEF Value
<1>4. <<"nodata">> \in Failures
    BY DEF Failures
<1>5. PICK g : AreMeanings(g) /\ \A j : Means(j) = g[Len(names)][j]
    BY MeansIs
<1> HIDE DEF N, w, v
<1>6. CASE w[Len(L)] # 0
    <2>1. Means(k) = Nothing
        BY <1>1, <1>6, CircleMeansNothing DEF w
    <2>2. QED
        BY <1>3, <1>6, <2>1, Zenon DEF v
<1>7. CASE w[Len(L)] = 0
    <2>1. \E n \in 0 .. Len(L) : EndsAt(n)
        <3> SUFFICES ASSUME \A n \in 0 .. Len(L) : ~EndsAt(n) PROVE FALSE
            OBVIOUS
        <3> DEFINE P == {n \in 0 .. N : w[n] # 0}
        <3>1. 0 \in P
            BY <1>1, <1>2 DEF IsWay
        <3>2. ASSUME NEW n \in 1 .. N, n - 1 \in P PROVE n \in P
            <4>1. n - 1 \in 0 .. Len(L) /\ n - 1 # Len(L) /\ (n - 1) + 1 = n /\ n \in 0 .. N
                BY <1>1
            <4>2. ~EndsAt(n - 1)
                BY <4>1
            <4>3. w[n - 1] # 0
                BY <3>2
            <4>4. w[(n - 1) + 1] # 0
                BY <4>1, <4>2, <4>3
            <4>5. QED
                BY <4>1, <4>4
        <3> HIDE DEF P
        <3>3. \A n \in 0 .. N : n \in P
            BY <1>1, <3>1, <3>2, UpTo
        <3>4. N \in P
            BY <1>1, <3>3
        <3>5. QED
            BY <1>1, <1>7, <3>4 DEF P
    <2>2. c \in 0 .. Len(L) /\ EndsAt(c)
        <3> HIDE DEF EndsAt
        <3>1. QED
            BY <2>1, Zenon
    <2> HIDE DEF c
    <2>3. c + 1 \in 1 .. N /\ c \in 0 .. N /\ c + 1 - 1 = c /\ w[c] # 0 /\ w[c + 1] = 0 /\ N - c \in 1 .. N
        BY <1>1, <1>7, <2>2
    <2>4. i \in DOMAIN L /\ i \in 1 .. N
        BY <1>1, <1>2, <2>3 DEF IsWay
    <2>5. ~(L[i].bound > 0)
        <3>1. w[c + 1] = StepOf(L, DOMAIN L, i)
            BY <1>1, <1>2, <2>3 DEF IsWay
        <3> HIDE DEF i
        <3>2. QED
            BY <2>3, <2>4, <3>1 DEF StepOf
    <2>6. Means(k) = g[N - c][i]
        <3>1. \A n \in 0 .. N : w[n] # 0 => g[N][k] = g[N - n][w[n]]
            <4>1. DOMAIN L \subseteq DOMAIN L
                OBVIOUS
            <4>2. Follows(L, g, DOMAIN L, k, w)
                BY <1>2, <1>5, <4>1, Zenon DEF Follows
            <4>3. QED
                BY <4>2, LeadsOn DEF N
        <3>2. QED
            BY <1>5, <2>3, <3>1 DEF N
    <2> HIDE DEF i
    <2>7. g[N - c][i] = GivesAt(g, N - c, i)
        BY <1>5, <2>3, <2>4, Zenon DEF AreMeanings, N
    <2>8. /\ L[i].name = names[i].name /\ L[i].text = names[i].text /\ L[i].from = names[i].from
          /\ Loaded(L, asLoaded, i) <=> Loaded(names, asLoaded, i)
          /\ TargetOf(L, asLoaded, i) = TargetOf(names, asLoaded, i)
          /\ External(L, L[i].text) = External(names, L[i].text)
        BY <2>4, ReadsIs
    <2>9. BoundAt(L, asLoaded, i)
        BY <2>4, Zenon DEF Reads, BoundRight
    <2>10. v = IF L[i].text = Data THEN <<L[i].from, L[i].name>>
               ELSE IF L[i].bound # Extern THEN <<"nodata">>
               ELSE IF External(L, L[i].text) = 0 THEN <<"missing">> ELSE <<"program", L[i].text>>
        BY <1>3, <1>7 DEF i
    <2>11. CASE L[i].text = Data
        <3>1. GivesAt(g, N - c, i) = <<names[i].from, names[i].name>>
            BY <2>8, <2>11, Zenon DEF GivesAt
        <3>2. QED
            BY <2>6, <2>7, <2>8, <2>10, <2>11, <3>1, Zenon DEF v
    <2>12. CASE L[i].text # Data /\ L[i].bound = Unbound
        <3>1. v = <<"nodata">>
            BY <2>10, <2>12 DEF Unbound, Extern
        <3>2. Unresolved(L)
            BY <2>4, <2>12, LinkIs, Zenon DEF Unresolved, Reads
        <3>3. QED
            BY <1>4, <3>1, <3>2 DEF v
    <2>13. CASE L[i].text # Data /\ L[i].bound # Unbound
        <3>1. L[i].bound = Extern /\ Loaded(L, asLoaded, i) /\ TargetOf(L, asLoaded, i) = 0
            BY <2>5, <2>9, <2>13, Zenon DEF BoundAt
        <3>2. GivesAt(g, N - c, i) = IF External(L, L[i].text) = 0 THEN <<"missing">>
                                     ELSE <<"program", L[i].text>>
            BY <2>8, <2>13, <3>1, Zenon DEF GivesAt
        <3>3. QED
            BY <2>6, <2>7, <2>10, <2>13, <3>1, <3>2, Zenon DEF v
    <2>14. QED
        BY <2>11, <2>12, <2>13, Zenon
<1>8. QED
    BY <1>6, <1>7, Zenon

-----------------------------------------------------------------------------
(***************************************************************************)
(* What every state of the board keeps.                                    *)
(***************************************************************************)
Roots == {"no", "resolved", "stuck", "compiled"}

(* A board with a specification, loaded or parsed again, compiled so far.  *)
IsGood(b, s, loaded, r) ==
    /\ IsBoard(b)
    /\ s \in Specs \cup {NoSpec} /\ (s = NoSpec => NoSpecIn(b.names))
    /\ loaded \in BOOLEAN /\ r \in Roots
    /\ BoundRight(b.names, loaded) /\ FreeIfNew(b.names, loaded, r)

BoardIsGood == IsGood(List, used, asLoaded, root)

LEMMA ListIs ==
    ASSUME BoardIsGood
    PROVE  /\ List.names = names /\ List.iter = iter /\ IsBoard(List)
           /\ names \in Seq(EntryRecord) /\ IsList(names) /\ InTurn(names, iter)
           /\ used \in Specs \cup {NoSpec} /\ (used = NoSpec => NoSpecIn(names))
           /\ asLoaded \in BOOLEAN /\ root \in Roots
           /\ BoundRight(names, asLoaded) /\ FreeIfNew(names, asLoaded, root)
           /\ DataFree(names) /\ Reads(names)
<1>1. List.names = names /\ List.iter = iter
    BY DEF List
<1>2. IsGood(List, used, asLoaded, root)
    BY Zenon DEF BoardIsGood
<1>3. /\ IsBoard(List) /\ IsList(names) /\ InTurn(names, iter)
      /\ used \in Specs \cup {NoSpec} /\ (used = NoSpec => NoSpecIn(names))
      /\ asLoaded \in BOOLEAN /\ root \in Roots
      /\ BoundRight(names, asLoaded) /\ FreeIfNew(names, asLoaded, root)
    BY <1>1, <1>2, Zenon DEF IsGood, IsBoard
<1>4. names \in Seq(EntryRecord)
    BY <1>3, Zenon DEF IsList
<1>5. DataFree(names)
    BY <1>3, DataIsFree
<1>6. Reads(names)
    BY <1>3, <1>4, Zenon DEF Reads, SameTexts
<1>7. QED
    BY <1>1, <1>3, <1>4, <1>5, <1>6, Zenon

LEMMA BecomesIs ==
    ASSUME NEW b, IsBoard(b), names' = b.names, iter' = b.iter,
           IsGood(b, used', asLoaded', root')
    PROVE  BoardIsGood'
<1>1. b = [names |-> b.names, iter |-> b.iter]
    BY Zenon DEF IsBoard
<1>2. List' = b
    BY <1>1 DEF List
<1>3. QED
    BY <1>2, Zenon DEF BoardIsGood

LEMMA RefreshedIsGood ==
    ASSUME NEW b, IsBoard(b), DataFree(b.names), NEW s \in Specs \cup {NoSpec},
           s = NoSpec => NoSpecIn(b.names)
    PROVE  /\ \A r \in Roots : IsGood(Refreshed(b, s), s, FALSE, r)
           /\ AllFree(Refreshed(b, s).names)
           /\ OwnOf(Refreshed(b, s).names) = OwnOf(b.names)
<1>1. /\ IsBoard(Refreshed(b, s)) /\ AllFree(Refreshed(b, s).names)
      /\ OwnOf(Refreshed(b, s).names) = OwnOf(b.names)
      /\ s = NoSpec => NoSpecIn(Refreshed(b, s).names)
    BY RefreshedIs
<1>2. BoundRight(Refreshed(b, s).names, FALSE) /\ \A r : FreeIfNew(Refreshed(b, s).names, FALSE, r)
    BY <1>1, FreeIsRight
<1>3. FALSE \in BOOLEAN
    OBVIOUS
<1>4. QED
    BY <1>1, <1>2, <1>3, Zenon DEF IsGood

(* A name that the client or the program adds, once the list is parsed.    *)
LEMMA AddedIsGood ==
    ASSUME NEW b, NEW s, IsGood(b, s, FALSE, "no"), AllFree(b.names),
           NEW e \in EntryRecord, e.from = "program" => e.text = Data, e.from # "spec",
           e.met = "new", e.bound = Unbound
    PROVE  /\ IsGood(Linked(b, e), s, FALSE, "no")
           /\ OwnOf(Linked(b, e).names) = Append(OwnOf(b.names), Own(e))
<1> DEFINE L == b.names
           M == Append(L, e)
<1>1. IsBoard(b) /\ s \in Specs \cup {NoSpec} /\ (s = NoSpec => NoSpecIn(L)) /\ "no" \in Roots
    BY Zenon DEF IsGood
<1>2. L \in Seq(EntryRecord)
    BY <1>1, Zenon DEF IsBoard, IsList
<1>3. IsBoard(Linked(b, e)) /\ Linked(b, e).names = M
    BY <1>1, LinkedIs
<1> HIDE DEF L
<1>4. \A i \in DOMAIN M : (i \in DOMAIN L /\ M[i] = L[i]) \/ M[i] = e
    BY <1>2
<1>5. OwnOf(M) = Append(OwnOf(L), Own(e))
    BY <1>2, OwnAdded
<1> HIDE DEF M
<1>6. AllFree(M) /\ (s = NoSpec => NoSpecIn(M))
    BY <1>1, <1>4, Zenon DEF AllFree, NoSpecIn, L
<1>7. BoundRight(M, FALSE) /\ FreeIfNew(M, FALSE, "no")
    BY <1>6, FreeIsRight
<1>8. FALSE \in BOOLEAN
    OBVIOUS
<1>9. QED
    BY <1>1, <1>3, <1>5, <1>6, <1>7, <1>8, Zenon DEF IsGood, L

(* The board without some of its names.                                    *)
LEMMA WithoutIs ==
    ASSUME NEW b, IsBoard(b), DataFree(b.names), NEW S
    PROVE  LET M == Unlinked(b, S).names IN
           /\ IsBoard(Unlinked(b, S)) /\ M \in Seq(EntryRecord)
           /\ KeptTexts(b.names, S, M) /\ DataFree(M)
           /\ \A k \in DOMAIN M : \E i \in DOMAIN b.names : i \notin S /\ M[k].from = b.names[i].from
<1> DEFINE M == Unlinked(b, S).names
           L == b.names
           K == Kept(L, S)
<1>1. /\ IsBoard(Unlinked(b, S)) /\ DOMAIN M = 1 .. Cardinality(K)
      /\ \A k \in DOMAIN M :
            /\ M[k].name = L[Place(K, k)].name /\ M[k].text = L[Place(K, k)].text
            /\ M[k].from = L[Place(K, k)].from
            /\ L[Place(K, k)].bound = Unbound => M[k].bound = Unbound
    BY UnlinkedIs
<1>2. L \in Seq(EntryRecord) /\ M \in Seq(EntryRecord)
    BY <1>1, Zenon DEF IsBoard, IsList
<1>3. KeptTexts(L, S, M)
    BY <1>1, Zenon DEF KeptTexts
<1> HIDE DEF L, M
<1>4. \A k \in DOMAIN M : Place(K, k) \in K
    BY <1>1, <1>2, KeptIs
<1>5. \A k \in DOMAIN M : Place(K, k) \in DOMAIN L /\ Place(K, k) \notin S
    BY <1>4, Zenon DEF Kept
<1>6. DataFree(M)
    BY <1>1, <1>5, Zenon DEF DataFree, L
<1>7. \A k \in DOMAIN M : \E i \in DOMAIN L : i \notin S /\ M[k].from = L[i].from
    BY <1>1, <1>5, Zenon
<1>8. QED
    BY <1>1, <1>2, <1>3, <1>6, <1>7, Zenon DEF L, M

(* A name of the list stays the first of it, whatever comes after.         *)
LEMMA NamedJoined ==
    ASSUME NEW L \in Seq(EntryRecord), NEW M \in Seq(EntryRecord), NEW t, Named(L, t) # 0
    PROVE  Named(L \o M, t) = Named(L, t)
<1> DEFINE R == L \o M
           I == {i \in 1 .. Len(L) : L[i].name = t}
           J == {i \in 1 .. Len(R) : R[i].name = t}
<1>1. /\ R \in Seq(EntryRecord) /\ Len(R) = Len(L) + Len(M)
      /\ \A i \in DOMAIN L : i \in DOMAIN R /\ R[i] = L[i]
      /\ \A i \in DOMAIN R : (i \in DOMAIN L /\ R[i] = L[i]) \/ i > Len(L)
    BY Joined
<1>2. DOMAIN L = 1 .. Len(L) /\ DOMAIN R = 1 .. Len(R) /\ Len(L) \in Nat /\ Len(R) \in Nat
    BY <1>1
<1>3. Named(L, t) = First(I) /\ Named(R, t) = First(J)
    BY <1>1, NamedType
<1> HIDE DEF R
<1>4. I \subseteq Nat \ {0} /\ J \subseteq Nat \ {0}
    BY <1>2
<1>5. I \subseteq J
    BY <1>1, <1>2
<1>6. ASSUME NEW j \in J \ I, NEW i \in I PROVE i < j
    <2>1. j \in DOMAIN R /\ R[j].name = t /\ i \in 1 .. Len(L)
        BY <1>2
    <2>2. j > Len(L)
        BY <1>1, <1>2, <2>1
    <2>3. QED
        BY <1>2, <2>1, <2>2
<1> HIDE DEF I, J
<1>7. I # {}
    BY <1>3, <1>4, FirstIs
<1>8. First(J) = First(I)
    BY <1>4, <1>5, <1>6, <1>7, FirstStays
<1>9. QED
    BY <1>3, <1>8 DEF R

(* The names of a specification are looked for among themselves.           *)
Copies(M, defs) ==
    /\ Len(M) = Len(defs)
    /\ \A k \in DOMAIN M : M[k].from = "spec" /\ M[k].name = defs[k].name

LEMMA SpecNamedJoined ==
    ASSUME NEW L \in Seq(EntryRecord), NEW M \in Seq(EntryRecord), NoSpecIn(L),
           NEW defs \in Seq(DefRecord), Copies(M, defs), NEW t
    PROVE  SpecNamed(L \o M, t) = IF Named(defs, t) = 0 THEN 0 ELSE Len(L) + Named(defs, t)
<1> DEFINE R == L \o M
           n == Len(L)
           I == {i \in 1 .. Len(defs) : defs[i].name = t}
           J == {i \in 1 .. Len(R) : R[i].from = "spec" /\ R[i].name = t}
<1>1. /\ R \in Seq(EntryRecord) /\ Len(R) = n + Len(M)
      /\ \A i \in DOMAIN L : i \in DOMAIN R /\ R[i] = L[i]
      /\ \A i \in DOMAIN M : n + i \in DOMAIN R /\ R[n + i] = M[i]
      /\ \A i \in DOMAIN R :
            \/ i \in DOMAIN L /\ R[i] = L[i]
            \/ i - n \in DOMAIN M /\ i > n /\ R[i] = M[i - n]
    <2>1. /\ L \o M \in Seq(EntryRecord) /\ Len(L \o M) = Len(L) + Len(M)
          /\ \A i \in DOMAIN L : i \in DOMAIN (L \o M) /\ (L \o M)[i] = L[i]
          /\ \A i \in DOMAIN M : Len(L) + i \in DOMAIN (L \o M) /\ (L \o M)[Len(L) + i] = M[i]
          /\ \A i \in DOMAIN (L \o M) :
                \/ i \in DOMAIN L /\ (L \o M)[i] = L[i]
                \/ i - Len(L) \in DOMAIN M /\ i > Len(L) /\ (L \o M)[i] = M[i - Len(L)]
        BY Joined
    <2>2. QED
        BY <2>1, Zenon
<1>10. Len(M) = Len(defs) /\ \A k \in DOMAIN M : M[k].from = "spec" /\ M[k].name = defs[k].name
    BY Zenon DEF Copies
<1>2. /\ DOMAIN L = 1 .. n /\ DOMAIN R = 1 .. Len(R) /\ DOMAIN M = 1 .. Len(M)
      /\ n \in Nat /\ Len(R) \in Nat /\ Len(M) \in Nat
    BY <1>1
<1>9. Named(defs, t) = First(I)
    BY NamedType
<1>3. Named(defs, t) = First(I) /\ SpecNamed(R, t) = First(J)
    <2> HIDE DEF R
    <2>1. SpecNamed(R, t) = First(J)
        BY <1>1, SpecNamedType
    <2>2. QED
        BY <1>9, <2>1, Zenon
<1> HIDE DEF R, n
<1>4. I \subseteq Nat \ {0} /\ J \subseteq Nat \ {0}
    BY <1>2
<1>5. \A j : j \in J <=> j - n \in I /\ j \in Int
    <2>1. ASSUME NEW j \in J PROVE j - n \in I /\ j \in Int
        <3>1. j \in DOMAIN R /\ R[j].from = "spec" /\ R[j].name = t /\ j \in Int
            BY <1>2
        <3>2. j - n \in DOMAIN M /\ R[j] = M[j - n]
            BY <1>1, <3>1 DEF NoSpecIn
        <3>3. QED
            BY <1>2, <1>10, <3>1, <3>2
    <2>2. ASSUME NEW j, j - n \in I, j \in Int PROVE j \in J
        <3> DEFINE k == j - n
        <3>1. k \in DOMAIN M /\ defs[k].name = t
            BY <1>2, <1>10, <2>2
        <3>2. n + k \in DOMAIN R /\ R[n + k] = M[k] /\ M[k].from = "spec" /\ M[k].name = t
            BY <1>1, <1>10, <3>1
        <3>3. n + k = j
            BY <1>2, <2>2
        <3>4. QED
            BY <1>2, <3>2, <3>3
    <2>3. QED
        BY <2>1, <2>2
<1> HIDE DEF I, J
<1>6. CASE J = {}
    <2>1. I = {}
        <3> SUFFICES ASSUME NEW i \in I PROVE FALSE
            OBVIOUS
        <3>1. i \in Int /\ (n + i) - n = i /\ n + i \in Int
            BY <1>2, <1>4
        <3>2. n + i \in J
            BY <1>5, <3>1
        <3>3. QED
            BY <1>6, <3>2
    <2>2. First(I) = 0 /\ First(J) = 0
        BY <1>4, <1>6, <2>1, FirstIs
    <2>3. QED
        BY <1>3, <2>2 DEF R
<1>7. CASE J # {}
    <2>1. First(J) = n + First(I) /\ I # {}
        BY <1>2, <1>4, <1>5, <1>7, FirstMoves
    <2>2. First(I) # 0
        BY <1>4, <2>1, FirstIs
    <2>3. QED
        BY <1>3, <2>1, <2>2 DEF R, n
<1>8. QED
    BY <1>6, <1>7

(* A specification that is used after a board without one.                 *)
LEMMA UsedIsGood ==
    ASSUME NEW b, IsBoard(b), NoSpecIn(b.names), NEW r \in Roots, NEW s \in Specs,
           BoundRight(b.names, FALSE), FreeIfNew(b.names, FALSE, r)
    PROVE  /\ IsGood(Imported(b, s, TRUE), s, TRUE, r)
           /\ OwnOf(Imported(b, s, TRUE).names) = OwnOf(b.names)
<1> DEFINE L == b.names
           n == Len(L)
           I == Imports(n, s, TRUE)
           R == L \o I
<1>1. s \in Seq(SpecRecord) /\ s # NoSpec /\ TRUE \in BOOLEAN /\ s \in Specs \cup {NoSpec}
    BY SpecIs, BoardAssumption, Zenon
<1>2. IsBoard(Imported(b, s, TRUE)) /\ Imported(b, s, TRUE).names = R
    BY <1>1, ImportedIs
<1>3. L \in Seq(EntryRecord) /\ n \in Nat
    BY DEF IsBoard, IsList
<1>4. Defs(s) \in Seq(DefRecord)
    BY <1>1, DefsAre
<1>5. /\ I \in Seq(EntryRecord) /\ Len(I) = Len(Defs(s))
      /\ \A k \in DOMAIN I :
            /\ I[k].from = "spec" /\ I[k].name = Defs(s)[k].name
            /\ I[k].bound = IF TRUE /\ I[k].text \in Name THEN TargetAt(n, Defs(s), I[k].text)
                            ELSE Unbound
    BY <1>1, <1>3, ImportsAre
<1> HIDE DEF I, L, n
<1>6. OwnOf(R) = OwnOf(L)
    BY <1>3, <1>5, OwnJoined
<1>7. /\ R \in Seq(EntryRecord)
      /\ \A i \in DOMAIN R : \/ i \in DOMAIN L /\ R[i] = L[i]
                             \/ i - n \in DOMAIN I /\ R[i] = I[i - n]
    BY <1>3, <1>5, Joined DEF n
<1>8. ASSUME NEW i \in DOMAIN R, i \in DOMAIN L, R[i] = L[i] PROVE BoundAt(R, TRUE, i)
    <2>1. BoundAt(L, FALSE, i) /\ ~Loaded(R, TRUE, i) /\ ~Loaded(L, FALSE, i)
        BY <1>8, Zenon DEF BoundRight, L, NoSpecIn, Loaded
    <2>2. CASE L[i].bound > 0 /\ L[i].text # Data
        <3>1. L[i].bound = Named(L, L[i].text)
            <4>1. TargetOf(L, FALSE, i) = Named(L, L[i].text)
                BY <2>1, Zenon DEF TargetOf
            <4>2. L[i].bound # Unbound
                BY <2>2 DEF Unbound
            <4>3. QED
                BY <2>1, <2>2, <4>1, <4>2, Zenon DEF BoundAt
        <3>2. Named(L, L[i].text) # 0
            BY <2>2, <3>1
        <3>3. Named(R, L[i].text) = Named(L, L[i].text)
            BY <1>3, <1>5, <3>2, NamedJoined
        <3>4. R[i].bound > 0 /\ R[i].bound = TargetOf(R, TRUE, i) /\ R[i].text # Data
            BY <1>8, <2>1, <2>2, <3>1, <3>3, Zenon DEF TargetOf
        <3>5. QED
            BY <3>4, Zenon DEF BoundAt
    <2>3. CASE ~(L[i].bound > 0 /\ L[i].text # Data)
        BY <1>8, <2>1, <2>3, Zenon DEF BoundAt
    <2>4. QED
        BY <2>2, <2>3
<1>9. ASSUME NEW i \in DOMAIN R, i - n \in DOMAIN I, R[i] = I[i - n] PROVE BoundAt(R, TRUE, i)
    <2> DEFINE x == I[i - n]
               N == Named(Defs(s), x.text)
    <2>1. x.from = "spec"
          /\ x.bound = IF TRUE /\ x.text \in Name THEN TargetAt(n, Defs(s), x.text) ELSE Unbound
        BY <1>5, <1>9
    <2>2. IsLink(x) <=> x.text # Data
        BY <1>5, <1>9, LinkIs
    <2>3. SpecNamed(R, x.text) = IF N = 0 THEN 0 ELSE n + N
        <3>1. NoSpecIn(L) /\ Copies(I, Defs(s))
            BY <1>5, Zenon DEF L, Copies
        <3> HIDE DEF x, N
        <3>2. SpecNamed(L \o I, x.text) = IF Named(Defs(s), x.text) = 0 THEN 0
                                          ELSE Len(L) + Named(Defs(s), x.text)
            BY <1>3, <1>4, <1>5, <3>1, SpecNamedJoined
        <3>3. QED
            BY <3>2 DEF n, N
    <2> HIDE DEF x, R
    <2>4. N \in Nat
        <3>1. \A t : Named(Defs(s), t) \in 0 .. Len(Defs(s))
            BY <1>4, NamedType
        <3>2. QED
            BY <3>1
    <2>5. R[i] = x
        BY <1>9 DEF x
    <2>6. Loaded(R, TRUE, i) /\ TargetOf(R, TRUE, i) = SpecNamed(R, x.text)
        BY <2>1, <2>5 DEF Loaded, TargetOf
    <2> HIDE DEF N
    <2>7. CASE x.text = Data
        BY <2>1, <2>2, <2>5, <2>7, Zenon DEF BoundAt, IsLink
    <2>8. CASE x.text # Data
        <3>1. x.bound = IF N = 0 THEN Extern ELSE n + N
            BY <2>1, <2>2, <2>8, Zenon DEF IsLink, TargetAt, N
        <3>2. CASE N = 0
            BY <2>3, <2>5, <2>6, <2>8, <3>1, <3>2, Zenon DEF BoundAt
        <3>3. CASE N # 0
            <4>1. n + N > 0
                BY <1>3, <2>4, <3>3
            <4>2. QED
                BY <2>3, <2>5, <2>6, <2>8, <3>1, <3>3, <4>1, Zenon DEF BoundAt
        <3>4. QED
            BY <3>2, <3>3
    <2>9. QED
        BY <2>7, <2>8
<1> HIDE DEF R
<1>10. BoundRight(R, TRUE)
    BY <1>7, <1>8, <1>9, Zenon DEF BoundRight
<1>11. FreeIfNew(R, TRUE, r)
    <2> SUFFICES ASSUME r = "no", NEW i \in DOMAIN R, ~Loaded(R, TRUE, i)
                 PROVE  R[i].bound = Unbound
        BY Zenon DEF FreeIfNew
    <2>1. R[i].from # "spec"
        BY Zenon DEF Loaded
    <2>2. i \in DOMAIN L /\ R[i] = L[i]
        BY <1>5, <1>7, <2>1, Zenon
    <2>3. QED
        BY <2>2, Zenon DEF FreeIfNew, Loaded, L
<1>12. QED
    BY <1>1, <1>2, <1>6, <1>10, <1>11, Zenon DEF IsGood, L

(* The board without its specification.                                    *)
LEMMA ForgottenIs ==
    ASSUME BoardIsGood
    PROVE  /\ IsBoard(Forgotten) /\ NoSpecIn(Forgotten.names)
           /\ BoundRight(Forgotten.names, FALSE)
           /\ FreeIfNew(Forgotten.names, FALSE, IF used = NoSpec THEN root ELSE "no")
           /\ OwnOf(Forgotten.names) = OwnOf(names)
           /\ used # NoSpec => AllFree(Forgotten.names)
<1>1. /\ List.names = names /\ IsBoard(List) /\ names \in Seq(EntryRecord)
      /\ used = NoSpec => NoSpecIn(names)
      /\ BoundRight(names, asLoaded) /\ FreeIfNew(names, asLoaded, root) /\ DataFree(names)
    BY ListIs
<1>2. CASE used = NoSpec
    <2>1. Forgotten = List
        BY <1>2 DEF Forgotten
    <2>2. \A i \in DOMAIN names : ~Loaded(names, asLoaded, i) /\ ~Loaded(names, FALSE, i)
        BY <1>1, <1>2, Zenon DEF NoSpecIn, Loaded
    <2>3. BoundRight(names, FALSE)
        BY <1>1, <2>2, Zenon DEF BoundRight, BoundAt, TargetOf
    <2>4. FreeIfNew(names, FALSE, root)
        BY <1>1, <2>2, Zenon DEF FreeIfNew
    <2>5. QED
        BY <1>1, <1>2, <2>1, <2>3, <2>4
<1>3. CASE used # NoSpec
    <2> DEFINE S == OfSpec(names)
               u == Unlinked(List, S)
               M == u.names
    <2>1. Forgotten = Refreshed(u, NoSpec)
        BY <1>3 DEF Forgotten
    <2>2. /\ IsBoard(u) /\ M \in Seq(EntryRecord) /\ KeptTexts(names, S, M) /\ DataFree(M)
          /\ \A k \in DOMAIN M : \E i \in DOMAIN names : i \notin S /\ M[k].from = names[i].from
        BY <1>1, WithoutIs
    <2>3. \A i \in DOMAIN names : i \in S <=> names[i].from = "spec"
        <3>1. DOMAIN names = 1 .. Len(names)
            BY <1>1
        <3>2. QED
            BY <3>1, Zenon DEF OfSpec, Of
    <2> HIDE DEF S, u
    <2>4. NoSpecIn(M)
        BY <2>2, <2>3, Zenon DEF NoSpecIn
    <2>5. OwnOf(M) = OwnOf(names)
        BY <1>1, <2>2, <2>3, OwnKept
    <2>6. /\ IsBoard(Refreshed(u, NoSpec)) /\ AllFree(Refreshed(u, NoSpec).names)
          /\ OwnOf(Refreshed(u, NoSpec).names) = OwnOf(M)
          /\ NoSpecIn(Refreshed(u, NoSpec).names)
        BY <2>2, <2>4, RefreshedIs
    <2>7. BoundRight(Forgotten.names, FALSE) /\ FreeIfNew(Forgotten.names, FALSE, "no")
        BY <2>1, <2>6, FreeIsRight
    <2>8. QED
        BY <1>3, <2>1, <2>5, <2>6, <2>7
<1>4. QED
    BY <1>2, <1>3

-----------------------------------------------------------------------------
(***************************************************************************)
(* The calls.                                                              *)
(***************************************************************************)
LEMMA AddStep ==
    ASSUME BoardIsGood, NEW n \in Name, NEW t \in Name \cup {Data},
           NEW from \in {"client", "program"}, Add(n, t, from)
    PROVE  /\ BoardIsGood' /\ used' = used /\ answer' = NoAnswer
           /\ OwnOf(names') = Append(OwnOf(names), Own(Entry(n, t, from)))
<1> DEFINE b == Refreshed(List, used)
           e == Entry(n, t, from)
<1>1. /\ from = "program" => t = Data
      /\ names' = Linked(b, e).names /\ iter' = Linked(b, e).iter
      /\ root' = "no" /\ asLoaded' = FALSE /\ answer' = NoAnswer /\ used' = used
    BY DEF Add, Becomes
<1>2. /\ List.names = names /\ IsBoard(List) /\ DataFree(names) /\ used \in Specs \cup {NoSpec}
      /\ used = NoSpec => NoSpecIn(names)
    BY ListIs
<1>3. /\ \A r \in Roots : IsGood(b, used, FALSE, r)
      /\ AllFree(b.names) /\ OwnOf(b.names) = OwnOf(names)
    BY <1>2, RefreshedIsGood
<1>4. "no" \in Roots
    BY DEF Roots
<1>5. /\ e \in EntryRecord /\ e.from = from /\ e.text = t /\ e.met = "new" /\ e.bound = Unbound
    BY EntryIs
<1> HIDE DEF b, e
<1>6. e.from # "spec" /\ (e.from = "program" => e.text = Data)
    BY <1>1, <1>5
<1>7. IsGood(b, used, FALSE, "no")
    BY <1>3, <1>4
<1>8. /\ IsGood(Linked(b, e), used, FALSE, "no")
      /\ OwnOf(Linked(b, e).names) = Append(OwnOf(b.names), Own(e))
    BY <1>3, <1>5, <1>6, <1>7, AddedIsGood
<1>9. IsBoard(Linked(b, e))
    BY <1>8, Zenon DEF IsGood
<1>10. BoardIsGood'
    BY <1>1, <1>8, <1>9, BecomesIs
<1>11. QED
    BY <1>1, <1>3, <1>8, <1>10 DEF e

LEMMA RefreshStep ==
    ASSUME NEW b, IsBoard(b), DataFree(b.names), used' \in Specs \cup {NoSpec},
           used' = NoSpec => NoSpecIn(b.names), Refresh(b, used')
    PROVE  BoardIsGood' /\ OwnOf(names') = OwnOf(b.names)
<1> DEFINE c == Refreshed(b, used')
<1>1. names' = c.names /\ iter' = c.iter /\ root' = "no" /\ asLoaded' = FALSE
    BY DEF Refresh, Becomes
<1>2. (\A r \in Roots : IsGood(c, used', FALSE, r)) /\ OwnOf(c.names) = OwnOf(b.names)
    BY RefreshedIsGood
<1>3. "no" \in Roots
    BY DEF Roots
<1> HIDE DEF c
<1>4. IsGood(c, used', FALSE, "no") /\ IsBoard(c)
    BY <1>2, <1>3, Zenon DEF IsGood
<1>5. BoardIsGood'
    BY <1>1, <1>4, BecomesIs
<1>6. QED
    BY <1>1, <1>2, <1>5

LEMMA RemoveStep ==
    ASSUME BoardIsGood, NEW n \in Name, RemoveName(n)
    PROVE  /\ BoardIsGood' /\ used' = used /\ answer' = NoAnswer
           /\ OwnOf(names') = Sublist(OwnOf(names), {j \in DOMAIN OwnOf(names) : OwnOf(names)[j].name # n})
<1> DEFINE S == {i \in DOMAIN names : names[i].name = n}
           u == Unlinked(List, S)
<1>1. Refresh(u, used) /\ answer' = NoAnswer /\ used' = used
    BY DEF RemoveName
<1>2. /\ List.names = names /\ IsBoard(List) /\ DataFree(names) /\ used \in Specs \cup {NoSpec}
      /\ used = NoSpec => NoSpecIn(names)
      /\ names \in Seq(EntryRecord)
    BY ListIs
<1>3. Bears(names, S, n)
    BY DEF Bears
<1>4. /\ IsBoard(u) /\ u.names \in Seq(EntryRecord) /\ KeptTexts(names, S, u.names) /\ DataFree(u.names)
      /\ \A k \in DOMAIN u.names :
            \E i \in DOMAIN names : i \notin S /\ u.names[k].from = names[i].from
    <2> HIDE DEF S
    <2> DEFINE b == List
               M == Unlinked(b, S).names
    <2>1. IsBoard(b) /\ DataFree(b.names) /\ b.names = names
        BY <1>2, Zenon
    <2> HIDE DEF b
    <2>2. /\ IsBoard(Unlinked(b, S)) /\ M \in Seq(EntryRecord)
          /\ KeptTexts(b.names, S, M) /\ DataFree(M)
          /\ \A k \in DOMAIN M : \E i \in DOMAIN b.names : i \notin S /\ M[k].from = b.names[i].from
        BY <2>1, WithoutIs
    <2> DEFINE v == Unlinked(b, S)
    <2>3. v = u
        BY DEF b
    <2> HIDE DEF v, u
    <2>4. /\ IsBoard(v) /\ v.names \in Seq(EntryRecord)
          /\ KeptTexts(names, S, v.names) /\ DataFree(v.names)
          /\ \A k \in DOMAIN v.names : \E i \in DOMAIN names : i \notin S /\ v.names[k].from = names[i].from
        BY <2>1, <2>2, Zenon DEF v
    <2>5. QED
        BY <2>3, <2>4, Zenon
<1> HIDE DEF S, u
<1>5. used = NoSpec => NoSpecIn(u.names)
    BY <1>2, <1>4, Zenon DEF NoSpecIn
<1>6. BoardIsGood' /\ OwnOf(names') = OwnOf(u.names)
    BY <1>1, <1>2, <1>4, <1>5, RefreshStep
<1>7. OwnOf(u.names) = Sublist(OwnOf(names), {j \in DOMAIN OwnOf(names) : OwnOf(names)[j].name # n})
    <2> DEFINE M == u.names
    <2>1. M \in Seq(EntryRecord) /\ KeptTexts(names, S, M)
        BY <1>4
    <2> HIDE DEF M
    <2>2. OwnOf(M) = Sublist(OwnOf(names), {j \in DOMAIN OwnOf(names) : OwnOf(names)[j].name # n})
        BY <1>2, <1>3, <2>1, OwnTaken
    <2>3. QED
        BY <2>2 DEF M
<1>8. QED
    BY <1>1, <1>6, <1>7

LEMMA ForgetStep ==
    ASSUME BoardIsGood, ForgetSpec
    PROVE  /\ BoardIsGood' /\ used' = NoSpec /\ answer' = NoAnswer
           /\ OwnOf(names') = OwnOf(names)
<1>1. /\ used # NoSpec /\ names' = Forgotten.names /\ iter' = Forgotten.iter /\ root' = "no"
      /\ used' = NoSpec /\ asLoaded' = FALSE /\ answer' = NoAnswer
    BY DEF ForgetSpec, Becomes
<1>2. /\ IsBoard(Forgotten) /\ NoSpecIn(Forgotten.names) /\ BoundRight(Forgotten.names, FALSE)
      /\ OwnOf(Forgotten.names) = OwnOf(names)
      /\ FreeIfNew(Forgotten.names, FALSE, "no")
    BY <1>1, ForgottenIs
<1>3. "no" \in Roots /\ FALSE \in BOOLEAN /\ NoSpec \in Specs \cup {NoSpec}
    BY DEF Roots
<1>4. IsGood(Forgotten, NoSpec, FALSE, "no")
    BY <1>2, <1>3, Zenon DEF IsGood
<1>5. BoardIsGood'
    BY <1>1, <1>2, <1>4, BecomesIs
<1>6. QED
    BY <1>1, <1>2, <1>5

LEMMA UseStep ==
    ASSUME BoardIsGood, NEW s \in Specs, UseSpec(s)
    PROVE  /\ BoardIsGood' /\ used' = s /\ answer' = NoAnswer
           /\ OwnOf(names') = OwnOf(names)
<1> DEFINE r == IF used = NoSpec THEN root ELSE "no"
           b == Imported(Forgotten, s, TRUE)
<1>1. /\ names' = b.names /\ iter' = b.iter /\ root' = r
      /\ used' = s /\ asLoaded' = TRUE /\ answer' = NoAnswer
    BY DEF UseSpec, Becomes
<1>2. r \in Roots
    <2>1. root \in Roots /\ "no" \in Roots
        BY ListIs, Zenon DEF Roots
    <2>2. QED
        BY <2>1
<1>3. /\ IsBoard(Forgotten) /\ NoSpecIn(Forgotten.names) /\ BoundRight(Forgotten.names, FALSE)
      /\ OwnOf(Forgotten.names) = OwnOf(names)
      /\ FreeIfNew(Forgotten.names, FALSE, r)
    BY ForgottenIs
<1> HIDE DEF r
<1>4. IsGood(b, s, TRUE, r) /\ OwnOf(b.names) = OwnOf(Forgotten.names)
    BY <1>2, <1>3, UsedIsGood
<1> HIDE DEF b
<1>5. IsBoard(b)
    BY <1>4, Zenon DEF IsGood
<1>6. BoardIsGood'
    BY <1>1, <1>4, <1>5, BecomesIs
<1>7. QED
    BY <1>1, <1>3, <1>4, <1>6

(* The list as an evaluation leaves it, or parsed again after it.          *)
LEMMA ReadsGood ==
    ASSUME BoardIsGood, NEW L, Reads(L), Changed(names, L)
    PROVE  /\ IsBoard([List EXCEPT !.names = L])
           /\ [List EXCEPT !.names = L].names = L /\ [List EXCEPT !.names = L].iter = iter
           /\ OwnOf(L) = OwnOf(names) /\ DataFree(L) /\ (used = NoSpec => NoSpecIn(L))
<1>1. /\ List.names = names /\ List.iter = iter /\ IsBoard(List) /\ names \in Seq(EntryRecord)
      /\ used = NoSpec => NoSpecIn(names)
    BY ListIs
<1>2. IsBoard([List EXCEPT !.names = L]) /\ [List EXCEPT !.names = L] = [names |-> L, iter |-> iter]
    BY <1>1, ChangedBoard
<1>3. L \in Seq(EntryRecord) /\ SameTexts(names, L) /\ BoundRight(L, asLoaded)
    BY Zenon DEF Reads
<1>4. OwnOf(L) = OwnOf(names)
    BY <1>1, <1>3, TextsAreOwn
<1>5. DataFree(L)
    BY <1>3, DataIsFree
<1>6. used = NoSpec => NoSpecIn(L)
    BY <1>1, <1>3, Zenon DEF SameTexts, NoSpecIn
<1>7. QED
    BY <1>2, <1>4, <1>5, <1>6

LEMMA RefuseStep ==
    ASSUME BoardIsGood, NEW L, Reads(L), Changed(names, L), NEW n, Refuse(n, L), used' = used
    PROVE  /\ BoardIsGood' /\ answer' = [of |-> n, value |-> <<"refused">>]
           /\ OwnOf(names') = OwnOf(names)
<1> DEFINE b == [List EXCEPT !.names = L]
<1>1. answer' = [of |-> n, value |-> <<"refused">>] /\ Refresh(b, used)
    BY DEF Refuse
<1>2. IsBoard(b) /\ b.names = L /\ OwnOf(L) = OwnOf(names) /\ DataFree(L)
      /\ (used = NoSpec => NoSpecIn(L))
    BY ReadsGood
<1>3. used \in Specs \cup {NoSpec}
    BY ListIs
<1> HIDE DEF b
<1>4. BoardIsGood' /\ OwnOf(names') = OwnOf(b.names)
    BY <1>1, <1>2, <1>3, RefreshStep
<1>5. QED
    BY <1>1, <1>2, <1>4

(* The list as the compilation leaves it.                                  *)
LEMMA StaysStep ==
    ASSUME BoardIsGood, NEW L, Reads(L), Changed(names, L), names' = L, root' \in Roots, root' # "no",
           iter' = iter, asLoaded' = asLoaded, used' = used
    PROVE  BoardIsGood' /\ OwnOf(names') = OwnOf(names)
<1> DEFINE b == [List EXCEPT !.names = L]
<1>1. IsBoard(b) /\ b.names = L /\ b.iter = iter /\ OwnOf(L) = OwnOf(names)
      /\ (used = NoSpec => NoSpecIn(L))
    BY ReadsGood
<1>2. used \in Specs \cup {NoSpec} /\ asLoaded \in BOOLEAN
    BY ListIs
<1> HIDE DEF b
<1>3. IsGood(b, used', asLoaded', root')
    BY <1>1, <1>2, Zenon DEF IsGood, Reads, FreeIfNew
<1>4. BoardIsGood'
    BY <1>1, <1>3, BecomesIs
<1>5. QED
    BY <1>1, <1>4

(* The list with other names given or owed by an iteration.                *)
LEMMA TurnStep ==
    ASSUME BoardIsGood, NEW L \in Seq(EntryRecord), SameTexts(names, L),
           \A i \in DOMAIN names : L[i].bound = names[i].bound, InTurn(L, iter'),
           names' = L, used' = used, asLoaded' = asLoaded, root' = root
    PROVE  BoardIsGood' /\ OwnOf(names') = OwnOf(names)
<1> DEFINE b == [names |-> L, iter |-> iter']
<1>1. /\ names \in Seq(EntryRecord) /\ IsList(names)
      /\ used \in Specs \cup {NoSpec} /\ (used = NoSpec => NoSpecIn(names))
      /\ asLoaded \in BOOLEAN /\ root \in Roots
      /\ BoundRight(names, asLoaded) /\ FreeIfNew(names, asLoaded, root)
    BY ListIs
<1>2. DOMAIN L = DOMAIN names
      /\ \A i \in DOMAIN L : L[i].name = names[i].name /\ L[i].text = names[i].text
                             /\ L[i].from = names[i].from /\ L[i].bound = names[i].bound
    BY Zenon DEF SameTexts
<1>3. \A i \in DOMAIN names :
          /\ Loaded(L, asLoaded, i) <=> Loaded(names, asLoaded, i)
          /\ TargetOf(L, asLoaded, i) = TargetOf(names, asLoaded, i)
    BY <1>1, SameTargets
<1>4. OwnOf(L) = OwnOf(names)
    BY <1>1, TextsAreOwn
<1>5. IsList(L) /\ (used = NoSpec => NoSpecIn(L))
    BY <1>1, <1>2, Zenon DEF IsList, NoSpecIn
<1>6. BoundRight(L, asLoaded) /\ FreeIfNew(L, asLoaded, root)
    BY <1>1, <1>2, <1>3, Zenon DEF BoundRight, BoundAt, FreeIfNew
<1>7. b.names = L /\ b.iter = iter'
    OBVIOUS
<1>8. IsBoard(b)
    BY <1>5, <1>7, Zenon DEF IsBoard
<1> HIDE DEF b
<1>9. IsGood(b, used', asLoaded', root')
    BY <1>1, <1>5, <1>6, <1>7, <1>8, Zenon DEF IsGood
<1>10. BoardIsGood'
    BY <1>7, <1>8, <1>9, BecomesIs
<1>11. QED
    BY <1>4, <1>10

MetAs(e, m) == [e EXCEPT !.met = m]

LEMMA MetAsIs ==
    ASSUME NEW e \in EntryRecord, NEW m \in {"new", "owed", "given"}
    PROVE  /\ MetAs(e, m) \in EntryRecord /\ MetAs(e, m).met = m
           /\ MetAs(e, m).name = e.name /\ MetAs(e, m).text = e.text /\ MetAs(e, m).from = e.from
           /\ MetAs(e, m).bound = e.bound
<1>1. QED
    BY DEF EntryRecord, MetAs

LEMMA MarkedIs ==
    ASSUME names \in Seq(EntryRecord), NEW m \in {"new", "owed", "given"}
    PROVE  /\ Marked(m) \in Seq(EntryRecord) /\ SameTexts(names, Marked(m))
           /\ Len(Marked(m)) = Len(names)
           /\ \A i \in DOMAIN names : Marked(m)[i].bound = names[i].bound /\ Marked(m)[i].met = m
<1> DEFINE M == Marked(m)
<1>1. M = [i \in DOMAIN names |-> MetAs(names[i], m)]
    BY Zenon DEF Marked, MetAs
<1>2. \A i \in DOMAIN names : names[i] \in EntryRecord
    OBVIOUS
<1>3. DOMAIN names = 1 .. Len(names) /\ Len(names) \in Nat
    OBVIOUS
<1> HIDE DEF M
<1>4. DOMAIN M = DOMAIN names /\ \A i \in DOMAIN names : M[i] = MetAs(names[i], m)
    BY <1>1, Zenon
<1>5. \A i \in DOMAIN names :
          /\ M[i] \in EntryRecord /\ M[i].met = m
          /\ M[i].name = names[i].name /\ M[i].text = names[i].text /\ M[i].from = names[i].from
          /\ M[i].bound = names[i].bound
    BY <1>2, <1>4, MetAsIs
<1>6. M \in Seq(EntryRecord) /\ Len(M) = Len(names)
    <2>1. M = [i \in DOMAIN names |-> M[i]]
        BY <1>1, Zenon
    <2>2. M = [i \in 1 .. Len(names) |-> M[i]] /\ \A i \in 1 .. Len(names) : M[i] \in EntryRecord
        BY <1>3, <1>5, <2>1, Zenon
    <2>3. QED
        BY <1>3, <2>2, IsSequence
<1>7. QED
    BY <1>4, <1>5, <1>6, Zenon DEF SameTexts, M

LEMMA MarkedTurn ==
    ASSUME BoardIsGood, NEW m \in {"new", "owed", "given"},
           iter' \in [gone : BOOLEAN, at : Nat], iter'.at <= Len(names),
           m # "given", m = "owed" => iter'.at = 1,
           names' = Marked(m), used' = used, asLoaded' = asLoaded, root' = root
    PROVE  BoardIsGood' /\ OwnOf(names') = OwnOf(names)
<1> DEFINE M == Marked(m)
<1>1. names \in Seq(EntryRecord)
    BY ListIs
<1>2. /\ M \in Seq(EntryRecord) /\ SameTexts(names, M) /\ Len(M) = Len(names)
      /\ \A i \in DOMAIN names : M[i].bound = names[i].bound /\ M[i].met = m
    BY <1>1, MarkedIs
<1> HIDE DEF M
<1>3. DOMAIN M = DOMAIN names /\ \A i \in DOMAIN M : i \in Nat /\ 1 <= i
    BY <1>2 DEF SameTexts
<1>4. InTurn(M, iter')
    BY <1>2, <1>3 DEF InTurn, End
<1>5. names' = M
    BY DEF M
<1>6. QED
    BY <1>2, <1>4, <1>5, TurnStep

LEMMA IterateStep ==
    ASSUME BoardIsGood, Iterate
    PROVE  /\ BoardIsGood' /\ used' = used /\ answer' = NoAnswer
           /\ OwnOf(names') = OwnOf(names)
<1>1. /\ names # <<>> /\ iter = NoIterator /\ iter' = [iter EXCEPT !.at = 1]
      /\ names' = Marked("owed") /\ answer' = NoAnswer
      /\ used' = used /\ asLoaded' = asLoaded /\ root' = root
    BY DEF Iterate
<1>2. iter' = [gone |-> FALSE, at |-> 1]
    BY <1>1 DEF NoIterator
<1>3. iter' \in [gone : BOOLEAN, at : Nat] /\ iter'.at = 1
    BY <1>2
<1>4. names \in Seq(EntryRecord)
    BY ListIs
<1>5. iter'.at <= Len(names)
    BY <1>1, <1>3, <1>4
<1>6. BoardIsGood' /\ OwnOf(names') = OwnOf(names)
    <2>1. "owed" \in {"new", "owed", "given"} /\ "owed" # "given"
        OBVIOUS
    <2>2. QED
        BY <1>1, <1>3, <1>5, <2>1, MarkedTurn
<1>7. QED
    BY <1>1, <1>6

LEMMA GivesStep ==
    ASSUME BoardIsGood, NEW it, it \in [gone : BOOLEAN, at : Nat], it.at <= Len(names),
           NEW L \in Seq(EntryRecord), SameTexts(names, L),
           \A i \in DOMAIN names : L[i].bound = names[i].bound, InTurn(L, it),
           iter' = it, names' = IF it = NoIterator THEN Marked("new") ELSE L,
           used' = used, asLoaded' = asLoaded, root' = root
    PROVE  BoardIsGood' /\ OwnOf(names') = OwnOf(names)
<1>1. CASE it = NoIterator
    <2>1. "new" \in {"new", "owed", "given"} /\ "new" # "given" /\ "new" # "owed"
        OBVIOUS
    <2>2. QED
        BY <1>1, <2>1, MarkedTurn
<1>2. CASE it # NoIterator
    BY <1>2, TurnStep
<1>3. QED
    BY <1>1, <1>2

LEMMA NextNameStep ==
    ASSUME BoardIsGood, NextName
    PROVE  /\ BoardIsGood' /\ used' = used /\ answer' = NoAnswer
           /\ OwnOf(names') = OwnOf(names)
<1> DEFINE Gives(it, L) == iter' = it /\ names' = IF it = NoIterator THEN Marked("new") ELSE L
           met  == [names EXCEPT ![iter.at].met = "given"]
           next == [iter EXCEPT !.at = IF @ = Len(names) THEN End ELSE @ + 1]
<1>1. /\ \/ iter.gone /\ \E more \in BOOLEAN : Gives([iter EXCEPT !.gone = more], names)
         \/ ~iter.gone /\ iter.at # End /\ Gives(next, met)
      /\ answer' = NoAnswer /\ used' = used /\ asLoaded' = asLoaded /\ root' = root
    BY DEF NextName
<1>2. names \in Seq(EntryRecord) /\ InTurn(names, iter)
    BY ListIs
<1>3. /\ iter \in [gone : BOOLEAN, at : Nat] /\ iter.at <= Len(names) /\ Len(names) \in Nat
      /\ iter.at \in Nat /\ DOMAIN names = 1 .. Len(names)
      /\ \A i \in DOMAIN names :
            /\ names[i].met = "owed" => iter.at # End /\ iter.at <= i
            /\ names[i].met = "given" => iter.at = End \/ i < iter.at
    BY <1>2 DEF InTurn
<1>4. ASSUME NEW more \in BOOLEAN, Gives([iter EXCEPT !.gone = more], names)
      PROVE  BoardIsGood' /\ OwnOf(names') = OwnOf(names)
    <2> DEFINE it == [iter EXCEPT !.gone = more]
    <2>1. it \in [gone : BOOLEAN, at : Nat] /\ it.at = iter.at
        BY <1>3
    <2>2. iter' = it /\ names' = IF it = NoIterator THEN Marked("new") ELSE names
        BY <1>4
    <2> HIDE DEF it
    <2>3. InTurn(names, it)
        BY <1>3, <2>1 DEF InTurn
    <2>4. SameTexts(names, names) /\ it.at <= Len(names)
        BY <1>3, <2>1 DEF SameTexts
    <2>5. QED
        BY <1>1, <1>2, <2>1, <2>2, <2>3, <2>4, GivesStep
<1>5. ASSUME ~iter.gone, iter.at # End, Gives(next, met)
      PROVE  BoardIsGood' /\ OwnOf(names') = OwnOf(names)
    <2> DEFINE at == iter.at
               to == IF at = Len(names) THEN End ELSE at + 1
               e  == names[at]
    <2>1. at \in DOMAIN names /\ at \in Nat
        BY <1>3, <1>5 DEF End
    <2>2. to \in Nat /\ to <= Len(names)
        BY <1>3, <2>1 DEF End
    <2>3. next \in [gone : BOOLEAN, at : Nat] /\ next.at = to
        <3>1. next = [iter EXCEPT !.at = to]
            BY <1>3
        <3> HIDE DEF to, next
        <3>2. QED
            BY <1>3, <2>2, <3>1
    <2>4. e \in EntryRecord
        BY <1>2, <2>1
    <2>5. met = [names EXCEPT ![at] = MetAs(e, "given")]
        BY <1>2, <2>1 DEF MetAs
    <2>6. iter' = next /\ names' = IF next = NoIterator THEN Marked("new") ELSE met
        BY <1>5
    <2> HIDE DEF e, met, next
    <2>7. /\ MetAs(e, "given") \in EntryRecord /\ MetAs(e, "given").met = "given"
          /\ MetAs(e, "given").name = e.name /\ MetAs(e, "given").text = e.text
          /\ MetAs(e, "given").from = e.from /\ MetAs(e, "given").bound = e.bound
        BY <2>4, MetAsIs
    <2>8. /\ met \in Seq(EntryRecord) /\ DOMAIN met = DOMAIN names /\ Len(met) = Len(names)
          /\ met[at] = MetAs(e, "given")
          /\ \A i \in DOMAIN names : i # at => met[i] = names[i]
        <3> DEFINE x == MetAs(e, "given")
        <3> HIDE DEF at
        <3>1. x \in EntryRecord
            BY <2>7
        <3> HIDE DEF x
        <3>2. QED
            BY <1>2, <2>1, <2>5, <3>1 DEF x
    <2>9. \A i \in DOMAIN names :
              /\ met[i].name = names[i].name /\ met[i].text = names[i].text
              /\ met[i].from = names[i].from /\ met[i].bound = names[i].bound
        BY <2>7, <2>8 DEF e
    <2>10. SameTexts(names, met)
        BY <2>8, <2>9, Zenon DEF SameTexts
    <2>11. InTurn(met, next)
        <3>1. ASSUME NEW i \in DOMAIN met, met[i].met = "owed"
              PROVE  next.at # End /\ next.at <= i
            <4>1. i # at /\ i \in DOMAIN names /\ met[i] = names[i]
                BY <2>7, <2>8, <3>1
            <4>2. at <= i /\ i \in Nat /\ i <= Len(names)
                BY <1>3, <3>1, <4>1
            <4>3. at # Len(names)
                BY <1>3, <2>1, <4>1, <4>2
            <4>4. QED
                BY <2>1, <2>3, <4>1, <4>2, <4>3 DEF End
        <3>2. ASSUME NEW i \in DOMAIN met, met[i].met = "given"
              PROVE  next.at = End \/ i < next.at
            <4>1. i \in DOMAIN names /\ i \in Nat /\ (i # at => met[i] = names[i])
                BY <1>3, <2>8
            <4>2. i = at \/ i < at
                BY <1>3, <1>5, <3>2, <4>1
            <4>3. QED
                BY <2>1, <2>3, <4>1, <4>2
        <3>3. next.at <= Len(met)
            BY <2>2, <2>3, <2>8
        <3>4. QED
            BY <2>3, <3>1, <3>2, <3>3 DEF InTurn
    <2>12. next.at <= Len(names)
        BY <2>2, <2>3
    <2>13. \A i \in DOMAIN names : met[i].bound = names[i].bound
        BY <2>9, Zenon
    <2> HIDE DEF to
    <2>14. QED
        BY <1>1, <2>3, <2>6, <2>8, <2>10, <2>11, <2>12, <2>13, GivesStep
<1>6. QED
    BY <1>1, <1>4, <1>5

-----------------------------------------------------------------------------
(***************************************************************************)
(* The evaluations.                                                        *)
(***************************************************************************)
Given_(n, v) == answer' = [of |-> n, value |-> v]

(* What an answer to the evaluation of a name may be.                      *)
RightFor(n, v) ==
    \/ v = StandsFor(n)
    \/ v = Endless /\ StandsFor(n) = Nothing
    \/ v \in Failures /\ (Broken \/ Marred \/ StandsFor(n) = Nothing)

LEMMA RefusalIsRight ==
    ASSUME NEW n, Broken \/ Marred \/ StandsFor(n) = Nothing
    PROVE  RightFor(n, <<"refused">>)
<1>1. <<"refused">> \in Failures
    BY DEF Failures
<1>2. QED
    BY <1>1, Zenon DEF RightFor

(* The list that is compiled: that of the board, but for what is compiled. *)
Compiling(L) == Reads(L) /\ Changed(names, L) /\ (Unresolved(L) <=> Unresolved(names))

LEMMA NamesCompiling ==
    ASSUME BoardIsGood
    PROVE  Compiling(names)
<1>1. Reads(names) /\ names \in Seq(EntryRecord)
    BY ListIs
<1>2. QED
    BY <1>1, Zenon DEF Compiling, Changed, SameTexts

LEMMA CompiledReads ==
    ASSUME names \in Seq(EntryRecord), NEW L, Reads(L), Changed(names, L), NEW K
    PROVE  /\ Reads(Compiled(L, K)) /\ Changed(names, Compiled(L, K))
           /\ Unresolved(Compiled(L, K)) <=> Unresolved(L)
<1> DEFINE M == Compiled(L, K)
<1>1. L \in Seq(EntryRecord) /\ BoundRight(L, asLoaded)
    BY Zenon DEF Reads
<1>2. Changed(L, M) /\ BoundRight(M, asLoaded) /\ (Unresolved(M) <=> Unresolved(L))
    BY <1>1, CompiledIs, CompiledIsRight
<1> HIDE DEF M
<1>3. Changed(names, M)
    BY <1>2, ChangedTwice
<1>4. Reads(M)
    BY <1>2, <1>3, Zenon DEF Reads, Changed
<1>5. QED
    BY <1>2, <1>3, <1>4 DEF M

LEMMA CompiledCompiling ==
    ASSUME BoardIsGood, NEW K
    PROVE  Compiling(Compiled(names, K))
<1>1. names \in Seq(EntryRecord)
    BY ListIs
<1>2. Reads(names) /\ Changed(names, names)
    BY NamesCompiling, Zenon DEF Compiling
<1>3. QED
    BY <1>1, <1>2, CompiledReads, Zenon DEF Compiling

LEMMA SchemaReads ==
    ASSUME BoardIsGood, NEW L, Compiling(L)
    PROVE  LET c == Schema(L) IN
           /\ Reads(c.names) /\ Changed(names, c.names) /\ c.root \in Roots /\ c.root # "no"
           /\ c.ok => (Unresolved(c.names) => Marred)
           /\ ~c.ok => Broken
<1> DEFINE c == Schema(L)
           R == c.names
<1>1. /\ names \in Seq(EntryRecord) /\ root \in Roots
    BY ListIs
<1>2. L \in Seq(EntryRecord) /\ Reads(L) /\ Changed(names, L) /\ BoundRight(L, asLoaded)
      /\ (Unresolved(L) <=> Unresolved(names))
    BY Zenon DEF Compiling, Reads
<1>3. /\ Changed(L, R) /\ BoundRight(R, asLoaded)
      /\ c.root \in {"no", "resolved", "stuck", "compiled"} \cup {root} /\ c.root # "no"
      /\ c.ok => (Unresolved(R) => root # "no" /\ Unresolved(L))
      /\ ~c.ok => root \notin {"stuck", "compiled"}
      /\ ~c.ok => \/ \E i \in DOMAIN L : IsLink(L[i]) /\ R[i].bound = Unbound
                                         /\ root = "no" /\ Named(L, L[i].text) = 0
                  \/ \E k \in DOMAIN R : Circular(R, k)
    BY <1>2, SchemaIs
<1> HIDE DEF c
<1>4. c.root \in Roots
    BY <1>1, <1>3, Zenon DEF Roots
<1>5. Changed(names, R)
    BY <1>2, <1>3, ChangedTwice
<1>6. Reads(R)
    BY <1>3, <1>5, Zenon DEF Reads, Changed
<1>7. c.ok => (Unresolved(R) => Marred)
    BY <1>2, <1>3, Zenon DEF Marred
<1>8. ASSUME NEW i \in DOMAIN L, IsLink(L[i]), R[i].bound = Unbound, Named(L, L[i].text) = 0
      PROVE  \E j \in DOMAIN names : Means(j) = Nothing
    <2>1. /\ DOMAIN L = 1 .. Len(names) /\ L[i].text = names[i].text
          /\ \A n : Named(L, n) = Named(names, n)
        BY <1>1, <1>2, ReadsIs
    <2>2. /\ DOMAIN R = 1 .. Len(names)
          /\ \A j \in DOMAIN R : /\ R[j].text = names[j].text
                                 /\ Loaded(R, asLoaded, j) <=> Loaded(names, asLoaded, j)
        BY <1>1, <1>6, ReadsIs
    <2>3. i \in DOMAIN R /\ i \in DOMAIN names
        BY <1>1, <2>1, <2>2
    <2>4. names[i].text # Data
        BY <1>2, <1>8, <2>1, LinkIs
    <2>5. BoundAt(R, asLoaded, i)
        BY <1>3, <2>3, Zenon DEF BoundRight
    <2>6. ~Loaded(names, asLoaded, i)
        BY <1>8, <2>2, <2>3, <2>4, <2>5 DEF BoundAt, Unbound, Extern
    <2>7. Named(names, names[i].text) = 0
        BY <1>8, <2>1, Zenon
    <2>8. Means(i) = Nothing
        BY <1>1, <2>3, <2>4, <2>6, <2>7, LostMeansNothing
    <2>9. QED
        BY <2>3, <2>8, Zenon
<1>9. ASSUME NEW k \in DOMAIN R, Circular(R, k)
      PROVE  \E j \in DOMAIN names : Means(j) = Nothing
    <2>1. Means(k) = Nothing
        BY <1>1, <1>6, <1>9, CircularMeansNothing
    <2>2. DOMAIN R = DOMAIN names
        BY <1>5, Zenon DEF Changed, SameTexts
    <2>3. QED
        BY <2>1, <2>2, Zenon
<1>10. ~c.ok => Broken
    <2>1. ~c.ok => \E j \in DOMAIN names : Means(j) = Nothing
        BY <1>3, <1>8, <1>9, Zenon
    <2>2. ~c.ok => root \in {"no", "resolved"}
        BY <1>1, <1>3, Zenon DEF Roots
    <2>3. QED
        BY <2>1, <2>2, Zenon DEF Broken
<1>11. QED
    BY <1>3, <1>4, <1>5, <1>6, <1>7, <1>10, Zenon DEF c

LEMMA AnswerStep ==
    ASSUME BoardIsGood, NEW c, Reads(c.names), Changed(names, c.names), c.root \in Roots,
           c.root # "no", Unresolved(c.names) => Marred, NEW n, Named(names, n) # 0,
           Answer(n, c), used' = used
    PROVE  /\ BoardIsGood' /\ OwnOf(names') = OwnOf(names)
           /\ \E v : Given_(n, v) /\ RightFor(n, v)
<1> DEFINE R == c.names
           k == Named(names, n)
           v == Value(R, Named(R, n))
<1>1. names \in Seq(EntryRecord)
    BY ListIs
<1>2. /\ answer' = [of |-> n, value |-> v] /\ names' = R /\ root' = c.root
      /\ iter' = iter /\ asLoaded' = asLoaded
    BY DEF Answer
<1>3. BoardIsGood' /\ OwnOf(names') = OwnOf(names)
    BY <1>2, StaysStep
<1>4. Named(R, n) = k /\ DOMAIN R = 1 .. Len(names)
    BY <1>1, ReadsIs
<1>5. k \in DOMAIN R
    <2>1. k \in 0 .. Len(names)
        BY <1>1, NamedType
    <2>2. k # 0 /\ Len(names) \in Nat
        BY <1>1
    <2> HIDE DEF k
    <2>3. QED
        BY <1>4, <2>1, <2>2
<1>6. \/ Value(R, k) = Means(k)
      \/ Value(R, k) = Endless /\ Means(k) = Nothing
      \/ Value(R, k) \in Failures /\ Unresolved(R)
    BY <1>1, <1>5, ValueIsRight
<1>7. RightFor(n, v)
    BY <1>4, <1>6, Zenon DEF RightFor, StandsFor
<1>8. Given_(n, v)
    BY <1>2, Zenon DEF Given_
<1>9. QED
    BY <1>3, <1>7, <1>8, Zenon

LEMMA EvaluateStep ==
    ASSUME BoardIsGood, NEW n \in Name, Evaluate(n)
    PROVE  /\ BoardIsGood' /\ used' = used /\ OwnOf(names') = OwnOf(names)
           /\ \E v : Given_(n, v) /\ RightFor(n, v)
<1> DEFINE k == Named(names, n)
           c == Schema(names)
           d == [names |-> Compiled(c.names, {k}), root |-> c.root]
<1>1. /\ \/ (k = 0 \/ ~c.ok \/ Circular(c.names, k)) /\ Refuse(n, c.names)
         \/ k # 0 /\ c.ok /\ Answer(n, d)
      /\ used' = used
    BY Zenon DEF Evaluate
<1>2. Compiling(names) /\ names \in Seq(EntryRecord)
    BY NamesCompiling, ListIs
<1>3. /\ Reads(c.names) /\ Changed(names, c.names) /\ c.root \in Roots /\ c.root # "no"
      /\ c.ok => (Unresolved(c.names) => Marred)
      /\ ~c.ok => Broken
    BY <1>2, SchemaReads
<1>4. d.names = Compiled(c.names, {k}) /\ d.root = c.root
    OBVIOUS
<1>5. k \in 0 .. Len(names) /\ StandsFor(n) = Means(k) /\ DOMAIN c.names = 1 .. Len(names)
    BY <1>2, <1>3, NamedType, ReadsIs, Zenon DEF StandsFor
<1> HIDE DEF c, d
<1>6. CASE (k = 0 \/ ~c.ok \/ Circular(c.names, k)) /\ Refuse(n, c.names)
    <2>1. BoardIsGood' /\ OwnOf(names') = OwnOf(names) /\ Given_(n, <<"refused">>)
        BY <1>1, <1>3, <1>6, RefuseStep DEF Given_
    <2> HIDE DEF k
    <2>2. k = 0 => StandsFor(n) = Nothing
        BY <1>2, <1>5, NoNameMeansNothing, Zenon
    <2>3. k # 0 /\ Circular(c.names, k) => StandsFor(n) = Nothing
        <3>1. k # 0 => k \in DOMAIN c.names
            BY <1>2, <1>5
        <3>2. QED
            BY <1>2, <1>3, <1>5, <3>1, CircularMeansNothing
    <2>4. Broken \/ Marred \/ StandsFor(n) = Nothing
        BY <1>3, <1>6, <2>2, <2>3, Zenon
    <2>5. RightFor(n, <<"refused">>)
        BY <2>4, RefusalIsRight
    <2>6. QED
        BY <1>1, <2>1, <2>5, Zenon
<1>7. CASE k # 0 /\ c.ok /\ Answer(n, d)
    <2>1. /\ Reads(d.names) /\ Changed(names, d.names)
          /\ Unresolved(d.names) <=> Unresolved(c.names)
        BY <1>2, <1>3, <1>4, CompiledReads
    <2>2. Unresolved(d.names) => Marred
        BY <1>3, <1>7, <2>1, Zenon
    <2>3. d.root \in Roots /\ d.root # "no"
        BY <1>3, <1>4
    <2>4. QED
        BY <1>1, <1>7, <2>1, <2>2, <2>3, AnswerStep
<1>8. QED
    BY <1>1, <1>6, <1>7

LEMMA EvaluateInItemStep ==
    ASSUME BoardIsGood, NEW n \in Name, EvaluateInItem(n)
    PROVE  /\ BoardIsGood' /\ used' = used /\ OwnOf(names') = OwnOf(names)
           /\ \E v : Given_(n, v) /\ RightFor(n, v)
<1> DEFINE k == Named(names, n)
           L == Compiled(names, {k})
           c == Schema(L)
<1>1. /\ \/ (k = 0 \/ Circular(names, k)) /\ Refuse(n, names)
         \/ /\ k # 0
            /\ IF c.ok THEN Answer(n, c)
               ELSE /\ answer' = [of |-> n, value |-> <<"refused">>]
                    /\ names' = c.names /\ root' = c.root
                    /\ iter' = iter /\ asLoaded' = asLoaded
      /\ used' = used
    BY DEF EvaluateInItem
<1>2. Compiling(L) /\ names \in Seq(EntryRecord) /\ Compiling(names) /\ Reads(names)
    BY CompiledCompiling, NamesCompiling, ListIs
<1>3. k \in 0 .. Len(names) /\ StandsFor(n) = Means(k)
    BY <1>2, NamedType, Zenon DEF StandsFor
<1>4. /\ Reads(c.names) /\ Changed(names, c.names) /\ c.root \in Roots /\ c.root # "no"
      /\ c.ok => (Unresolved(c.names) => Marred)
      /\ ~c.ok => Broken
    BY <1>2, SchemaReads
<1> HIDE DEF c, L
<1>5. CASE (k = 0 \/ Circular(names, k)) /\ Refuse(n, names)
    <2>1. Changed(names, names)
        BY <1>2, Zenon DEF Compiling
    <2>2. BoardIsGood' /\ OwnOf(names') = OwnOf(names) /\ Given_(n, <<"refused">>)
        BY <1>1, <1>2, <1>5, <2>1, RefuseStep DEF Given_
    <2> HIDE DEF k
    <2>3. k = 0 => StandsFor(n) = Nothing
        BY <1>2, <1>3, NoNameMeansNothing, Zenon
    <2>4. k # 0 /\ Circular(names, k) => StandsFor(n) = Nothing
        <3>1. k # 0 => k \in DOMAIN names
            BY <1>2, <1>3
        <3>2. QED
            BY <1>2, <1>3, <3>1, CircularMeansNothing
    <2>5. StandsFor(n) = Nothing
        BY <1>5, <2>3, <2>4, Zenon
    <2>6. RightFor(n, <<"refused">>)
        BY <2>5, RefusalIsRight
    <2>7. QED
        BY <1>1, <2>2, <2>6, Zenon
<1>6. CASE k # 0 /\ c.ok /\ Answer(n, c)
    BY <1>1, <1>4, <1>6, AnswerStep
<1>7. CASE /\ ~c.ok /\ answer' = [of |-> n, value |-> <<"refused">>]
           /\ names' = c.names /\ root' = c.root /\ iter' = iter /\ asLoaded' = asLoaded
    <2>1. BoardIsGood' /\ OwnOf(names') = OwnOf(names)
        BY <1>1, <1>4, <1>7, StaysStep
    <2>2. RightFor(n, <<"refused">>)
        BY <1>4, <1>7, RefusalIsRight
    <2>3. Given_(n, <<"refused">>)
        BY <1>7, Zenon DEF Given_
    <2>4. QED
        BY <1>1, <2>1, <2>2, <2>3, Zenon
<1>8. QED
    BY <1>1, <1>5, <1>6, <1>7

(* What one step does.                                                     *)
Givens == {Own(Entry(n, t, f)) : n \in Name, t \in Name \cup {Data}, f \in {"client", "program"}}
OwnAdds  == \E e \in Givens : OwnOf(names') = Append(OwnOf(names), e) /\ used' = used
OwnTakes ==
    \E n \in Name :
        /\ OwnOf(names') = Sublist(OwnOf(names), {i \in DOMAIN OwnOf(names) : OwnOf(names)[i].name # n})
        /\ used' = used
OwnStays == used' \in Specs \cup {NoSpec} /\ OwnOf(names') = OwnOf(names)
OwnStep  == OwnAdds \/ OwnTakes \/ OwnStays

LEMMA NextStep ==
    ASSUME BoardIsGood, Next
    PROVE  /\ BoardIsGood' /\ OwnStep
           /\ answer' = NoAnswer \/ \E n, v : Given_(n, v) /\ RightFor(n, v)
<1> DEFINE Right == answer' = NoAnswer \/ \E n, v : Given_(n, v) /\ RightFor(n, v)
           Goal == BoardIsGood' /\ OwnStep /\ Right
<1> SUFFICES Goal
    OBVIOUS
<1>1. used \in Specs \cup {NoSpec}
    BY ListIs
<1>2. ASSUME BoardIsGood', used' = used, OwnOf(names') = OwnOf(names), Right PROVE Goal
    BY <1>1, <1>2, Zenon DEF OwnStep, OwnStays
<1> HIDE DEF Goal
<1>3. ASSUME NEW n \in Name, NEW t \in Name \cup {Data}, NEW from \in {"client", "program"}, Add(n, t, from)
      PROVE  Goal
    <2>1. /\ BoardIsGood' /\ used' = used /\ answer' = NoAnswer
          /\ OwnOf(names') = Append(OwnOf(names), Own(Entry(n, t, from)))
        BY <1>3, AddStep
    <2>2. Own(Entry(n, t, from)) \in Givens
        BY DEF Givens
    <2>3. OwnStep
        BY <2>1, <2>2, Zenon DEF OwnStep, OwnAdds
    <2>4. QED
        BY <2>1, <2>3, Zenon DEF Goal
<1>4. ASSUME NEW n \in Name, RemoveName(n) PROVE Goal
    <2>1. /\ BoardIsGood' /\ used' = used /\ answer' = NoAnswer
          /\ OwnOf(names') = Sublist(OwnOf(names), {j \in DOMAIN OwnOf(names) : OwnOf(names)[j].name # n})
        BY <1>4, RemoveStep
    <2>2. OwnTakes
        BY <2>1, Zenon DEF OwnTakes
    <2>3. QED
        BY <2>1, <2>2, Zenon DEF OwnStep, Goal
<1>5. ASSUME NEW s \in Specs, UseSpec(s) PROVE Goal
    <2>1. /\ BoardIsGood' /\ used' = s /\ answer' = NoAnswer /\ OwnOf(names') = OwnOf(names)
        BY <1>5, UseStep
    <2>2. used' \in Specs \cup {NoSpec}
        BY <2>1
    <2>3. QED
        BY <2>1, <2>2, Zenon DEF OwnStep, OwnStays, Goal
<1>6. ASSUME ForgetSpec PROVE Goal
    <2>1. /\ BoardIsGood' /\ used' = NoSpec /\ answer' = NoAnswer /\ OwnOf(names') = OwnOf(names)
        BY <1>6, ForgetStep
    <2>2. used' \in Specs \cup {NoSpec}
        BY <2>1
    <2>3. QED
        BY <2>1, <2>2, Zenon DEF OwnStep, OwnStays, Goal
<1>7. ASSUME NEW n \in Name, Evaluate(n) PROVE Goal
    <2>1. /\ BoardIsGood' /\ used' = used /\ OwnOf(names') = OwnOf(names)
          /\ \E v : Given_(n, v) /\ RightFor(n, v)
        BY <1>7, EvaluateStep
    <2>2. Right
        BY <2>1, Zenon
    <2>3. QED
        BY <1>2, <2>1, <2>2
<1>8. ASSUME NEW n \in Name, EvaluateInItem(n) PROVE Goal
    <2>1. /\ BoardIsGood' /\ used' = used /\ OwnOf(names') = OwnOf(names)
          /\ \E v : Given_(n, v) /\ RightFor(n, v)
        BY <1>8, EvaluateInItemStep
    <2>2. Right
        BY <2>1, Zenon
    <2>3. QED
        BY <1>2, <2>1, <2>2
<1>9. ASSUME Iterate PROVE Goal
    <2>1. BoardIsGood' /\ used' = used /\ answer' = NoAnswer /\ OwnOf(names') = OwnOf(names)
        BY <1>9, IterateStep
    <2>2. QED
        BY <1>2, <2>1
<1>10. ASSUME NextName PROVE Goal
    <2>1. BoardIsGood' /\ used' = used /\ answer' = NoAnswer /\ OwnOf(names') = OwnOf(names)
        BY <1>10, NextNameStep
    <2>2. QED
        BY <1>2, <2>1
<1>11. QED
    BY <1>3, <1>4, <1>5, <1>6, <1>7, <1>8, <1>9, <1>10, Zenon DEF Next

LEMMA InitIsGood == Init => BoardIsGood
<1> SUFFICES ASSUME Init PROVE BoardIsGood
    OBVIOUS
<1>1. names = <<>> /\ used = NoSpec /\ asLoaded = FALSE /\ root = "no" /\ iter = NoIterator
    BY DEF Init
<1>2. List = [names |-> <<>>, iter |-> [gone |-> FALSE, at |-> 0]]
    BY <1>1 DEF List, NoIterator, End
<1>3. List.names = <<>> /\ List.iter = [gone |-> FALSE, at |-> 0]
    BY <1>2
<1>4. /\ DOMAIN List.names = {} /\ List.names \in Seq(EntryRecord) /\ Len(List.names) = 0
    BY <1>3
<1>5. IsList(List.names) /\ NoSpecIn(List.names) /\ AllFree(List.names)
    BY <1>4 DEF IsList, NoSpecIn, AllFree
<1>6. InTurn(List.names, List.iter)
    <2>1. List.iter \in [gone : BOOLEAN, at : Nat] /\ List.iter.at = 0
        BY <1>3
    <2>2. QED
        BY <1>4, <2>1 DEF InTurn
<1>7. IsBoard(List)
    BY <1>2, <1>3, <1>5, <1>6 DEF IsBoard
<1>8. BoundRight(List.names, FALSE) /\ FreeIfNew(List.names, FALSE, "no")
    BY <1>5, FreeIsRight
<1>9. "no" \in Roots /\ FALSE \in BOOLEAN
    BY DEF Roots
<1>10. IsGood(List, NoSpec, FALSE, "no")
    BY <1>5, <1>7, <1>8, <1>9, Zenon DEF IsGood
<1>11. QED
    BY <1>1, <1>10 DEF BoardIsGood

LEMMA StutterStep ==
    ASSUME BoardIsGood, UNCHANGED vars
    PROVE  BoardIsGood' /\ OwnOf(names') = OwnOf(names) /\ used' = used /\ answer' = answer
<1>1. /\ names' = names /\ used' = used /\ asLoaded' = asLoaded /\ root' = root /\ iter' = iter
      /\ answer' = answer
    BY DEF vars
<1>2. List' = List
    BY <1>1 DEF List
<1>3. QED
    BY <1>1, <1>2, Zenon DEF BoardIsGood

LEMMA AlwaysGood == Spec => []BoardIsGood
<1>1. BoardIsGood /\ [Next]_vars => BoardIsGood'
    BY NextStep, StutterStep
<1>2. QED
    BY InitIsGood, <1>1, PTL DEF Spec

-----------------------------------------------------------------------------
(* While the board changes, a client that goes through its names is given  *)
(* each name that stays once (Board_iter(), ScopeIter_iternext()): those   *)
(* that it was not given are at the iterator or after it.                  *)
THEOREM EachNameOnce == Spec => []NamesAreGivenOnce
<1>1. BoardIsGood => NamesAreGivenOnce
    <2> SUFFICES ASSUME BoardIsGood PROVE NamesAreGivenOnce
        OBVIOUS
    <2>1. InTurn(names, iter)
        BY ListIs
    <2>2. QED
        BY <2>1 DEF InTurn, NamesAreGivenOnce
<1>2. QED
    BY AlwaysGood, <1>1, PTL

(* An evaluation (bitpunch_eval_expr()), in the board or in an item, gives *)
(* what its name stands for in the board as it is, whatever was compiled,  *)
(* failed, removed, forgotten or imported before; or it fails, and its     *)
(* name stands for nothing, one does of a board that is yet to compile, or *)
(* an item left references unresolved; only what stands for nothing can be *)
(* evaluated without end.                                                  *)
THEOREM EvaluationsAreRight == Spec => EvaluationIsRight
<1> DEFINE A == answer' # NoAnswer =>
                    \/ answer'.value = StandsFor(answer'.of)
                    \/ answer'.value = Endless /\ StandsFor(answer'.of) = Nothing
                    \/ /\ answer'.value \in Failures
                       /\ Broken \/ Marred \/ StandsFor(answer'.of) = Nothing
<1>1. ASSUME BoardIsGood, Next PROVE A
    <2>1. answer' = NoAnswer \/ \E n, v : Given_(n, v) /\ RightFor(n, v)
        BY <1>1, NextStep
    <2>2. ASSUME NEW n, NEW v, Given_(n, v), RightFor(n, v) PROVE A
        <3>1. answer'.of = n /\ answer'.value = v
            BY <2>2 DEF Given_
        <3>2. QED
            BY <2>2, <3>1, Zenon DEF RightFor
    <2>3. QED
        BY <2>1, <2>2, Zenon
<1>2. BoardIsGood /\ [Next]_vars => [A]_vars
    <2> HIDE DEF A
    <2>1. QED
        BY <1>1
<1> HIDE DEF A
<1>3. Spec => [][A]_vars
    BY AlwaysGood, <1>2, PTL DEF Spec
<1>4. QED
    BY <1>3 DEF A, EvaluationIsRight

(* The board keeps the names of its client as a Namespace does: refreshing *)
(* it, using and forgetting a specification, and evaluations lose none of  *)
(* them, and change neither their texts nor their order.                   *)
THEOREM BoardIsNamespace == Spec => IsNamespace
<1> DEFINE OwnText(L) ==
        LET mine == Sublist(L, {i \in DOMAIN L : L[i].from # "spec"})
        IN  [i \in DOMAIN mine |-> Own(mine[i])]
<1>1. ASSUME NEW L \in Seq(EntryRecord) PROVE OwnText(L) = OwnOf(L)
    <2>1. DOMAIN Sublist(L, Mine(L)) = 1 .. Cardinality(Mine(L))
        BY DEF Sublist
    <2>2. \A k \in 1 .. Cardinality(Mine(L)) : Sublist(L, Mine(L))[k] = L[Place(Mine(L), k)]
        BY DEF Sublist
    <2>3. OwnText(L) = [i \in DOMAIN Sublist(L, Mine(L)) |-> Own(Sublist(L, Mine(L))[i])]
        BY Zenon DEF Mine
    <2>4. QED
        BY <2>1, <2>2, <2>3, Zenon DEF OwnOf
<1>2. own = OwnText(names) /\ own' = OwnText(names')
    BY DEF own
<1> HIDE DEF OwnText
<1>3. \A s, S : Abstract!Sublist(s, S) = Sublist(s, S)
    BY Zenon DEF Abstract!Sublist, Abstract!Place, Abstract!Rank, Abstract!Cardinality,
                 Sublist, Place, Rank, Cardinality
<1>4. Init => Abstract!Init
    <2> SUFFICES ASSUME Init PROVE Abstract!Init
        OBVIOUS
    <2>1. names = <<>> /\ used = NoSpec
        BY DEF Init
    <2>2. names \in Seq(EntryRecord) /\ Mine(names) = {}
        BY <2>1 DEF Mine
    <2>3. own = OwnOf(names)
        BY <1>1, <1>2, <2>2
    <2>4. Cardinality(Mine(names)) = 0
        BY <2>2, FS_EmptySet
    <2>5. OwnOf(names) = <<>>
        BY <2>4 DEF OwnOf
    <2>6. QED
        BY <2>1, <2>3, <2>5 DEF Abstract!Init
<1>5. ASSUME BoardIsGood, BoardIsGood', OwnStep PROVE Abstract!Next
    <2>1. own = OwnOf(names)
        BY <1>1, <1>2, <1>5, ListIs
    <2>2. names' \in Seq(EntryRecord)
        <3>1. List'.names = names'
            BY DEF List
        <3>2. QED
            BY <1>5, <3>1, Zenon DEF BoardIsGood, IsGood, IsBoard, IsList
    <2>3. own' = OwnOf(names')
        BY <1>1, <1>2, <2>2
    <2>4. CASE OwnAdds
        <3>1. Abstract!Add
            BY <2>1, <2>3, <2>4 DEF OwnAdds, Givens, Abstract!Add
        <3>2. QED
            BY <3>1 DEF Abstract!Next
    <2>5. CASE OwnTakes
        <3>1. Abstract!Take
            BY <1>3, <2>1, <2>3, <2>5, Zenon DEF OwnTakes, Abstract!Take
        <3>2. QED
            BY <3>1 DEF Abstract!Next
    <2>6. CASE OwnStays
        <3>1. Abstract!Use
            BY <2>1, <2>3, <2>6 DEF OwnStays, Abstract!Use
        <3>2. QED
            BY <3>1 DEF Abstract!Next
    <2>7. QED
        BY <1>5, <2>4, <2>5, <2>6 DEF OwnStep
<1>6. ASSUME BoardIsGood, BoardIsGood', [Next]_vars PROVE [Abstract!Next]_<<own, used>>
    <2>1. CASE Next
        BY <1>5, <1>6, <2>1, NextStep
    <2>2. CASE UNCHANGED vars
        <3>1. names' = names /\ used' = used
            BY <2>2 DEF vars
        <3>2. own' = own
            BY <1>2, <3>1
        <3>3. QED
            BY <3>1, <3>2
    <2>3. QED
        BY <1>6, <2>1, <2>2
<1>7. QED
    BY AlwaysGood, <1>4, <1>6, PTL DEF Spec, IsNamespace, Abstract!Spec
=============================================================================
