---------------------------- MODULE CodecsProofs ----------------------------
(***************************************************************************)
(* Theorems about Codecs, for every width, every filter and all bytes: how *)
(* an array of items is cut where the sizes that are found say.            *)
(***************************************************************************)
EXTENDS Codecs, TLAPS, SequenceTheorems, WellFoundedInduction

(***************************************************************************)
(* Numbers.                                                                *)
(***************************************************************************)
(* A non-empty set of naturals has a least one, and Min is it.             *)
LEMMA MinIsLeast ==
    ASSUME NEW S \in SUBSET Nat, S # {}
    PROVE  Min(S) \in S /\ \A m \in S : Min(S) <= m
<1> DEFINE R == OpToRel(<, Nat)
<1>1. IsWellFoundedOn(R, Nat)
    BY NatLessThanWellFounded, Zenon
<1>2. \A x, y \in Nat : x < y => <<x, y>> \in R
    BY Zenon DEF OpToRel
<1> HIDE DEF R
<1>3. PICK l \in S : \A m \in S : ~(<<m, l>> \in R)
    BY <1>1, WFMin, Zenon
<1>4. \A m \in S : ~(m < l)
    BY <1>2, <1>3, Zenon
<1>5. \A m \in S : l <= m
    BY <1>4
<1>6. QED
    BY <1>5, Zenon DEF Min

(* A number that is in a set, with nothing below it there, is its Min.     *)
LEMMA MinIs ==
    ASSUME NEW S \in SUBSET Nat, NEW l \in S, \A m \in S : l <= m
    PROVE  Min(S) = l
<1>1. Min(S) \in S /\ \A m \in S : Min(S) <= m
    BY MinIsLeast
<1>2. Min(S) <= l /\ l <= Min(S) /\ Min(S) \in Nat /\ l \in Nat
    BY <1>1
<1>3. QED
    BY <1>2

(* What holds at the start, and after each step, holds up to the end.      *)
LEMMA UpTo ==
    ASSUME NEW N \in Nat, NEW P, 0 \in P, \A n \in 1 .. N : n - 1 \in P => n \in P
    PROVE  \A n \in 0 .. N : n \in P
<1> DEFINE S == {n \in 0 .. N : n \notin P}
<1>1. SUFFICES ASSUME S # {} PROVE FALSE
    OBVIOUS
<1>2. PICK l \in S : \A m \in S : l <= m
    <2>1. S \in SUBSET Nat
        OBVIOUS
    <2> HIDE DEF S
    <2>2. QED
        BY <1>1, <2>1, MinIsLeast
<1>3. l \in 1 .. N /\ l - 1 \in 0 .. N /\ ~(l <= l - 1)
    OBVIOUS
<1>4. l - 1 \in P
    BY <1>2, <1>3
<1>5. QED
    BY <1>3, <1>4

-----------------------------------------------------------------------------
(***************************************************************************)
(* Sequences of sequences.                                                 *)
(***************************************************************************)
(* The function that FlattenSeq chooses, over the first n sequences.       *)
Flattens(g, ss, n) == g = [i \in 1 .. n |-> IF i = 1 THEN ss[i] ELSE g[i - 1] \o ss[i]]

(* There is one.                                                           *)
LEMMA FlatteningExists ==
    ASSUME NEW ss, NEW N \in Nat
    PROVE  \E g : Flattens(g, ss, N)
<1> DEFINE P == {n \in 0 .. N : \E g : Flattens(g, ss, n)}
<1>1. 0 \in P
    <2> DEFINE g == [i \in 1 .. 0 |-> 0]
    <2>1. g = [i \in 1 .. 0 |-> IF i = 1 THEN ss[i] ELSE g[i - 1] \o ss[i]]
        OBVIOUS
    <2>2. Flattens(g, ss, 0)
        BY <2>1, Zenon DEF Flattens
    <2>3. QED
        BY <2>2
<1>2. ASSUME NEW n \in 1 .. N, n - 1 \in P PROVE n \in P
    <2>1. PICK g : Flattens(g, ss, n - 1)
        BY <1>2
    <2> DEFINE h == [i \in 1 .. n |-> IF i # n THEN g[i]
                                      ELSE IF i = 1 THEN ss[i] ELSE g[i - 1] \o ss[i]]
    <2>2. \A i \in 1 .. (n - 1) : i \in 1 .. n /\ i # n /\ (i # 1 => i - 1 \in 1 .. (n - 1))
        OBVIOUS
    <2>3. \A i \in 1 .. n : i = n \/ i \in 1 .. (n - 1)
        OBVIOUS
    <2>4. n \in 1 .. n /\ (n # 1 => n - 1 \in 1 .. (n - 1))
        OBVIOUS
    <2>5. h[n] = (IF n = 1 THEN ss[n] ELSE g[n - 1] \o ss[n]) /\ \A i \in 1 .. (n - 1) : h[i] = g[i]
        BY <2>2, <2>4, Zenon
    <2>6. \A i \in 1 .. (n - 1) : g[i] = IF i = 1 THEN ss[i] ELSE g[i - 1] \o ss[i]
        BY <2>1, Zenon DEF Flattens
    <2>7. h = [i \in 1 .. n |-> h[i]]
        BY Zenon
    <2> HIDE DEF h
    <2>8. \A i \in 1 .. n : h[i] = IF i = 1 THEN ss[i] ELSE h[i - 1] \o ss[i]
        BY <2>2, <2>3, <2>4, <2>5, <2>6, Zenon
    <2>9. Flattens(h, ss, n)
        BY <2>7, <2>8, Zenon DEF Flattens
    <2>10. n \in 0 .. N
        OBVIOUS
    <2>11. QED
        BY <2>9, <2>10, Zenon
<1>3. \A n \in 0 .. N : n \in P
    <2> HIDE DEF P
    <2>1. QED
        BY <1>1, <1>2, UpTo, Zenon
<1>4. N \in 0 .. N
    OBVIOUS
<1>5. QED
    BY <1>3, <1>4, Zenon

(* What it satisfies.                                                      *)
Grows(g, ss, n) == \A i \in 1 .. n : g[i] = IF i = 1 THEN ss[i] ELSE g[i - 1] \o ss[i]

(* Two of them agree where the sequences do.                               *)
LEMMA FlatteningsAgree ==
    ASSUME NEW ss, NEW tt, NEW N \in Nat, NEW g, NEW h,
           Grows(g, ss, N), Grows(h, tt, N), \A i \in 1 .. N : ss[i] = tt[i]
    PROVE  \A i \in 1 .. N : g[i] = h[i]
<1> DEFINE P == {n \in 0 .. N : n = 0 \/ g[n] = h[n]}
<1>1. 0 \in P
    OBVIOUS
<1>2. ASSUME NEW n \in 1 .. N, n - 1 \in P PROVE n \in P
    <2>1. n \in 0 .. N /\ (n - 1 = 0 <=> n = 1)
        OBVIOUS
    <2>2. g[n] = IF n = 1 THEN ss[n] ELSE g[n - 1] \o ss[n]
        BY Zenon DEF Grows
    <2>3. h[n] = IF n = 1 THEN tt[n] ELSE h[n - 1] \o tt[n]
        BY <2>1, Zenon DEF Grows
    <2>4. n # 1 => g[n - 1] = h[n - 1]
        BY <1>2, <2>1
    <2>5. g[n] = h[n]
        BY <2>2, <2>3, <2>4, Zenon
    <2>6. QED
        BY <2>1, <2>5
<1>3. \A n \in 0 .. N : n \in P
    <2> HIDE DEF P
    <2>1. QED
        BY <1>1, <1>2, UpTo, Zenon
<1>4. \A i \in 1 .. N : i \in 0 .. N /\ i # 0
    OBVIOUS
<1>5. QED
    BY <1>3, <1>4, Zenon

(* What FlattenSeq is, by one of them.                                     *)
LEMMA FlattenedBy ==
    ASSUME NEW ss, Len(ss) \in Nat, Len(ss) # 0
    PROVE  \E g : Flattens(g, ss, Len(ss)) /\ FlattenSeq(ss) = g[Len(ss)]
<1> DEFINE c == CHOOSE g : g = [i \in 1 .. Len(ss) |-> IF i = 1 THEN ss[i] ELSE g[i - 1] \o ss[i]]
<1>1. \E g : Flattens(g, ss, Len(ss))
    BY FlatteningExists
<1>2. Flattens(c, ss, Len(ss))
    BY <1>1, Zenon DEF Flattens
<1>3. FlattenSeq(ss) = c[Len(ss)]
    BY Zenon DEF FlattenSeq
<1>4. QED
    BY <1>2, <1>3, Zenon

(* Nothing flattened is nothing; and one sequence more is put at the end.  *)
LEMMA FlattenEmpty == FlattenSeq(<<>>) = <<>>
BY DEF FlattenSeq

LEMMA FlattenLonger ==
    ASSUME NEW ss, NEW tt, NEW n \in Nat, NEW m \in Nat, n # 0, m = n + 1,
           Len(ss) = n, Len(tt) = m, \A i \in 1 .. n : ss[i] = tt[i]
    PROVE  FlattenSeq(tt) = FlattenSeq(ss) \o tt[m]
<1>1. PICK g : Flattens(g, ss, n) /\ FlattenSeq(ss) = g[n]
    BY FlattenedBy
<1>2. m # 0
    OBVIOUS
<1>3. PICK h : Flattens(h, tt, m) /\ FlattenSeq(tt) = h[m]
    BY <1>2, FlattenedBy
<1>4. n <= m /\ m \in 1 .. m /\ m # 1 /\ m - 1 = n /\ n \in 1 .. n
    OBVIOUS
<1>5. \A i \in 1 .. n : g[i] = h[i]
    <2>1. Grows(g, ss, n)
        BY <1>1, Zenon DEF Flattens, Grows
    <2>2. Grows(h, tt, n)
        <3>1. \A i \in 1 .. m : h[i] = IF i = 1 THEN tt[i] ELSE h[i - 1] \o tt[i]
            BY <1>3, Zenon DEF Flattens
        <3>2. \A i \in 1 .. n : i \in 1 .. m
            BY <1>4
        <3>3. QED
            BY <3>1, <3>2, Zenon DEF Grows
    <2>3. QED
        BY <2>1, <2>2, FlatteningsAgree
<1>6. h[m] = h[n] \o tt[m]
    BY <1>3, <1>4 DEF Flattens
<1>7. QED
    BY <1>1, <1>3, <1>4, <1>5, <1>6

LEMMA FlattenAppend ==
    ASSUME NEW S, NEW ss \in Seq(Seq(S)), NEW s \in Seq(S)
    PROVE  FlattenSeq(Append(ss, s)) = FlattenSeq(ss) \o s
<1>1. CASE Len(ss) = 0
    <2>1. ss = <<>>
        BY <1>1
    <2>2. FlattenSeq(ss) = <<>>
        BY <2>1, FlattenEmpty, Zenon
    <2>3. Append(ss, s) = <<s>>
        BY <2>1
    <2>4. Len(<<s>>) \in Nat /\ Len(<<s>>) # 0 /\ Len(<<s>>) = 1 /\ <<s>>[1] = s
        OBVIOUS
    <2>5. PICK h : Flattens(h, <<s>>, 1) /\ FlattenSeq(<<s>>) = h[1]
        BY <2>4, FlattenedBy
    <2>6. h[1] = s
        BY <2>4, <2>5 DEF Flattens
    <2>7. <<>> \o s = s
        BY ConcatEmptySeq
    <2>8. QED
        BY <2>2, <2>3, <2>5, <2>6, <2>7, Zenon
<1>2. CASE Len(ss) # 0
    <2> DEFINE tt == Append(ss, s)
               n  == Len(ss)
               m  == n + 1
    <2>1. /\ n \in Nat /\ m \in Nat /\ n # 0 /\ m = n + 1
          /\ Len(tt) = m /\ tt[m] = s /\ \A i \in 1 .. n : ss[i] = tt[i]
        BY <1>2
    <2>2. Len(ss) = n
        OBVIOUS
    <2> HIDE DEF tt, n, m
    <2>3. FlattenSeq(tt) = FlattenSeq(ss) \o tt[m]
        BY <2>1, <2>2, FlattenLonger
    <2>4. QED
        BY <2>1, <2>3, Zenon DEF tt
<1>3. QED
    BY <1>1, <1>2

LEMMA FlattenTypes ==
    ASSUME NEW S, NEW ss \in Seq(Seq(S))
    PROVE  FlattenSeq(ss) \in Seq(S)
<1>1. CASE Len(ss) = 0
    <2>1. ss = <<>>
        BY <1>1
    <2>2. FlattenSeq(ss) = <<>>
        BY <2>1, FlattenEmpty, Zenon
    <2>3. QED
        BY <2>2
<1>2. CASE Len(ss) # 0
    <2> DEFINE N == Len(ss)
    <2>1. N \in Nat /\ \A n \in 1 .. N : ss[n] \in Seq(S)
        OBVIOUS
    <2>2. PICK g : Flattens(g, ss, N) /\ FlattenSeq(ss) = g[N]
        BY <1>2, <2>1, FlattenedBy
    <2> HIDE DEF N
    <2> DEFINE P == {n \in 0 .. N : n = 0 \/ g[n] \in Seq(S)}
    <2>3. 0 \in P
        BY <2>1
    <2>4. ASSUME NEW n \in 1 .. N, n - 1 \in P PROVE n \in P
        <3>1. g[n] = IF n = 1 THEN ss[n] ELSE g[n - 1] \o ss[n]
            BY <2>2, Zenon DEF Flattens
        <3>2. n # 1 => g[n - 1] \in Seq(S)
            BY <2>1, <2>4
        <3>3. n # 1 => g[n - 1] \o ss[n] \in Seq(S)
            BY <2>1, <3>2, ConcatProperties
        <3>4. g[n] \in Seq(S)
            BY <2>1, <3>1, <3>3
        <3>5. QED
            BY <2>1, <3>4
    <2>5. \A n \in 0 .. N : n \in P
        <3> HIDE DEF P
        <3>1. QED
            BY <2>1, <2>3, <2>4, UpTo, Zenon
    <2>6. N \in 0 .. N /\ N # 0
        BY <1>2, <2>1 DEF N
    <2>7. QED
        BY <2>2, <2>5, <2>6
<1>3. QED
    BY <1>1, <1>2

-----------------------------------------------------------------------------
(***************************************************************************)
(* Where an item ends, in the bytes that are left and in its own.          *)
(***************************************************************************)
(* The first bytes of a buffer.                                            *)
LEMMA FirstBytes ==
    ASSUME NEW S, NEW buf \in Seq(S), NEW n \in 0 .. Len(buf)
    PROVE  /\ SubSeq(buf, 1, n) \in Seq(S)
           /\ Len(SubSeq(buf, 1, n)) = n
           /\ \A i \in 1 .. n : SubSeq(buf, 1, n)[i] = buf[i]
OBVIOUS

Lasts(buf) == {i \in 1 .. Len(buf) : IsLast(buf[i])}

LEMMA VarintSizeIs ==
    ASSUME NEW buf
    PROVE  VarintSize(buf) = IF Lasts(buf) # {} THEN Min(Lasts(buf)) ELSE 0
BY Zenon DEF VarintSize, SelectInSeq, Lasts

(* A varint ends at its first last byte, or is refused.                    *)
LEMMA VarintCut ==
    ASSUME NEW S, NEW buf \in Seq(S), NEW n, n = VarintSize(buf)
    PROVE  n \in 0 .. Len(buf) /\ VarintSize(SubSeq(buf, 1, n)) = n
<1>1. CASE Lasts(buf) = {}
    <2>1. n = 0
        BY <1>1, VarintSizeIs, Zenon
    <2>2. SubSeq(buf, 1, n) = <<>> /\ Lasts(<<>>) = {}
        BY <2>1 DEF Lasts
    <2>3. VarintSize(SubSeq(buf, 1, n)) = 0
        BY <2>2, VarintSizeIs, Zenon
    <2>4. QED
        BY <2>1, <2>3
<1>2. CASE Lasts(buf) # {}
    <2> DEFINE item == SubSeq(buf, 1, n)
    <2>1. Lasts(buf) \in SUBSET Nat /\ n = Min(Lasts(buf))
        BY <1>2, VarintSizeIs DEF Lasts
    <2>2. n \in Lasts(buf) /\ \A i \in Lasts(buf) : n <= i
        BY <1>2, <2>1, MinIsLeast
    <2>3. n \in 1 .. Len(buf) /\ IsLast(buf[n]) /\ n \in 0 .. Len(buf)
        BY <2>2 DEF Lasts
    <2>4. Len(item) = n /\ \A i \in 1 .. n : item[i] = buf[i]
        BY <2>3, FirstBytes
    <2> HIDE DEF item
    <2>5. n \in Lasts(item) /\ Lasts(item) \in SUBSET Nat
        BY <2>3, <2>4 DEF Lasts
    <2>6. \A i \in Lasts(item) : n <= i
        BY <2>2, <2>3, <2>4 DEF Lasts
    <2>7. Min(Lasts(item)) = n
        BY <2>5, <2>6, MinIs
    <2>8. VarintSize(item) = n
        BY <2>5, <2>7, VarintSizeIs
    <2>9. QED
        BY <2>3, <2>8 DEF item
<1>3. QED
    BY <1>1, <1>2

(* Where a boundary is in a buffer.                                        *)
Starts(x, buf) == {i \in 0 .. Len(buf) - Len(x) : SubSeq(buf, i + 1, i + Len(x)) = x}

LEMMA ThroughIs ==
    ASSUME NEW x, NEW buf
    PROVE  Through(x, buf) = IF Starts(x, buf) = {} THEN Len(buf) ELSE Min(Starts(x, buf)) + Len(x)
BY Zenon DEF Through, Starts

(* A sequence that ends with another one has it as a suffix.               *)
LEMMA EndsWith ==
    ASSUME NEW S, NEW x \in Seq(S), NEW item \in Seq(S), NEW k \in Nat, Len(item) = k + Len(x),
           SubSeq(item, k + 1, k + Len(x)) = x
    PROVE  IsSuffix(x, item)
<1> DEFINE n == Len(x)
<1>1. n \in Nat /\ Len(item) = k + n /\ n <= Len(item)
    OBVIOUS
<1>2. \A i \in 1 .. n : x[i] = item[k + i]
    <2>1. \A i \in 1 .. n : SubSeq(item, k + 1, k + n)[i] = item[k + i]
        BY <1>1
    <2>2. QED
        BY <2>1
<1>3. \A i \in 1 .. n : Reverse(x)[i] = Reverse(item)[i]
    <2>1. SUFFICES ASSUME NEW i \in 1 .. n PROVE Reverse(x)[i] = Reverse(item)[i]
        OBVIOUS
    <2>2. Reverse(x)[i] = x[n - i + 1]
        BY DEF Reverse
    <2>3. i \in 1 .. Len(item) /\ n - i + 1 \in 1 .. n /\ k + (n - i + 1) = Len(item) - i + 1
        BY <1>1
    <2>4. Reverse(item)[i] = item[Len(item) - i + 1]
        BY <2>3 DEF Reverse
    <2>5. x[n - i + 1] = item[k + (n - i + 1)]
        BY <1>2, <2>3
    <2>6. QED
        BY <2>2, <2>3, <2>4, <2>5
<1>4. Reverse(x) \in Seq(S) /\ Len(Reverse(x)) = n
    BY <1>1 DEF Reverse
<1>5. Reverse(item) \in Seq(S) /\ Len(Reverse(item)) = k + n
    BY <1>1 DEF Reverse
<1> DEFINE a == Reverse(x)
           b == Reverse(item)
<1> HIDE DEF a, b, n
<1>6. SubSeq(a, 1, n) = SubSeq(b, 1, n)
    <2>1. SubSeq(a, 1, n) \in Seq(S) /\ Len(SubSeq(a, 1, n)) = n
          /\ \A i \in 1 .. n : SubSeq(a, 1, n)[i] = a[i]
        BY <1>1, <1>4 DEF a
    <2>2. SubSeq(b, 1, n) \in Seq(S) /\ Len(SubSeq(b, 1, n)) = n
          /\ \A i \in 1 .. n : SubSeq(b, 1, n)[i] = b[i]
        BY <1>1, <1>5 DEF b
    <2>3. \A i \in 1 .. n : SubSeq(a, 1, n)[i] = SubSeq(b, 1, n)[i]
        BY <1>3, <2>1, <2>2 DEF a, b
    <2>4. QED
        BY <2>1, <2>2, <2>3, SeqEqual
<1>7. QED
    BY <1>1, <1>4, <1>5, <1>6 DEF IsSuffix, IsPrefix, a, b

-----------------------------------------------------------------------------
(* A string ends with its first boundary, if there is one; then it is not  *)
(* empty, and its end is where it was, whatever followed it.               *)
LEMMA ThroughCut ==
    ASSUME NEW S, NEW buf \in Seq(S), NEW x \in Seq(S), x # <<>>, NEW n, n = Through(x, buf)
    PROVE  /\ n \in 0 .. Len(buf)
           /\ buf # <<>> => n # 0
           /\ Through(x, SubSeq(buf, 1, n)) = n
           /\ n < Len(buf) => IsSuffix(x, SubSeq(buf, 1, n))
<1>1. Len(x) \in Nat \ {0} /\ Len(buf) \in Nat /\ Starts(x, buf) \in SUBSET Nat
    BY DEF Starts
<1>2. CASE Starts(x, buf) = {}
    <2>1. n = Len(buf)
        BY <1>2, ThroughIs, Zenon
    <2>2. SubSeq(buf, 1, n) = buf
        BY <2>1, SubSeqFull
    <2>3. Through(x, SubSeq(buf, 1, n)) = n
        BY <2>2, Zenon
    <2>4. n \in 0 .. Len(buf) /\ (buf # <<>> => n # 0) /\ ~(n < Len(buf))
        BY <1>1, <2>1
    <2>5. QED
        BY <2>3, <2>4
<1>3. CASE Starts(x, buf) # {}
    <2> DEFINE k    == Min(Starts(x, buf))
               item == SubSeq(buf, 1, n)
               l    == Len(x)
    <2>1. k \in Starts(x, buf) /\ \A i \in Starts(x, buf) : k <= i
        BY <1>1, <1>3, MinIsLeast
    <2>2. n = k + l
        BY <1>3, ThroughIs, Zenon
    <2> HIDE DEF k
    <2>3. k \in 0 .. Len(buf) - l /\ SubSeq(buf, k + 1, k + l) = x
        BY <2>1 DEF Starts
    <2>4. k \in Nat /\ l \in Nat /\ n \in 0 .. Len(buf) /\ n # 0
        BY <1>1, <2>2, <2>3
    <2>5. /\ item \in Seq(S) /\ Len(item) = k + l
          /\ \A i \in 1 .. n : item[i] = buf[i]
        BY <2>2, <2>4, FirstBytes
    <2>6. \A i \in 0 .. k : SubSeq(item, i + 1, i + l) = SubSeq(buf, i + 1, i + l)
        <3>1. SUFFICES ASSUME NEW i \in 0 .. k
                       PROVE  SubSeq(item, i + 1, i + l) = SubSeq(buf, i + 1, i + l)
            OBVIOUS
        <3>2. \A j \in i + 1 .. i + l : j \in 1 .. n /\ j \in 1 .. Len(item) /\ j \in 1 .. Len(buf)
            BY <2>2, <2>4, <2>5
        <3> HIDE DEF item, l
        <3>3. \A j \in i + 1 .. i + l : item[j] = buf[j]
            BY <2>5, <3>2
        <3>4. \A j \in 1 .. l : i + j \in i + 1 .. i + l
            BY <2>4
        <3>5. SubSeq(item, i + 1, i + l) = [j \in 1 .. l |-> item[i + j]]
            BY <2>4
        <3>6. SubSeq(buf, i + 1, i + l) = [j \in 1 .. l |-> buf[i + j]]
            BY <2>4
        <3>7. QED
            BY <3>3, <3>4, <3>5, <3>6
    <2>7. SubSeq(item, k + 1, k + l) = x
        <3>1. k \in 0 .. k
            BY <2>4
        <3>2. QED
            BY <2>3, <2>6, <3>1
    <2> HIDE DEF item
    <2>8. k \in Starts(x, item) /\ Starts(x, item) \in SUBSET Nat
        BY <2>4, <2>5, <2>7 DEF Starts
    <2>9. \A i \in Starts(x, item) : k <= i
        <3>1. SUFFICES ASSUME NEW i \in Starts(x, item), i < k PROVE FALSE
            BY <2>4, <2>8
        <3>2. i \in 0 .. k /\ i \in 0 .. Len(buf) - l /\ SubSeq(item, i + 1, i + l) = x
            BY <2>3, <3>1 DEF Starts
        <3>3. SubSeq(buf, i + 1, i + l) = x
            BY <2>6, <3>2
        <3>4. i \in Starts(x, buf)
            BY <3>2, <3>3 DEF Starts
        <3>5. QED
            BY <2>1, <2>4, <3>1, <3>2, <3>4
    <2>10. Min(Starts(x, item)) = k
        BY <2>8, <2>9, MinIs
    <2>11. Through(x, item) = n
        BY <2>2, <2>8, <2>10, ThroughIs
    <2>12. IsSuffix(x, item)
        BY <2>4, <2>5, <2>7, EndsWith
    <2>13. QED
        BY <2>4, <2>11, <2>12 DEF item
<1>4. QED
    BY <1>2, <1>3

(* A filter that is well formed; then one item of it.                      *)
GoodFilter(f) ==
    f.kind = "string" => f.boundary \in Seq(Char) /\ (f.boundary = <<>> => f.const)

(* The size that is found in a buffer is one of an item in it: it is found *)
(* again in the item, and is not zero but for a varint that does not end.  *)
LEMMA ItemCut ==
    ASSUME NEW f, GoodFilter(f), NEW buf \in Seq(Char), NEW n, n = ItemSize(f, buf)
    PROVE  /\ n \in 0 .. Len(buf)
           /\ buf # <<>> /\ n = 0 => f.kind = "varint"
           /\ ItemSize(f, SubSeq(buf, 1, n)) = n
           /\ f.kind = "string" /\ Bounded(f) /\ n < Len(buf)
                 => IsSuffix(f.boundary, SubSeq(buf, 1, n))
<1>1. CASE f.kind = "varint"
    <2>1. n = VarintSize(buf) /\ \A b : ItemSize(f, b) = VarintSize(b)
        BY <1>1 DEF ItemSize
    <2>2. QED
        BY <1>1, <2>1, VarintCut
<1>2. CASE f.kind = "string" /\ Bounded(f)
    <2>1. n = Through(f.boundary, buf) /\ \A b : ItemSize(f, b) = Through(f.boundary, b)
        BY <1>2 DEF ItemSize, StringSize
    <2>2. f.boundary \in Seq(Char) /\ f.boundary # <<>>
        <3>1. Len(<<>>) = 0
            OBVIOUS
        <3>2. QED
            BY <1>2, <3>1 DEF GoodFilter, Bounded, IsBuilt
    <2>3. QED
        BY <1>2, <2>1, <2>2, ThroughCut
<1>3. CASE f.kind # "varint" /\ ~(f.kind = "string" /\ Bounded(f))
    <2>1. n = Len(buf) /\ \A b : ItemSize(f, b) = Len(b)
        BY <1>3 DEF ItemSize, StringSize
    <2>2. SubSeq(buf, 1, n) = buf
        BY <2>1, SubSeqFull
    <2>3. ItemSize(f, SubSeq(buf, 1, n)) = n
        BY <2>2, Zenon
    <2>4. n \in 0 .. Len(buf) /\ (buf # <<>> => n # 0) /\ ~(n < Len(buf))
        BY <2>1
    <2>5. QED
        BY <2>3, <2>4
<1>4. QED
    BY <1>1, <1>2, <1>3

-----------------------------------------------------------------------------
(***************************************************************************)
(* The invariant: the items so far are the first bytes, cut in items that  *)
(* are whole; and while bytes are left, each one is bounded, the last too. *)
(***************************************************************************)
Piece  == {[bytes |-> b, read |-> ReadValue(filter, b)] : b \in Seq(Char)}
Chunks == [i \in DOMAIN items |-> items[i].bytes]

TypesOfItems == GoodFilter(filter) /\ bytes \in Seq(Char) /\ items \in Seq(Piece)

TakenIsFirst == Len(Taken) <= Len(bytes) /\ Taken = SubSeq(bytes, 1, Len(Taken))

AllAtEnd == st = "end" => Len(Taken) = Len(bytes)

ItemsAreWhole ==
    \A i \in DOMAIN items :
        /\ bytes # <<>> => items[i].bytes # <<>>
        /\ ItemSize(filter, items[i].bytes) = Len(items[i].bytes)
        /\ filter.kind = "string" /\ Bounded(filter) /\ i < Len(items)
              => IsSuffix(filter.boundary, items[i].bytes)

LastIsBounded ==
    filter.kind = "string" /\ Bounded(filter) /\ Len(Taken) < Len(bytes) =>
        \A i \in DOMAIN items : IsSuffix(filter.boundary, items[i].bytes)

CutInv == TypesOfItems /\ TakenIsFirst /\ AllAtEnd /\ ItemsAreWhole /\ LastIsBounded

(* What is taken and what is left, by the length of what is taken.         *)
LEMMA TakenTypes ==
    ASSUME TypesOfItems
    PROVE  Chunks \in Seq(Seq(Char)) /\ Taken = FlattenSeq(Chunks) /\ Taken \in Seq(Char)
<1>1. Taken = FlattenSeq(Chunks)
    BY DEF Taken, Chunks
<1>2. items \in Seq(Piece) /\ \A p \in Piece : p.bytes \in Seq(Char)
    BY DEF TypesOfItems, Piece
<1> HIDE DEF Piece
<1>3. DOMAIN items = 1 .. Len(items) /\ Len(items) \in Nat
    BY <1>2
<1>4. \A i \in 1 .. Len(items) : items[i].bytes \in Seq(Char)
    BY <1>2
<1>5. Chunks \in Seq(Seq(Char))
    BY <1>3, <1>4 DEF Chunks
<1>6. QED
    BY <1>1, <1>5, FlattenTypes, Zenon

LEMMA CutInit == Init => CutInv
<1>1. SUFFICES ASSUME Init PROVE CutInv
    OBVIOUS
<1>2. PICK in \in Inputs : filter = in.filter /\ bytes = in.bytes
    BY <1>1 DEF Init
<1>3. GoodFilter(filter) /\ bytes \in Seq(Char)
    BY <1>2, InputsAssumption DEF GoodFilter
<1>4. items = <<>> /\ st = "reading" /\ DOMAIN items = {}
    BY <1>1 DEF Init
<1>5. TypesOfItems
    BY <1>3, <1>4 DEF TypesOfItems
<1>6. Chunks = <<>>
    BY <1>4 DEF Chunks
<1>7. Taken = <<>>
    BY <1>5, <1>6, TakenTypes, FlattenEmpty
<1>8. TakenIsFirst
    BY <1>3, <1>7 DEF TakenIsFirst
<1>9. QED
    BY <1>4, <1>5, <1>8 DEF CutInv, AllAtEnd, ItemsAreWhole, LastIsBounded

(* An item more: the bytes that are taken grow by its own.                 *)
LEMMA OneMore ==
    ASSUME TypesOfItems, TakenIsFirst, UNCHANGED <<filter, bytes>>,
           NEW size \in 0 .. Len(Left), NEW item, item = SubSeq(Left, 1, size),
           items' = Append(items, [bytes |-> item, read |-> ReadValue(filter, item)])
    PROVE  /\ TypesOfItems' /\ TakenIsFirst'
           /\ item \in Seq(Char) /\ Len(item) = size
           /\ Len(Taken') = Len(Taken) + size
<1> DEFINE t == Len(Taken)
           p == [bytes |-> item, read |-> ReadValue(filter, item)]
<1>1. /\ bytes \in Seq(Char) /\ items \in Seq(Piece)
      /\ Taken = SubSeq(bytes, 1, t) /\ t \in 0 .. Len(bytes)
    BY TakenTypes DEF TypesOfItems, TakenIsFirst
<1>2. Left = SubSeq(bytes, t + 1, Len(bytes))
    BY DEF Left
<1> HIDE DEF t
<1>3. /\ Left \in Seq(Char) /\ Len(Left) = Len(bytes) - t
      /\ \A i \in 1 .. Len(bytes) - t : Left[i] = bytes[t + i]
    BY <1>1, <1>2
<1>4. size \in Nat /\ t + size \in 0 .. Len(bytes)
    BY <1>1, <1>3
<1>5. item \in Seq(Char) /\ Len(item) = size /\ \A i \in 1 .. size : item[i] = bytes[t + i]
    BY <1>3, <1>4
<1>6. p \in Piece
    BY <1>5 DEF Piece
<1>7. Piece' = Piece
    BY DEF Piece, ReadValue, ReadBuffer
<1> HIDE DEF Piece
<1>8. items' \in Seq(Piece')
    BY <1>1, <1>6, <1>7
<1>9. TypesOfItems'
    BY <1>8 DEF TypesOfItems, GoodFilter
<1>10. Chunks' = Append(Chunks, item)
    <2>1. items' = Append(items, p)
        OBVIOUS
    <2>2. p.bytes = item
        OBVIOUS
    <2> HIDE DEF p
    <2> DEFINE n == Len(items)
    <2>3. /\ n \in Nat /\ DOMAIN items = 1 .. n /\ DOMAIN items' = 1 .. n + 1
          /\ items'[n + 1] = p /\ \A i \in 1 .. n : items'[i] = items[i]
        BY <1>1, <1>6, <2>1
    <2>4. Chunks' = [i \in 1 .. n + 1 |-> items'[i].bytes]
        BY <2>3 DEF Chunks
    <2>5. Chunks = [i \in 1 .. n |-> items[i].bytes]
        BY <2>3 DEF Chunks
    <2>6. Chunks \in Seq(Seq(Char))
        BY TakenTypes
    <2> HIDE DEF n
    <2>7. Len(Chunks) = n
        BY <2>3, <2>5, <2>6
    <2>8. Append(Chunks, item) = [i \in 1 .. n + 1 |-> IF i = n + 1 THEN item ELSE Chunks[i]]
        BY <1>5, <2>3, <2>6, <2>7
    <2>9. \A i \in 1 .. n + 1 : items'[i].bytes = IF i = n + 1 THEN item ELSE Chunks[i]
        BY <2>2, <2>3, <2>5
    <2>10. QED
        BY <2>4, <2>8, <2>9
<1>11. Taken' = Taken \o item
    <2>1. Taken' = FlattenSeq(Chunks')
        BY DEF Taken, Chunks
    <2>2. QED
        BY <1>5, <1>10, <2>1, TakenTypes, FlattenAppend
<1>12. Len(Taken') = t + size /\ Taken' = SubSeq(bytes, 1, t + size)
    <2> DEFINE b == SubSeq(bytes, 1, t + size)
    <2>1. /\ Taken \in Seq(Char) /\ Len(Taken) = t
          /\ \A i \in 1 .. t : Taken[i] = bytes[i]
        <3>1. Taken \in Seq(Char) /\ Len(Taken) = t
            BY TakenTypes DEF t
        <3>2. \A i \in 1 .. t : SubSeq(bytes, 1, t)[i] = bytes[i]
            BY <1>1, FirstBytes
        <3>3. QED
            BY <1>1, <3>1, <3>2, Zenon
    <2>2. /\ Taken \o item \in Seq(Char) /\ Len(Taken \o item) = t + size
          /\ \A i \in 1 .. t + size :
                (Taken \o item)[i] = IF i <= t THEN Taken[i] ELSE item[i - t]
        <3>1. /\ Taken \o item \in Seq(Char) /\ Len(Taken \o item) = Len(Taken) + Len(item)
              /\ \A i \in 1 .. Len(Taken) + Len(item) :
                    (Taken \o item)[i] = IF i <= Len(Taken) THEN Taken[i] ELSE item[i - Len(Taken)]
            <4>1. Taken \in Seq(Char) /\ item \in Seq(Char)
                BY <1>5, <2>1, Zenon
            <4> HIDE DEF t
            <4>2. QED
                BY <4>1, ConcatProperties
        <3>2. Len(Taken) = t /\ Len(item) = size
            BY <1>5, <2>1
        <3>3. QED
            BY <3>1, <3>2, Zenon
    <2>3. b \in Seq(Char) /\ Len(b) = t + size /\ \A i \in 1 .. t + size : b[i] = bytes[i]
        BY <1>1, <1>4, FirstBytes
    <2> DEFINE c == Taken \o item
    <2> HIDE DEF b, c
    <2>4. \A i \in 1 .. t + size : c[i] = b[i]
        <3>1. SUFFICES ASSUME NEW i \in 1 .. t + size PROVE c[i] = b[i]
            OBVIOUS
        <3>2. CASE i <= t
            BY <1>1, <2>1, <2>2, <2>3, <3>2 DEF c
        <3>3. CASE ~(i <= t)
            <4>1. i - t \in 1 .. size /\ t + (i - t) = i
                BY <1>1, <1>4, <3>3
            <4>2. item[i - t] = bytes[i]
                BY <1>5, <4>1
            <4>3. QED
                BY <2>2, <2>3, <3>3, <4>2 DEF c
        <3>4. QED
            BY <3>2, <3>3
    <2>5. c = b
        BY <1>4, <2>2, <2>3, <2>4, SeqEqual DEF c
    <2>6. QED
        BY <1>11, <2>2, <2>5 DEF b, c
<1>13. TakenIsFirst'
    BY <1>4, <1>12 DEF TakenIsFirst
<1>14. QED
    BY <1>5, <1>9, <1>12, <1>13 DEF t

LEMMA ReadItemCuts == CutInv /\ ReadItem => CutInv'
<1>1. SUFFICES ASSUME CutInv, ReadItem PROVE CutInv'
    OBVIOUS
<1> DEFINE size == ItemSize(filter, Left)
           item == SubSeq(Left, 1, size)
           p    == [bytes |-> item, read |-> ReadValue(filter, item)]
           n    == Len(items)
           t    == Len(Taken)
<1>2. /\ TypesOfItems /\ TakenIsFirst /\ ItemsAreWhole /\ LastIsBounded
      /\ GoodFilter(filter) /\ bytes \in Seq(Char) /\ items \in Seq(Piece)
    BY <1>1 DEF CutInv, TypesOfItems
<1>3. /\ st = "reading" /\ (items = <<>> \/ Left # <<>>)
      /\ filter' = filter /\ bytes' = bytes
      /\ IF filter.kind = "varint" /\ size = 0
         THEN st' = "error" /\ items' = items
         ELSE items' = Append(items, p) /\ st' = st
    BY <1>1 DEF ReadItem
<1>4. t \in 0 .. Len(bytes) /\ Left = SubSeq(bytes, t + 1, Len(bytes))
    BY <1>2, TakenTypes DEF TakenIsFirst, Left
<1> HIDE DEF t
<1>5. Left \in Seq(Char) /\ Len(Left) = Len(bytes) - t
    BY <1>2, <1>4
<1>6. /\ size \in 0 .. Len(Left)
      /\ Left # <<>> /\ size = 0 => filter.kind = "varint"
      /\ ItemSize(filter, item) = size
      /\ filter.kind = "string" /\ Bounded(filter) /\ size < Len(Left)
            => IsSuffix(filter.boundary, item)
    <2>1. size = ItemSize(filter, Left)
        OBVIOUS
    <2> HIDE DEF size
    <2>2. /\ size \in 0 .. Len(Left)
          /\ Left # <<>> /\ size = 0 => filter.kind = "varint"
          /\ ItemSize(filter, SubSeq(Left, 1, size)) = size
          /\ filter.kind = "string" /\ Bounded(filter) /\ size < Len(Left)
                => IsSuffix(filter.boundary, SubSeq(Left, 1, size))
        BY <1>2, <1>5, <2>1, ItemCut, Zenon
    <2>3. QED
        BY <2>2, Zenon
<1>7. Left = <<>> => t = Len(bytes)
    <2>1. Len(bytes) \in Nat /\ t \in 0 .. Len(bytes) /\ Len(Left) = Len(bytes) - t
        BY <1>2, <1>4, <1>5
    <2>2. Left = <<>> => Len(Left) = 0
        <3>1. Len(<<>>) = 0
            OBVIOUS
        <3>2. QED
            BY <3>1, Zenon
    <2> DEFINE m == Len(bytes)
               k == Len(Left)
    <2> HIDE DEF m, k
    <2>3. m \in Nat /\ t \in 0 .. m /\ k = m - t
        BY <2>1, Zenon DEF m, k
    <2>4. k = 0 => t = m
        BY <2>3
    <2>5. QED
        BY <2>2, <2>4, Zenon DEF m, k
<1>8. bytes # <<>> => Left # <<>>
    <2>1. CASE items = <<>>
        <3>1. Chunks = <<>>
            BY <2>1 DEF Chunks
        <3>2. Taken = <<>>
            BY <1>2, <3>1, TakenTypes, FlattenEmpty
        <3>3. t = 0
            BY <3>2 DEF t
        <3>4. QED
            BY <1>2, <1>7, <3>3
    <2>2. QED
        BY <1>3, <2>1
<1>9. CASE filter.kind = "varint" /\ size = 0
    <2>1. st' = "error" /\ UNCHANGED <<filter, bytes, items>>
        BY <1>3, <1>9
    <2>2. Taken' = Taken /\ TypesOfItems' /\ ItemsAreWhole'
        BY <1>2, <2>1 DEF Taken, TypesOfItems, Piece, ReadValue, ReadBuffer, GoodFilter, ItemsAreWhole
    <2>3. TakenIsFirst' /\ AllAtEnd' /\ LastIsBounded'
        BY <1>2, <2>1, <2>2 DEF TakenIsFirst, AllAtEnd, LastIsBounded
    <2>4. QED
        BY <2>2, <2>3 DEF CutInv
<1>10. CASE ~(filter.kind = "varint" /\ size = 0)
    <2>1. items' = Append(items, p) /\ st' # "end"
        BY <1>3, <1>10
    <2> HIDE DEF size
    <2>2. /\ TypesOfItems' /\ TakenIsFirst' /\ item \in Seq(Char) /\ Len(item) = size
          /\ Len(Taken') = t + size
        BY <1>2, <1>3, <1>6, <2>1, OneMore DEF t
    <2>3. p \in Piece /\ p.bytes = item
        BY <2>2 DEF Piece
    <2> HIDE DEF p, Piece, item
    <2>4. /\ n \in Nat /\ DOMAIN items = 1 .. n /\ DOMAIN items' = 1 .. n + 1 /\ Len(items') = n + 1
          /\ items'[n + 1] = p /\ \A i \in 1 .. n : items'[i] = items[i]
        BY <1>2, <2>1, <2>3
    <2> HIDE DEF n
    <2>5. bytes # <<>> => item # <<>>
        BY <1>6, <1>8, <1>10, <2>2
    <2>6. filter.kind = "string" /\ Bounded(filter) =>
             \A i \in 1 .. n : IsSuffix(filter.boundary, items[i].bytes)
        <3>1. Left # <<>> => t < Len(bytes)
            BY <1>4, <1>5
        <3>2. CASE Left # <<>>
            BY <1>2, <2>4, <3>1, <3>2 DEF LastIsBounded, t
        <3>3. CASE items = <<>>
            BY <2>4, <3>3 DEF n
        <3>4. QED
            BY <1>3, <3>2, <3>3
    <2>7. ItemsAreWhole'
        <3>1. SUFFICES ASSUME NEW i \in 1 .. n + 1
                       PROVE  /\ bytes # <<>> => items'[i].bytes # <<>>
                              /\ ItemSize(filter, items'[i].bytes) = Len(items'[i].bytes)
                              /\ filter.kind = "string" /\ Bounded(filter) /\ i < n + 1
                                    => IsSuffix(filter.boundary, items'[i].bytes)
            <4>1. \A b : ItemSize(filter', b) = ItemSize(filter, b)
                BY <1>3
            <4>2. Bounded(filter') <=> Bounded(filter)
                BY <1>3
            <4>3. QED
                BY <1>3, <2>4, <4>1, <4>2 DEF ItemsAreWhole
        <3>2. CASE i = n + 1
            BY <1>6, <2>2, <2>3, <2>4, <2>5, <3>2
        <3>3. CASE i # n + 1
            <4>1. i \in 1 .. n
                BY <2>4, <3>3
            <4>2. QED
                BY <1>2, <2>4, <2>6, <4>1 DEF ItemsAreWhole
        <3>4. QED
            BY <3>2, <3>3
    <2>8. LastIsBounded'
        <3>1. SUFFICES ASSUME filter.kind = "string", Bounded(filter), t + size < Len(bytes),
                              NEW i \in 1 .. n + 1
                       PROVE  IsSuffix(filter.boundary, items'[i].bytes)
            BY <1>3, <2>2, <2>4 DEF LastIsBounded
        <3>2. IsSuffix(filter.boundary, item)
            BY <1>4, <1>5, <1>6, <3>1
        <3>3. CASE i = n + 1
            BY <2>3, <2>4, <3>2, <3>3
        <3>4. CASE i # n + 1
            <4>1. i \in 1 .. n
                BY <2>4, <3>4
            <4>2. QED
                BY <2>4, <2>6, <3>1, <4>1
        <3>5. QED
            BY <3>3, <3>4
    <2>9. AllAtEnd'
        BY <2>1 DEF AllAtEnd
    <2>10. QED
        BY <2>2, <2>7, <2>8, <2>9 DEF CutInv
<1>11. QED
    BY <1>9, <1>10

(* The array ends, or nothing changes.                                     *)
LEMMA OthersCut == CutInv /\ (NoMoreItems \/ UNCHANGED vars) => CutInv'
<1>1. SUFFICES ASSUME CutInv, NoMoreItems \/ UNCHANGED vars PROVE CutInv'
    OBVIOUS
<1>2. UNCHANGED <<filter, bytes, items>> /\ (st' = "end" => st = "end" \/ Left = <<>>)
    BY <1>1 DEF NoMoreItems, vars
<1>3. Taken' = Taken /\ TypesOfItems' /\ ItemsAreWhole'
    BY <1>1, <1>2 DEF CutInv, Taken, TypesOfItems, Piece, ReadValue, ReadBuffer, GoodFilter, ItemsAreWhole
<1>4. TakenIsFirst' /\ LastIsBounded'
    BY <1>1, <1>2, <1>3 DEF CutInv, TakenIsFirst, LastIsBounded
<1>5. Left = <<>> => Len(Taken) = Len(bytes)
    <2>1. bytes \in Seq(Char) /\ Len(Taken) \in 0 .. Len(bytes)
        BY <1>1, TakenTypes DEF CutInv, TypesOfItems, TakenIsFirst
    <2>2. Len(Left) = Len(bytes) - Len(Taken)
        BY <2>1 DEF Left
    <2>3. QED
        BY <2>1, <2>2
<1>6. AllAtEnd'
    BY <1>1, <1>2, <1>3, <1>5 DEF CutInv, AllAtEnd
<1>7. QED
    BY <1>3, <1>4, <1>6 DEF CutInv

THEOREM CutAlways == Spec => []CutInv
<1>1. CutInv /\ [Next]_vars => CutInv'
    BY ReadItemCuts, OthersCut, Zenon DEF Next
<1>2. QED
    BY CutInit, <1>1, PTL DEF Spec

(* Items that a filter makes of the bytes of an array are all of the bytes *)
(* in their order, none is empty, and each one is found whole when it is   *)
(* read alone, however wide a byte is and whatever follows the item.       *)
THEOREM ItemsAreSplitAlways == Spec => []ItemsAreSplit
<1>1. CutInv => ItemsAreSplit
    <2>1. SUFFICES ASSUME CutInv PROVE ItemsAreSplit
        OBVIOUS
    <2>2. ASSUME st = "end" PROVE Taken = bytes
        <3>1. Len(Taken) = Len(bytes) /\ Taken = SubSeq(bytes, 1, Len(Taken)) /\ bytes \in Seq(Char)
            BY <2>1, <2>2 DEF CutInv, AllAtEnd, TakenIsFirst, TypesOfItems
        <3>2. QED
            BY <3>1, SubSeqFull
    <2>3. QED
        BY <2>1, <2>2 DEF CutInv, ItemsAreWhole, ItemsAreSplit
<1>2. QED
    BY CutAlways, <1>1, PTL

-----------------------------------------------------------------------------
(***************************************************************************)
(* The values of strings.                                                  *)
(***************************************************************************)
(* A suffix is what a sequence ends with.                                  *)
LEMMA SuffixEnds ==
    ASSUME NEW S, NEW x \in Seq(S), NEW buf \in Seq(S), IsSuffix(x, buf)
    PROVE  /\ Len(x) <= Len(buf)
           /\ SubSeq(buf, 1, Len(buf) - Len(x)) \o x = buf
<1> DEFINE l == Len(x)
           n == Len(buf)
           a == Reverse(x)
           b == Reverse(buf)
<1>1. l \in Nat /\ n \in Nat
    OBVIOUS
<1>2. a \in Seq(S) /\ Len(a) = l /\ \A i \in 1 .. l : a[i] = x[l - i + 1]
    BY <1>1 DEF Reverse
<1>3. b \in Seq(S) /\ Len(b) = n /\ \A i \in 1 .. n : b[i] = buf[n - i + 1]
    BY <1>1 DEF Reverse
<1>4. Len(a) <= Len(b) /\ SubSeq(a, 1, Len(a)) = SubSeq(b, 1, Len(a))
    BY Zenon DEF IsSuffix, IsPrefix
<1> HIDE DEF a, b
<1>5. l <= n
    BY <1>2, <1>3, <1>4
<1>6. \A i \in 1 .. l : a[i] = b[i]
    <2>1. l \in 0 .. Len(a) /\ l \in 0 .. Len(b)
        BY <1>1, <1>2, <1>3, <1>5
    <2>2. \A i \in 1 .. l : SubSeq(a, 1, l)[i] = a[i]
        BY <1>2, <2>1, FirstBytes
    <2>3. \A i \in 1 .. l : SubSeq(b, 1, l)[i] = b[i]
        BY <1>3, <2>1, FirstBytes
    <2>4. SubSeq(a, 1, l) = SubSeq(b, 1, l)
        BY <1>2, <1>4
    <2>5. QED
        BY <2>2, <2>3, <2>4, Zenon
<1>7. \A i \in 1 .. l : x[i] = buf[(n - l) + i]
    <2>1. SUFFICES ASSUME NEW i \in 1 .. l PROVE x[i] = buf[(n - l) + i]
        OBVIOUS
    <2>2. l - i + 1 \in 1 .. l /\ l - i + 1 \in 1 .. n
        BY <1>1, <1>5
    <2>3. l - (l - i + 1) + 1 = i /\ n - (l - i + 1) + 1 = (n - l) + i
        BY <1>1
    <2>4. a[l - i + 1] = x[i] /\ b[l - i + 1] = buf[(n - l) + i]
        BY <1>2, <1>3, <2>2, <2>3
    <2>5. QED
        BY <1>6, <2>2, <2>4
<1> DEFINE v == SubSeq(buf, 1, n - l)
           c == v \o x
<1>8. n - l \in 0 .. n
    BY <1>1, <1>5
<1>9. v \in Seq(S) /\ Len(v) = n - l /\ \A i \in 1 .. n - l : v[i] = buf[i]
    BY <1>8, FirstBytes
<1> HIDE DEF v
<1>10. c \in Seq(S) /\ Len(c) = n /\ \A i \in 1 .. n : c[i] = IF i <= n - l THEN v[i] ELSE x[i - (n - l)]
    <2>1. /\ c \in Seq(S) /\ Len(c) = Len(v) + l
          /\ \A i \in 1 .. Len(v) + l : c[i] = IF i <= Len(v) THEN v[i] ELSE x[i - Len(v)]
        BY <1>9, ConcatProperties, Zenon
    <2>2. Len(v) = n - l /\ (n - l) + l = n
        BY <1>1, <1>9
    <2> HIDE DEF c, n, l
    <2>3. QED
        BY <2>1, <2>2
<1> HIDE DEF c
<1>11. \A i \in 1 .. n : c[i] = buf[i]
    <2>1. SUFFICES ASSUME NEW i \in 1 .. n PROVE c[i] = buf[i]
        OBVIOUS
    <2>2. CASE i <= n - l
        BY <1>8, <1>9, <1>10, <2>2
    <2>3. CASE ~(i <= n - l)
        <3>1. i - (n - l) \in 1 .. l /\ (n - l) + (i - (n - l)) = i
            BY <1>1, <1>8, <2>3
        <3>2. x[i - (n - l)] = buf[i]
            BY <1>7, <3>1
        <3>3. QED
            BY <1>10, <2>3, <3>2
    <2>4. QED
        BY <2>2, <2>3
<1>12. c = buf
    BY <1>1, <1>10, <1>11, SeqEqual
<1>13. QED
    BY <1>5, <1>12 DEF c, v

(* What is in the first bytes of a buffer is in the buffer, there.         *)
LEMMA SamePlace ==
    ASSUME NEW S, NEW buf \in Seq(S), NEW n \in 0 .. Len(buf), NEW i \in Nat, NEW l \in Nat,
           i + l <= n
    PROVE  SubSeq(SubSeq(buf, 1, n), i + 1, i + l) = SubSeq(buf, i + 1, i + l)
<1> DEFINE v == SubSeq(buf, 1, n)
<1>1. v \in Seq(S) /\ Len(v) = n /\ \A j \in 1 .. n : v[j] = buf[j]
    BY FirstBytes
<1> HIDE DEF v
<1>2. \A j \in 1 .. l : i + j \in 1 .. n
    OBVIOUS
<1>3. SubSeq(v, i + 1, i + l) = [j \in 1 .. l |-> v[i + j]]
    OBVIOUS
<1>4. SubSeq(buf, i + 1, i + l) = [j \in 1 .. l |-> buf[i + j]]
    OBVIOUS
<1>5. QED
    BY <1>1, <1>2, <1>3, <1>4 DEF v

(* The string that is read of a whole item is the item but its boundary.   *)
LEMMA StringIsRight ==
    ASSUME NEW f, GoodFilter(f), f.kind = "string", NEW buf \in Seq(Char),
           ItemSize(f, buf) = Len(buf)
    PROVE  StringRight(f, buf, ReadValue(f, buf))
<1> DEFINE x == f.boundary
           l == Len(x)
           r == ReadString(f, buf)
<1>1. ReadValue(f, buf) = r
    BY SubSeqFull DEF ReadValue, ReadBuffer
<1>2. x \in Seq(Char) /\ l \in Nat
    BY DEF GoodFilter
<1>3. CASE IsBuilt(f, 0)
    <2>1. r.st = "ok" /\ r.v = buf /\ ~Bounded(f)
        BY <1>3 DEF ReadString, Ok, Bounded
    <2>2. QED
        BY <1>1, <2>1 DEF StringRight
<1>4. CASE ~IsBuilt(f, 0) /\ ~f.there
    <2>1. QED
        BY <1>4 DEF StringRight
<1>5. CASE ~IsBuilt(f, 0) /\ f.there
    <2>1. Bounded(f)
        BY <1>5 DEF Bounded
    <2>2. x # <<>>
        <3>1. Len(<<>>) = 0
            OBVIOUS
        <3>2. QED
            BY <1>5, <3>1 DEF GoodFilter, IsBuilt
    <2>3. l \in Nat \ {0} /\ Len(buf) \in Nat
        BY <1>2, <2>2
    <2>4. Through(x, buf) = Len(buf)
        BY <2>1 DEF ItemSize, StringSize
    <2>5. Starts(x, buf) \in SUBSET Nat
        BY DEF Starts
    <2> HIDE DEF x, l
    <2>6. \A i \in Starts(x, buf) : i = Len(buf) - l
        <3>1. SUFFICES ASSUME NEW i \in Starts(x, buf) PROVE i = Len(buf) - l
            OBVIOUS
        <3> DEFINE k == Min(Starts(x, buf))
        <3>2. k + l = Len(buf)
            BY <2>4, <3>1, ThroughIs DEF l
        <3>3. k <= i /\ k \in Nat
            BY <2>5, <3>1, MinIsLeast
        <3>4. i \in 0 .. Len(buf) - l
            BY <3>1 DEF Starts, l
        <3>5. QED
            BY <2>3, <3>2, <3>3, <3>4
    <2>7. CASE IsSuffix(x, buf)
        <3> DEFINE n == Len(buf) - l
                   v == SubSeq(buf, 1, n)
        <3>1. r.st = "ok" /\ r.v = v
            BY <1>5, <2>7 DEF ReadString, Ok, x, l
        <3>2. v \o x = buf /\ l <= Len(buf)
            BY <1>2, <2>7, SuffixEnds DEF l
        <3>3. n \in 0 .. Len(buf) /\ Len(v) = n
            BY <2>3, <3>2, FirstBytes
        <3> HIDE DEF n
        <3>4. ASSUME NEW i \in 0 .. n - l PROVE SubSeq(v, i + 1, i + l) # x
            <4>1. i \in Nat /\ i + l <= n /\ i \in 0 .. Len(buf) - l
                BY <2>3, <3>3
            <4>2. SubSeq(v, i + 1, i + l) = SubSeq(buf, i + 1, i + l)
                BY <2>3, <3>3, <4>1, SamePlace
            <4>3. SubSeq(buf, i + 1, i + l) = x => i \in Starts(x, buf)
                BY <4>1 DEF Starts, l
            <4>4. i # Len(buf) - l
                BY <2>3, <3>3 DEF n
            <4>5. QED
                BY <2>6, <4>2, <4>3, <4>4
        <3> HIDE DEF v
        <3>5. QED
            BY <1>1, <3>1, <3>2, <3>3, <3>4 DEF StringRight, x, l
    <2>8. CASE ~IsSuffix(x, buf)
        <3>1. r.st = "ok" /\ r.v = buf
            BY <1>5, <2>8 DEF ReadString, Ok, x
        <3>2. ASSUME NEW i \in 0 .. Len(buf) - l PROVE SubSeq(buf, i + 1, i + l) # x
            <4>1. SUFFICES ASSUME SubSeq(buf, i + 1, i + l) = x PROVE FALSE
                OBVIOUS
            <4>2. i \in Starts(x, buf)
                BY <4>1 DEF Starts, l
            <4>3. i = Len(buf) - l /\ i \in Nat
                BY <2>6, <4>2
            <4>4. Len(buf) = i + l
                BY <2>3, <4>3
            <4>5. IsSuffix(x, buf)
                BY <1>2, <4>1, <4>3, <4>4, EndsWith DEF l
            <4>6. QED
                BY <2>8, <4>5
        <3>3. QED
            BY <1>1, <3>1, <3>2 DEF StringRight, x, l
    <2>9. QED
        BY <2>7, <2>8
<1>6. QED
    BY <1>3, <1>4, <1>5

(* A string that has no boundary, or one that is there, is read with       *)
(* success: it is the item, or all of it but the boundary, and holds no    *)
(* boundary.  The part of ValuesAreRight that is about strings.            *)
THEOREM StringsAreRight ==
    Spec => [](filter.kind = "string" =>
                  \A i \in DOMAIN items : StringRight(filter, items[i].bytes, items[i].read))
<1>1. CutInv => (filter.kind = "string" =>
                   \A i \in DOMAIN items : StringRight(filter, items[i].bytes, items[i].read))
    <2>1. SUFFICES ASSUME CutInv, filter.kind = "string", NEW i \in DOMAIN items
                   PROVE  StringRight(filter, items[i].bytes, items[i].read)
        OBVIOUS
    <2>2. GoodFilter(filter) /\ items \in Seq(Piece)
        BY <2>1 DEF CutInv, TypesOfItems
    <2> HIDE DEF Piece
    <2>3. items[i] \in Piece
        BY <2>1, <2>2
    <2>4. items[i].bytes \in Seq(Char) /\ items[i].read = ReadValue(filter, items[i].bytes)
        BY <2>3 DEF Piece
    <2>5. ItemSize(filter, items[i].bytes) = Len(items[i].bytes)
        BY <2>1 DEF CutInv, ItemsAreWhole
    <2>6. QED
        BY <2>1, <2>2, <2>4, <2>5, StringIsRight
<1>2. QED
    BY CutAlways, <1>1, PTL
=============================================================================
