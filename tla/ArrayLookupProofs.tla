------------------------- MODULE ArrayLookupProofs -------------------------
(***************************************************************************)
(* What the trackers of an array know and what its cache holds, for every  *)
(* array, every distance of the marks and every sequence of calls          *)
(* (filters/array.c, array_index_cache.c, array_slice.c).                  *)
(***************************************************************************)
EXTENDS ArrayLookup, BloomFiltersProofs, FiniteSetTheorems

-----------------------------------------------------------------------------
(***************************************************************************)
(* Where the items of an array are.                                        *)
(***************************************************************************)
(* The offsets of the items of an array, and of its end.                   *)
LEMMA Offsets ==
    ASSUME arr \in Arrays
    PROVE  /\ N \in Nat /\ arr \in ArrayRecord
           /\ \A i \in 0 .. N : Off(i) \in Nat
           /\ ~arr.var => \A i \in Nat : Off(i) \in Nat
           /\ Off(0) = 0
           /\ \A i \in 0 .. (N - 1) : Off(i) < Off(i + 1)
<1>1. arr \in ArrayRecord
    BY ArraysAssumption
<1>2. N \in Nat
    BY <1>1, LenProperties DEF N, ArrayRecord
<1>3. CASE arr.var
    <2>1. /\ arr.start \in Seq(Nat) /\ Len(arr.start) = N + 1 /\ arr.start[1] = 0
          /\ \A i \in 1 .. N : arr.start[i] < arr.start[i + 1]
        BY <1>1, <1>3, ArraysAssumption DEF N, ArrayRecord
    <2>2. \A i \in 0 .. N : arr.start[i + 1] \in Nat
        BY <1>2, <2>1, ElementOfSeq
    <2>3. QED
        BY <1>1, <1>2, <1>3, <2>1, <2>2 DEF Off
<1>4. CASE ~arr.var
    BY <1>1, <1>2, <1>4 DEF Off, ArrayRecord
<1>5. QED
    BY <1>3, <1>4

(* Items that come later start later.                                      *)
LEMMA OffsetsGrow ==
    ASSUME arr \in Arrays, NEW i \in 0 .. N, NEW j \in 0 .. N, i < j
    PROVE  Off(i) < Off(j)
<1> DEFINE S == {k \in Nat : i < k /\ k <= N /\ ~(Off(i) < Off(k))}
<1>1. SUFFICES ASSUME S # {} PROVE FALSE
    BY Offsets
<1>2. Least(S) \in S /\ \A m \in S : Least(S) <= m
    BY <1>1, LeastMark
<1> DEFINE l == Least(S)
<1>3. l \in Nat /\ i < l /\ l <= N /\ ~(Off(i) < Off(l))
    BY <1>2
<1>4. l - 1 \notin S
    BY <1>2, <1>3
<1> HIDE DEF l
<1>5. l - 1 \in 0 .. (N - 1) /\ (l - 1 = i \/ Off(i) < Off(l - 1))
    BY <1>3, <1>4, Offsets
<1>6. Off(l - 1) < Off(l) /\ Off(l - 1) \in Nat /\ Off(l) \in Nat /\ Off(i) \in Nat
    BY <1>3, <1>5, Offsets
<1>7. QED
    BY <1>3, <1>5, <1>6

(* The item at the offset of an item is that item, and its size leads to   *)
(* the next.                                                               *)
LEMMA ItemThere ==
    ASSUME arr \in Arrays, NEW i \in 0 .. N
    PROVE  /\ ItemAt(Off(i)) = i
           /\ i < N => Off(i) + SizeAt(Off(i)) = Off(i + 1)
<1>1. \A j \in 0 .. N : Off(j) = Off(i) => j = i
    <2>1. ASSUME NEW j \in 0 .. N, Off(j) = Off(i), j # i PROVE FALSE
        <3>1. i < j \/ j < i
            BY <2>1, Offsets
        <3>2. Off(i) < Off(j) \/ Off(j) < Off(i)
            BY <3>1, OffsetsGrow
        <3>3. QED
            BY <2>1, <3>2, Offsets
    <2>2. QED
        BY <2>1
<1>2. ItemAt(Off(i)) = i
    BY <1>1 DEF ItemAt
<1>3. ASSUME i < N PROVE Off(i) + SizeAt(Off(i)) = Off(i + 1)
    <2>1. Off(i) \in Nat /\ Off(i + 1) \in Nat
        BY <1>3, Offsets
    <2>2. QED
        BY <1>2, <2>1 DEF SizeAt
<1>4. QED
    BY <1>2, <1>3

(* The mark of an item, and the first item of a mark.                      *)
LEMMA Marks ==
    /\ MarkOf(-1) = -1
    /\ \A i \in Nat : /\ MarkOf(i) \in Nat
                      /\ MarkStart(MarkOf(i)) <= i
                      /\ i < MarkStart(MarkOf(i) + 1)
    /\ \A i \in {-1} \cup Nat :
          MarkOf(i + 1) = IF Marked(i + 1) THEN MarkOf(i) + 1 ELSE MarkOf(i)
    /\ \A i \in Nat : Marked(i) => MarkStart(MarkOf(i)) = i
    /\ \A m \in Nat : MarkStart(m) \in Nat /\ MarkOf(MarkStart(m)) = m
    /\ \A m \in Nat, i \in Nat :
          MarkStart(m) <= i /\ i < MarkStart(m + 1) <=> MarkOf(i) = m
<1> USE ArraysAssumption DEF MarkOf, MarkStart, Marked
<1>1. MarkOf(-1) = -1
    OBVIOUS
<1>2. \A i \in Nat : /\ MarkOf(i) \in Nat
                     /\ MarkStart(MarkOf(i)) <= i
                     /\ i < MarkStart(MarkOf(i) + 1)
    OBVIOUS
<1>3. \A i \in {-1} \cup Nat :
          MarkOf(i + 1) = IF Marked(i + 1) THEN MarkOf(i) + 1 ELSE MarkOf(i)
    OBVIOUS
<1>4. \A i \in Nat : Marked(i) => MarkStart(MarkOf(i)) = i
    OBVIOUS
<1>5. \A m \in Nat : MarkStart(m) \in Nat /\ MarkOf(MarkStart(m)) = m
    OBVIOUS
<1>6. \A m \in Nat, i \in Nat :
          MarkStart(m) <= i /\ i < MarkStart(m + 1) <=> MarkOf(i) = m
    OBVIOUS
<1>7. QED
    BY <1>1, <1>2, <1>3, <1>4, <1>5, <1>6

-----------------------------------------------------------------------------
(***************************************************************************)
(* The book of an array, one item longer.                                  *)
(***************************************************************************)
(* A key has a hash.                                                       *)
LEMMA Keys ==
    ASSUME arr \in Arrays, NEW i \in 0 .. (N - 1)
    PROVE  /\ Key(i) \in Word
           /\ Hash[Key(i)].short \in Short /\ Hash[Key(i)].long \in Long
           /\ Hash[Key(i)].bits \in SUBSET Bit
<1>1. Key(i) \in Word
    <2>1. arr.keys \in Seq(Word) /\ i + 1 \in 1 .. Len(arr.keys)
        BY Offsets DEF ArrayRecord, N
    <2>2. QED
        BY <2>1, ElementOfSeq DEF Key
<1>2. QED
    BY <1>1, BloomAssumption

(* The bits of the items there are.                                        *)
LEMMA Bits ==
    ASSUME arr \in Arrays, NEW S \in SUBSET (0 .. (N - 1))
    PROVE  BitsOf(S) \in SUBSET Bit
BY Keys DEF BitsOf

(* Filters with the bits of one more word in the last of them, an old one  *)
(* or one more that is blank.                                              *)
Opened(F, S, n, m) == IF m = n THEN F ELSE Append(F, Blank(S))
Grown(E, s0, B) == [E EXCEPT ![Len(E)][s0] = @ \cup B]

(* The filters of h groups for the first j items, where gr gives the group *)
(* of each item and pre its prefix.                                        *)
Filters(S, gr, pre, j, h) ==
    [g \in 1 .. h |->
       [s \in S |-> BitsOf({i \in 0 .. (j - 1) : gr[i] = g - 1 /\ pre[i] = s})]]

(* The filters of one more item.                                           *)
LEMMA FiltersGrow ==
    ASSUME arr \in Arrays, NEW n \in 0 .. (N - 1), NEW S, NEW k \in Nat,
           NEW gr \in [0 .. n -> Nat], NEW pre \in [0 .. n -> S],
           \A i \in 0 .. (n - 1) : gr[i] < k,
           k = gr[n] + 1 \/ k = gr[n]
    PROVE  Filters(S, gr, pre, n + 1, gr[n] + 1)
             = Grown(Opened(Filters(S, gr, pre, n, k), S, k, gr[n] + 1),
                     pre[n], Hash[Key(n)].bits)
<1> DEFINE m == gr[n] + 1
           F == Filters(S, gr, pre, n, k)
           G == Filters(S, gr, pre, n + 1, m)
           Old(g, s) == {i \in 0 .. (n - 1) : gr[i] = g - 1 /\ pre[i] = s}
           New(g, s) == {i \in 0 .. n : gr[i] = g - 1 /\ pre[i] = s}
           B == Hash[Key(n)].bits
<1>1. n \in Nat /\ n \in 0 .. n /\ N \in Nat /\ m \in Nat \ {0} /\ (k = m \/ m = k + 1)
    BY Offsets
<1>2. \A g, s : Old(g, s) \in SUBSET (0 .. (N - 1)) /\ New(g, s) \in SUBSET (0 .. (N - 1))
    BY <1>1
<1>3. F = [g \in 1 .. k |-> [s \in S |-> BitsOf(Old(g, s))]]
    BY DEF Filters
<1>4. G = [g \in 1 .. m |-> [s \in S |-> BitsOf(New(g, s))]]
    <2>1. (n + 1) - 1 = n
        BY <1>1
    <2>2. QED
        BY <2>1 DEF Filters
<1>5. ASSUME NEW g \in 1 .. m, NEW s \in S
      PROVE  /\ BitsOf(New(g, s)) = BitsOf(Old(g, s)) \cup (IF g = m /\ s = pre[n] THEN B ELSE {})
             /\ g > k => BitsOf(Old(g, s)) = {}
    <2>1. /\ Old(g, s) \subseteq 0 .. (n - 1) /\ New(g, s) \subseteq 0 .. n
          /\ Old(g, s) = New(g, s) \ {n}
        BY <1>1
    <2>2. n \in New(g, s) <=> g = m /\ s = pre[n]
        BY <1>1
    <2>3. BitsOf(New(g, s))
            = BitsOf(Old(g, s)) \cup (IF n \in New(g, s) THEN B ELSE {})
        <3> DEFINE O == Old(g, s)
                   W == New(g, s)
        <3>1. O \subseteq 0 .. (n - 1) /\ W \subseteq 0 .. n /\ O = W \ {n}
            BY <2>1
        <3> HIDE DEF O, W, B
        <3>2. BitsOf(W) = BitsOf(O) \cup (IF n \in W THEN Hash[Key(n)].bits ELSE {})
            BY <3>1 DEF BitsOf
        <3>3. QED
            BY <3>2 DEF O, W, B
    <2>4. g > k => Old(g, s) = {}
        BY <1>1
    <2>5. BitsOf({}) = {}
        BY DEF BitsOf
    <2>6. QED
        BY <2>2, <2>3, <2>4, <2>5
<1>6. \A g, s : BitsOf(Old(g, s)) \in SUBSET Bit /\ BitsOf(New(g, s)) \in SUBSET Bit
    BY <1>2, Bits
<1> HIDE DEF Old, New
<1>7. F \in [1 .. k -> [S -> SUBSET Bit]] /\ G \in [1 .. m -> [S -> SUBSET Bit]]
    BY <1>3, <1>4, <1>6
<1>8. \A g \in 1 .. m, s \in S :
         G[g][s] = (IF g <= k THEN F[g][s] ELSE {})
                     \cup (IF g = m /\ s = pre[n] THEN B ELSE {})
    <2>1. ASSUME NEW g \in 1 .. m, NEW s \in S
          PROVE  G[g][s] = (IF g <= k THEN F[g][s] ELSE {})
                             \cup (IF g = m /\ s = pre[n] THEN B ELSE {})
        <3>1. G[g][s] = BitsOf(New(g, s))
            BY <1>4
        <3>2. BitsOf(Old(g, s)) = IF g <= k THEN F[g][s] ELSE {}
            BY <1>1, <1>3, <1>5
        <3> DEFINE o == BitsOf(Old(g, s))
                   e == IF g = m /\ s = pre[n] THEN B ELSE {}
        <3>3. BitsOf(New(g, s)) = o \cup e
            BY <1>5
        <3> HIDE DEF o, e
        <3>4. G[g][s] = o \cup e
            BY <3>1, <3>3
        <3>5. o = IF g <= k THEN F[g][s] ELSE {}
            BY <3>2 DEF o
        <3>6. QED
            BY <3>4, <3>5 DEF e
    <2>2. QED
        BY <2>1
<1>9. pre[n] \in S /\ B \in SUBSET Bit
    BY <1>1, Keys
<1> DEFINE s0 == pre[n]
<1> HIDE DEF m, F, G, B, s0
<1>10. s0 \in S /\ B \in SUBSET Bit
    BY <1>9 DEF s0
<1>11. m \in Nat \ {0} /\ (m = k \/ m = k + 1)
    BY <1>1
<1> DEFINE E == Opened(F, S, k, m)
           H == [E EXCEPT ![m][s0] = @ \cup B]
<1>12. Blank(S) \in [S -> SUBSET Bit] /\ \A s \in S : Blank(S)[s] = {}
    BY DEF Blank
<1>13. F \in Seq([S -> SUBSET Bit]) /\ Len(F) = k
    <2> DEFINE X == [S -> SUBSET Bit]
    <2>1. F \in [1 .. k -> X]
        BY <1>7
    <2> HIDE DEF X
    <2>2. F \in Seq(X) /\ Len(F) = k
        BY <2>1
    <2>3. QED
        BY <2>2 DEF X
<1>14. /\ E \in [1 .. m -> [S -> SUBSET Bit]] /\ Len(E) = m
       /\ \A g \in 1 .. m : E[g] = IF g <= k THEN F[g] ELSE Blank(S)
    <2>1. CASE m = k
        BY <1>7, <1>13, <2>1 DEF Opened
    <2>2. CASE m = k + 1
        <3>1. E = Append(F, Blank(S))
            BY <2>2 DEF Opened
        <3> HIDE DEF E
        <3>2. /\ E \in Seq([S -> SUBSET Bit]) /\ Len(E) = k + 1
              /\ \A g \in 1 .. k : E[g] = F[g]
              /\ E[k + 1] = Blank(S)
            BY <1>12, <1>13, <3>1, AppendProperties
        <3>3. E \in [1 .. Len(E) -> [S -> SUBSET Bit]]
            BY <3>2, LenProperties
        <3>4. QED
            BY <2>2, <3>2, <3>3
    <2>3. QED
        BY <1>11, <2>1, <2>2
<1> HIDE DEF E
<1>15. /\ H \in [1 .. m -> [S -> SUBSET Bit]]
       /\ \A g \in 1 .. m, s \in S :
             H[g][s] = E[g][s] \cup (IF g = m /\ s = s0 THEN B ELSE {})
    BY <1>10, <1>11, <1>14
<1> HIDE DEF H
<1>16. ASSUME NEW g \in 1 .. m, NEW s \in S PROVE H[g][s] = G[g][s]
    <2>1. E[g][s] = IF g <= k THEN F[g][s] ELSE {}
        BY <1>12, <1>14
    <2>2. G[g][s] = E[g][s] \cup (IF g = m /\ s = s0 THEN B ELSE {})
        BY <1>8, <2>1, Zenon DEF s0
    <2>3. H[g][s] = E[g][s] \cup (IF g = m /\ s = s0 THEN B ELSE {})
        BY <1>15, Zenon
    <2>4. QED
        BY <2>2, <2>3, Zenon
<1>17. \A g \in 1 .. m : H[g] = G[g]
    BY <1>7, <1>15, <1>16
<1>18. H = G
    <2> DEFINE X == [S -> SUBSET Bit]
    <2>1. G \in [1 .. m -> X] /\ H \in [1 .. m -> X]
        BY <1>7, <1>15
    <2> HIDE DEF X
    <2>2. H = [g \in 1 .. m |-> H[g]] /\ G = [g \in 1 .. m |-> G[g]]
        BY <2>1, Zenon
    <2>3. QED
        BY <1>17, <2>2, Zenon
<1>19. G = Grown(E, s0, B)
    BY <1>14, <1>18 DEF H, Grown
<1>20. QED
    BY <1>19 DEF m, F, G, B, s0, E

(* As many filters as there are groups.                                    *)
LEMMA FiltersLength ==
    ASSUME NEW S, NEW gr, NEW pre, NEW j, NEW h \in Nat
    PROVE  Len(Filters(S, gr, pre, j, h)) = h
<1> DEFINE f(g) == [s \in S |-> BitsOf({i \in 0 .. (j - 1) : gr[i] = g - 1 /\ pre[i] = s})]
<1>1. Filters(S, gr, pre, j, h) = [g \in 1 .. h |-> f(g)]
    BY DEF Filters
<1> HIDE DEF f
<1>2. QED
    BY <1>1

(* The groups before an item and at it.                                    *)
LEMMA MarkBefore ==
    ASSUME NEW n \in Nat
    PROVE  /\ MarkOf(n) \in Nat /\ MarkOf(n - 1) \in Int /\ MarkOf(n - 1) + 1 \in Nat
           /\ \A i \in 0 .. (n - 1) : MarkOf(i) \in Nat /\ MarkOf(i) < MarkOf(n - 1) + 1
           /\ IF Marked(n) THEN MarkOf(n) = MarkOf(n - 1) + 1
              ELSE MarkOf(n) + 1 = MarkOf(n - 1) + 1
BY ArraysAssumption DEF MarkOf, Marked

\* The page of an item is that of the item before it, or the next one when the
\* item has the first mark of a page.
LEMMA PageBefore ==
    ASSUME NEW n \in Nat
    PROVE  /\ PageOf(MarkOf(n)) \in Nat /\ PageOf(MarkOf(n - 1)) \in Int
           /\ PageOf(MarkOf(n - 1)) + 1 \in Nat
           /\ \A i \in 0 .. (n - 1) : /\ PageOf(MarkOf(i)) \in Nat
                                      /\ PageOf(MarkOf(i)) < PageOf(MarkOf(n - 1)) + 1
           /\ IF Marked(n) /\ MarkOf(n) % PageMarks = 0
              THEN PageOf(MarkOf(n)) = PageOf(MarkOf(n - 1)) + 1
              ELSE PageOf(MarkOf(n)) + 1 = PageOf(MarkOf(n - 1)) + 1
<1> DEFINE m == MarkOf(n)
           l == MarkOf(n - 1)
<1>1. /\ m \in Nat /\ l + 1 \in Nat /\ l \in Int
      /\ IF Marked(n) THEN m = l + 1 ELSE m + 1 = l + 1
    BY MarkBefore, ArraysAssumption DEF MarkOf
<1>2. \A i \in 0 .. (n - 1) : MarkOf(i) \in Nat /\ MarkOf(i) <= l
    BY <1>1, MarkBefore, SMTT(30)
<1> HIDE DEF m, l
<1>3. PageOf(m) \in Nat /\ PageOf(l) \in Int /\ PageOf(l) + 1 \in Nat
    BY <1>1, BloomAssumption DEF PageOf
<1>4. \A a \in Nat : a <= l => PageOf(a) \in Nat /\ PageOf(a) < PageOf(l) + 1
    BY <1>1, BloomAssumption DEF PageOf
<1>5. CASE Marked(n)
    <2>1. m = l + 1
        BY <1>1, <1>5
    <2>2. IF m % PageMarks = 0 THEN PageOf(m) = PageOf(l) + 1
          ELSE PageOf(m) + 1 = PageOf(l) + 1
        BY <1>1, <2>1, BloomAssumption DEF PageOf
    <2>3. QED
        BY <1>2, <1>3, <1>4, <1>5, <2>2 DEF m, l
<1>6. CASE ~Marked(n)
    <2>1. m = l
        BY <1>1, <1>6
    <2>2. QED
        BY <1>2, <1>3, <1>4, <1>6, <2>1 DEF m, l
<1>7. QED
    BY <1>5, <1>6

(* The groups and the prefixes of items, as functions.                     *)
MarkGroup(n) == [i \in 0 .. n |-> MarkOf(i)]
PageGroup(n) == [i \in 0 .. n |-> PageOf(MarkOf(i))]
ShortOf(n) == [i \in 0 .. n |-> Hash[Key(i)].short]
LongOf(n) == [i \in 0 .. n |-> Hash[Key(i)].long]

(* The book of j items by these, for j up to n + 1.                        *)
LEMMA BookByFilters ==
    ASSUME NEW n \in Nat, NEW j \in 0 .. (n + 1)
    PROVE  BookOf(j) =
             [marks |-> Filters(Short, MarkGroup(n), ShortOf(n), j, MarkOf(j - 1) + 1),
              pages |-> Filters(Long, PageGroup(n), LongOf(n), j,
                                PageOf(MarkOf(j - 1)) + 1)]
<1> DEFINE A(g, q) == BitsOf({i \in 0 .. (j - 1) : MarkOf(i) = g - 1
                                                /\ Hash[Key(i)].short = q})
           B(g, q) == BitsOf({i \in 0 .. (j - 1) : PageOf(MarkOf(i)) = g - 1
                                                /\ Hash[Key(i)].long = q})
           C(g, q) == BitsOf({i \in 0 .. (j - 1) : MarkGroup(n)[i] = g - 1
                                                /\ ShortOf(n)[i] = q})
           D(g, q) == BitsOf({i \in 0 .. (j - 1) : PageGroup(n)[i] = g - 1
                                                /\ LongOf(n)[i] = q})
<1>3. ASSUME NEW g, NEW q PROVE A(g, q) = C(g, q) /\ B(g, q) = D(g, q)
    <2>1. {i \in 0 .. (j - 1) : MarkOf(i) = g - 1 /\ Hash[Key(i)].short = q}
            = {i \in 0 .. (j - 1) : MarkGroup(n)[i] = g - 1 /\ ShortOf(n)[i] = q}
        BY DEF MarkGroup, ShortOf
    <2>2. {i \in 0 .. (j - 1) : PageOf(MarkOf(i)) = g - 1 /\ Hash[Key(i)].long = q}
            = {i \in 0 .. (j - 1) : PageGroup(n)[i] = g - 1 /\ LongOf(n)[i] = q}
        BY DEF PageGroup, LongOf
    <2>3. QED
        BY <2>1, <2>2, Zenon
<1>4. BookOf(j) =
        [marks |-> [g \in 1 .. (MarkOf(j - 1) + 1) |-> [s \in Short |-> A(g, s)]],
         pages |-> [g \in 1 .. (PageOf(MarkOf(j - 1)) + 1) |-> [s \in Long |-> B(g, s)]]]
    BY DEF BookOf
<1>5. /\ Filters(Short, MarkGroup(n), ShortOf(n), j, MarkOf(j - 1) + 1)
           = [g \in 1 .. (MarkOf(j - 1) + 1) |-> [s \in Short |-> C(g, s)]]
      /\ Filters(Long, PageGroup(n), LongOf(n), j, PageOf(MarkOf(j - 1)) + 1)
           = [g \in 1 .. (PageOf(MarkOf(j - 1)) + 1) |-> [s \in Long |-> D(g, s)]]
    BY DEF Filters
<1> HIDE DEF A, B, C, D
<1> DEFINE a(g) == [s \in Short |-> A(g, s)]
           b(g) == [s \in Long |-> B(g, s)]
           c(g) == [s \in Short |-> C(g, s)]
           d(g) == [s \in Long |-> D(g, s)]
<1>6. ASSUME NEW g PROVE a(g) = c(g) /\ b(g) = d(g)
    BY <1>3
<1> HIDE DEF a, b, c, d
<1>7. ASSUME NEW h PROVE /\ [g \in 1 .. h |-> a(g)] = [g \in 1 .. h |-> c(g)]
                         /\ [g \in 1 .. h |-> b(g)] = [g \in 1 .. h |-> d(g)]
    BY <1>6
<1>8. QED
    BY <1>4, <1>5, <1>7, Zenon DEF a, b, c, d

(* The book of the first items, to which the next is added, is the book of *)
(* one item more.                                                          *)
LEMMA BookGrows ==
    ASSUME arr \in Arrays, NEW n \in 0 .. (N - 1), book = BookOf(n),
           NEW t, t.index = n
    PROVE  BookWith(t) = BookOf(n + 1)
<1> DEFINE k == MarkOf(n - 1) + 1
           p == PageOf(MarkOf(n - 1)) + 1
           m == MarkOf(n) + 1
           q == PageOf(MarkOf(n)) + 1
           mg == MarkGroup(n)
           pg == PageGroup(n)
           sh == ShortOf(n)
           lo == LongOf(n)
           w == Key(n)
           b == IF Marked(n) THEN AddMark(book) ELSE book
<1>1. /\ n \in Nat /\ (n + 1) - 1 = n /\ n \in 0 .. n
      /\ n \in 0 .. (n + 1) /\ n + 1 \in 0 .. (n + 1)
    BY Offsets
<1>2. /\ book = [marks |-> Filters(Short, mg, sh, n, k), pages |-> Filters(Long, pg, lo, n, p)]
      /\ BookOf(n + 1) = [marks |-> Filters(Short, mg, sh, n + 1, m),
                          pages |-> Filters(Long, pg, lo, n + 1, q)]
    <2>1. BookOf(n) = [marks |-> Filters(Short, mg, sh, n, k),
                       pages |-> Filters(Long, pg, lo, n, p)]
        BY <1>1, BookByFilters
    <2> DEFINE j == n + 1
    <2>2. j \in 0 .. (n + 1) /\ j - 1 = n
        BY <1>1
    <2> HIDE DEF j
    <2>3. BookOf(j) = [marks |-> Filters(Short, mg, sh, j, MarkOf(j - 1) + 1),
                       pages |-> Filters(Long, pg, lo, j, PageOf(MarkOf(j - 1)) + 1)]
        BY <1>1, <2>2, BookByFilters
    <2>4. QED
        BY <2>1, <2>2, <2>3 DEF j
<1>3. /\ mg \in [0 .. n -> Nat] /\ pg \in [0 .. n -> Nat]
      /\ sh \in [0 .. n -> Short] /\ lo \in [0 .. n -> Long]
      /\ mg[n] + 1 = m /\ pg[n] + 1 = q /\ sh[n] = Hash[w].short /\ lo[n] = Hash[w].long
    <2>1. \A i \in 0 .. n : MarkOf(i) \in Nat /\ PageOf(MarkOf(i)) \in Nat
        <3>1. \A i \in Nat : MarkOf(i) \in Nat /\ PageOf(MarkOf(i)) \in Nat
            BY MarkBefore, PageBefore
        <3>2. QED
            BY <3>1
    <2>2. \A i \in 0 .. n : Hash[Key(i)].short \in Short /\ Hash[Key(i)].long \in Long
        BY <1>1, Keys, Offsets
    <2>3. QED
        BY <1>1, <2>1, <2>2 DEF MarkGroup, PageGroup, ShortOf, LongOf
<1>4. /\ k \in Nat /\ (k = mg[n] + 1 \/ k = mg[n])
      /\ \A i \in 0 .. (n - 1) : mg[i] < k
    <2>1. mg[n] = MarkOf(n) /\ \A i \in 0 .. (n - 1) : mg[i] = MarkOf(i)
        BY <1>1 DEF MarkGroup
    <2> HIDE DEF mg
    <2>2. QED
        BY <1>1, <2>1, MarkBefore
<1>5. /\ p \in Nat /\ (p = pg[n] + 1 \/ p = pg[n])
      /\ \A i \in 0 .. (n - 1) : pg[i] < p
    <2>1. pg[n] = PageOf(MarkOf(n)) /\ \A i \in 0 .. (n - 1) : pg[i] = PageOf(MarkOf(i))
        BY <1>1 DEF PageGroup
    <2> HIDE DEF pg
    <2>2. QED
        BY <1>1, <2>1, PageBefore
<1>6. /\ m \in Nat /\ q \in Nat
      /\ Marked(n) <=> m # k
      /\ Marked(n) /\ k % PageMarks = 0 <=> q # p
    <2> DEFINE a == MarkOf(n)
               l == MarkOf(n - 1)
               c == PageOf(MarkOf(n))
               d == PageOf(MarkOf(n - 1))
    <2>1. /\ a \in Nat /\ l \in Int
          /\ IF Marked(n) THEN a = l + 1 ELSE a + 1 = l + 1
        BY <1>1, MarkBefore
    <2>2. /\ c \in Nat /\ d \in Int
          /\ IF Marked(n) /\ a % PageMarks = 0 THEN c = d + 1 ELSE c + 1 = d + 1
        BY <1>1, PageBefore
    <2>3. m = a + 1 /\ k = l + 1 /\ q = c + 1 /\ p = d + 1
        OBVIOUS
    <2> HIDE DEF a, l, c, d, m, k, q, p
    <2>4. (Marked(n) => a = k) /\ (Marked(n) <=> m # k)
        BY <2>1, <2>3
    <2>5. Marked(n) /\ a % PageMarks = 0 <=> q # p
        BY <2>2, <2>3
    <2>6. m \in Nat /\ q \in Nat
        BY <2>1, <2>2, <2>3
    <2>7. QED
        BY <2>4, <2>5, <2>6
<1> HIDE DEF k, p, m, q, mg, pg, sh, lo, w
<1>7. Filters(Short, mg, sh, n + 1, mg[n] + 1)
        = Grown(Opened(Filters(Short, mg, sh, n, k), Short, k, mg[n] + 1),
                sh[n], Hash[Key(n)].bits)
    <2>1. mg \in [0 .. n -> Nat] /\ sh \in [0 .. n -> Short]
        BY <1>3
    <2>2. k \in Nat /\ (k = mg[n] + 1 \/ k = mg[n]) /\ \A i \in 0 .. (n - 1) : mg[i] < k
        BY <1>4
    <2>3. QED
        BY <2>1, <2>2, FiltersGrow, ZenonT(60)
<1>8. Filters(Long, pg, lo, n + 1, pg[n] + 1)
        = Grown(Opened(Filters(Long, pg, lo, n, p), Long, p, pg[n] + 1),
                lo[n], Hash[Key(n)].bits)
    <2>1. pg \in [0 .. n -> Nat] /\ lo \in [0 .. n -> Long]
        BY <1>3
    <2>2. p \in Nat /\ (p = pg[n] + 1 \/ p = pg[n]) /\ \A i \in 0 .. (n - 1) : pg[i] < p
        BY <1>5
    <2>3. QED
        BY <2>1, <2>2, FiltersGrow, ZenonT(60)
<1>9. b = [marks |-> Opened(book.marks, Short, k, m), pages |-> Opened(book.pages, Long, p, q)]
    <2>1. Len(book.marks) = k
        BY <1>2, <1>4, FiltersLength
    <2>2. CASE Marked(n)
        BY <1>6, <2>1, <2>2 DEF AddMark, Opened
    <2>3. CASE ~Marked(n)
        BY <1>2, <1>6, <2>3 DEF Opened
    <2>4. QED
        BY <2>2, <2>3
<1>10. BookWith(t) = InsertWord(b, w)
    BY DEF BookWith, w
<1> HIDE DEF b
<1>11. InsertWord(b, w) = [marks |-> Grown(b.marks, Hash[w].short, Hash[w].bits),
                           pages |-> Grown(b.pages, Hash[w].long, Hash[w].bits)]
    <2> DEFINE mm == b.marks
               pp == b.pages
    <2>1. b = [marks |-> mm, pages |-> pp]
        BY <1>9
    <2> HIDE DEF mm, pp
    <2>2. InsertWord(b, w) =
            [b EXCEPT !.marks = Grown(mm, Hash[w].short, Hash[w].bits),
                      !.pages = Grown(pp, Hash[w].long, Hash[w].bits)]
        BY <2>1 DEF InsertWord, Grown
    <2>3. QED
        BY <2>1, <2>2
<1>12. QED
    BY <1>2, <1>3, <1>7, <1>8, <1>9, <1>10, <1>11 DEF w

-----------------------------------------------------------------------------
(***************************************************************************)
(* What holds of an array holds while the array is the same.               *)
(***************************************************************************)
LEMMA SameArray ==
    ASSUME arr' = arr
    PROVE  /\ N' = N
           /\ \A i : Off(i)' = Off(i)
           /\ \A i : Key(i)' = Key(i)
           /\ \A n : BookOf(n)' = BookOf(n)
           /\ \A o : ItemAt(o)' = ItemAt(o)
<1>1. N' = N
    BY DEF N
<1>2. \A i : Off(i)' = Off(i)
    BY DEF Off
<1>3. \A i : Key(i)' = Key(i)
    BY DEF Key
<1>4. \A S : BitsOf(S)' = BitsOf(S)
    BY <1>3 DEF BitsOf
<1>5. \A n : BookOf(n)' = BookOf(n)
    BY ZenonT(90) DEF BookOf, BitsOf, Key
<1>6. \A o : ItemAt(o)' = ItemAt(o)
    BY <1>1, <1>2 DEF ItemAt
<1>7. QED
    BY <1>1, <1>2, <1>3, <1>5, <1>6

-----------------------------------------------------------------------------
(***************************************************************************)
(* The invariant.                                                          *)
(***************************************************************************)
(* Where an item may be, or the end of the array.                          *)
Spots == {Off(i) : i \in 0 .. N}

(* A tracker that is on an item and knows where.                           *)
Placed(t) == t.at = "item" /\ t.need /\ t.index \in Nat /\ t.offset = Off(t.index)

(* The cache has the types of its fields, and holds a prefix of the array. *)
CacheInv ==
    /\ arr \in Arrays
    /\ last \in -1 .. (N - 1)
    /\ arr.var => offsets \in Seq(Nat)
    /\ CacheIsPrefix

(* A slice lies in the array.                                              *)
WinInv ==
    /\ win \in [from : Nat, to : Int, start : Nat, sliced : BOOLEAN]
    /\ win.start \in Spots
    /\ win.sliced => win.to \in win.from .. N
    /\ ~win.sliced => win.from = 0 /\ win.to = -1

(* A tracker between two calls is on an item of the array or on none.      *)
TrackerInv(t) ==
    /\ t \in Tracker
    /\ t.offset \in Spots \cup {Unknown}
    /\ t.at = "item" => t.index \in 0 .. (N - 1)
    /\ t.at = "nil" => t.index = -1 /\ t.offset = Unknown
    /\ t.at = "end" => t.index \in -1 .. N

Lookups == {"with_key", "next_key", "twin"}
Calls ==
    [fn : {"none", "nth"} \cup Lookups,
     phase : {"start", "walk", "mark", "scan", "tail", "tailscan", "over"},
     key : Word \cup {Unknown}, nth : Int, from : Nat, to : Int, count : Int,
     cookie : Cookie, known : Int,
     then : {"give", "first", "move", "slice", "twin"}]

(* Going to the n-th item: a walk is on an item it knows the place of, not *)
(* past the one it goes to, and what follows fits the box it is in.        *)
NthInv ==
    op.fn = "nth" =>
      /\ op.phase \in {"start", "walk"}
      /\ op.nth \in Nat
      /\ op.phase = "start" => TrackerInv(xtk)
      /\ op.phase = "walk" =>
           arr.var /\ Placed(xtk) /\ xtk.index < N /\ xtk.index <= op.nth
      /\ op.then \in {"move", "slice", "twin"} /\ op.phase = "start" => xtk.need
      /\ op.then = "first" => win.sliced /\ op.nth = win.from
      /\ op.then = "slice" => ~win.sliced /\ op.nth <= op.to /\ op.to <= N
      /\ op.then = "twin" => arr.indexed /\ tk.at = "item" /\ tk.index = op.nth

(* A mark is scanned to its end.  It is one that the cache has, or one the *)
(* cache will not have next: the scan adds no mark.                        *)
ScanInv ==
    LET m == ScannedMark IN
    /\ m \in Nat
    /\ xtk.index \in MarkStart(m) .. MarkStart(m + 1)
    /\ m <= MarkOf(last) \/ m > MarkOf(last) + 1

(* A lookup of a key is about an indexed array, and knows where it is.     *)
LookupInv ==
    op.fn \in Lookups =>
      /\ arr.indexed
      /\ op.phase # "walk"
      /\ op.phase \in {"scan", "tailscan"} => Placed(xtk)
      /\ op.phase = "scan" => ScanInv
      /\ op.phase = "tailscan" => xtk.index < N

CallInv ==
    /\ op \in Calls /\ xtk \in Tracker
    /\ op.fn = "none" => op = NoOp
    /\ NthInv /\ LookupInv

StateInv == WinInv /\ TrackerInv(tk) /\ CallInv

IInv == CacheInv /\ StateInv

-----------------------------------------------------------------------------
(***************************************************************************)
(* The cache.                                                              *)
(***************************************************************************)
(* What a step leaves alone.                                               *)
LEMMA CacheStays ==
    ASSUME CacheInv, arr' = arr, UNCHANGED cacheVars
    PROVE  CacheInv'
BY SameArray DEF CacheInv, CacheIsPrefix, cacheVars

(* The item that comes next to the cached ones is added.                   *)
LEMMA ItemAdded ==
    ASSUME CacheInv, arr' = arr, NEW t, Placed(t), t.index < N, t.index = last + 1,
           AddItem(t)
    PROVE  /\ CacheInv' /\ last' = last + 1
           /\ arr.indexed /\ ~Marked(last + 1) => Len(book'.pages) = Len(book.pages)
<1> DEFINE n == last + 1
<1>1. /\ n \in 0 .. (N - 1) /\ last = n - 1 /\ n \in Nat
      /\ t.index = n /\ t.offset = Off(n) /\ last' = n
      /\ N \in Nat /\ arr \in Arrays /\ Off(n) \in Nat
    <2>1. N \in Nat /\ arr \in Arrays /\ \A i \in 0 .. N : Off(i) \in Nat
        BY Offsets DEF CacheInv
    <2>2. QED
        BY <2>1 DEF CacheInv, AddItem, Placed
<1> HIDE DEF n
<1>2. lastOffset' = Off(n)
    BY <1>1 DEF AddItem
<1>3. ASSUME arr.var
      PROVE  /\ offsets' \in Seq(Nat)
             /\ Len(offsets') = MarkOf(n) + 1
             /\ \A m \in 0 .. MarkOf(n) : offsets'[m + 1] = Off(MarkStart(m))
    <2>1. /\ offsets \in Seq(Nat) /\ Len(offsets) = MarkOf(n - 1) + 1
          /\ \A m \in 0 .. MarkOf(n - 1) : offsets[m + 1] = Off(MarkStart(m))
        BY <1>1, <1>3 DEF CacheInv, CacheIsPrefix
    <2> DEFINE a == MarkOf(n)
               l == MarkOf(n - 1)
    <2>2. /\ a \in Nat /\ l \in Int /\ l + 1 \in Nat
          /\ IF Marked(n) THEN a = l + 1 ELSE a + 1 = l + 1
        BY <1>1, MarkBefore
    <2>3. CASE Marked(n)
        <3>1. offsets' = Append(offsets, Off(n)) /\ Off(n) \in Nat
            BY <1>1, <1>3, <2>3 DEF AddItem
        <3>2. /\ offsets' \in Seq(Nat) /\ Len(offsets') = Len(offsets) + 1
              /\ \A i \in 1 .. Len(offsets) : offsets'[i] = offsets[i]
              /\ offsets'[Len(offsets) + 1] = Off(n)
            BY <2>1, <3>1, AppendProperties
        <3>3. MarkStart(a) = n
            BY <1>1, <2>3, Marks
        <3>4. a = l + 1 /\ Len(offsets) = a
            BY <2>1, <2>2, <2>3
        <3> HIDE DEF a, l
        <3>5. \A m \in 0 .. l : offsets[m + 1] = Off(MarkStart(m))
            BY <2>1 DEF l
        <3>6. \A m \in 0 .. a : offsets'[m + 1] = Off(MarkStart(m))
            BY <2>2, <3>2, <3>3, <3>4, <3>5
        <3>7. QED
            BY <3>2, <3>4, <3>6 DEF a
    <2>4. CASE ~Marked(n)
        <3>1. offsets' = offsets /\ a = l
            BY <1>1, <2>2, <2>4 DEF AddItem
        <3>2. QED
            BY <2>1, <3>1
    <2>5. QED
        BY <2>3, <2>4
<1>4. ASSUME arr.indexed PROVE book = BookOf(n) /\ book' = BookOf(n + 1)
    <2>1. book = BookOf(n) /\ book' = BookWith(t)
        BY <1>1, <1>4 DEF CacheInv, CacheIsPrefix, AddItem, n
    <2>2. QED
        BY <1>1, <2>1, BookGrows DEF CacheInv
<1>5. CacheInv'
    <2>1. last' # -1 => (lastOffset = Off(last))'
        BY <1>1, <1>2, SameArray
    <2>2. (arr.var => /\ Len(offsets) = MarkOf(last) + 1
                      /\ \A m \in 0 .. MarkOf(last) : offsets[m + 1] = Off(MarkStart(m)))'
        BY <1>1, <1>3, SameArray
    <2>3. (arr.indexed => book = BookOf(last + 1))'
        BY <1>1, <1>4, SameArray
    <2>4. (arr \in Arrays /\ last \in -1 .. (N - 1) /\ (arr.var => offsets \in Seq(Nat)))'
        BY <1>1, <1>3, SameArray DEF CacheInv
    <2>5. QED
        BY <2>1, <2>2, <2>3, <2>4 DEF CacheInv, CacheIsPrefix
<1>6. ASSUME arr.indexed, ~Marked(n) PROVE Len(book'.pages) = Len(book.pages)
    BY <1>1, <1>6 DEF AddItem, BookWith, InsertWord
<1>7. QED
    BY <1>1, <1>5, <1>6 DEF n

(* An item that a tracker passes is added, or the cache stays.             *)
LEMMA ItemPassed ==
    ASSUME CacheInv, arr' = arr, NEW t, Placed(t), t.index < N, CacheOnPass(t)
    PROVE  /\ CacheInv'
           /\ \/ last' = last /\ book' = book
              \/ /\ last' = last + 1 /\ t.index = last + 1
                 /\ arr.indexed /\ ~Marked(t.index) => Len(book'.pages) = Len(book.pages)
<1>1. CASE t.index = last + 1
    BY <1>1, ItemAdded DEF CacheOnPass
<1>2. CASE t.index # last + 1
    <2>1. UNCHANGED cacheVars
        BY <1>2 DEF CacheOnPass
    <2>2. QED
        BY <2>1, CacheStays DEF cacheVars
<1>3. QED
    BY <1>1, <1>2

-----------------------------------------------------------------------------
(***************************************************************************)
(* Moves of trackers.                                                      *)
(***************************************************************************)
(* What is at an offset where an item may be.                              *)
LEMMA SpotFacts ==
    ASSUME arr \in Arrays
    PROVE  /\ \A i \in 0 .. N : Off(i) \in Spots
           /\ 0 \in Spots /\ Off(N) \in Spots
           /\ \A s \in Spots : s \in Nat /\ s # Unknown /\ ItemAt(s) \in 0 .. N
           /\ \A s \in Spots : s # Off(N) => /\ ItemAt(s) \in 0 .. (N - 1)
                                             /\ s + SizeAt(s) \in Spots
<1>1. N \in Nat /\ Off(0) = 0 /\ \A i \in 0 .. N : Off(i) \in Nat
    BY Offsets
<1>2. \A i \in 0 .. N : Off(i) \in Spots
    BY DEF Spots
<1>3. ASSUME NEW s \in Spots
      PROVE  /\ s \in Nat /\ s # Unknown /\ ItemAt(s) \in 0 .. N
             /\ s # Off(N) => ItemAt(s) \in 0 .. (N - 1) /\ s + SizeAt(s) \in Spots
    <2>1. PICK i \in 0 .. N : s = Off(i)
        BY DEF Spots
    <2>2. ItemAt(s) = i /\ (i < N => s + SizeAt(s) = Off(i + 1))
        BY <2>1, ItemThere
    <2>3. s # Off(N) => i < N /\ i + 1 \in 0 .. N
        BY <1>1, <2>1
    <2>4. QED
        BY <1>1, <1>2, <2>1, <2>2, <2>3 DEF Unknown
<1>4. QED
    BY <1>1, <1>2, <1>3

(* A tracker that knows where its item is goes on to the next.             *)
LEMMA NextPlaced ==
    ASSUME arr \in Arrays, NEW t \in Tracker, Placed(t), t.index < N
    PROVE  /\ NextItem(t) \in Tracker
           /\ NextItem(t).index = t.index + 1
           /\ NextItem(t).at = "item" => Placed(NextItem(t)) /\ t.index + 1 < N
           /\ NextItem(t).at # "item" => NextItem(t).at = "end" /\ t.index + 1 = N
<1>1. /\ N \in Nat /\ t.index \in 0 .. (N - 1) /\ t.index \in 0 .. N
      /\ Off(t.index + 1) \in Nat
    BY Offsets DEF Placed
<1>2. t.offset + SizeAt(t.offset) = Off(t.index + 1)
    BY <1>1, ItemThere DEF Placed
<1> DEFINE u == [t EXCEPT !.index = t.index + 1,
                          !.offset = IF t.need THEN t.offset + SizeAt(t.offset)
                                     ELSE t.offset]
<1>3. /\ u \in Tracker /\ u.index = t.index + 1 /\ u.offset = Off(t.index + 1)
      /\ u.need /\ u.at = "item"
    <2>1. u = [t EXCEPT !.index = t.index + 1, !.offset = Off(t.index + 1)]
        BY <1>2 DEF Placed
    <2> DEFINE i == t.index + 1
               o == Off(t.index + 1)
    <2>2. i \in Int /\ o \in Int
        BY <1>1
    <2> HIDE DEF u, i, o
    <2>3. u = [t EXCEPT !.index = i, !.offset = o]
        BY <2>1 DEF i, o
    <2>4. u \in Tracker /\ u.index = i /\ u.offset = o /\ u.at = t.at /\ u.need = t.need
        BY <2>2, <2>3 DEF Tracker
    <2>5. QED
        BY <2>4 DEF Placed, i, o
<1>4. NextItem(t) = IF u.index = N THEN Ended(u) ELSE u
    BY DEF NextItem
<1> HIDE DEF u
<1>5. CASE u.index = N
    BY <1>3, <1>4, <1>5 DEF Ended, Tracker
<1>6. CASE u.index # N
    BY <1>1, <1>3, <1>4, <1>6 DEF Placed
<1>7. QED
    BY <1>5, <1>6

(* Where walks start: at a mark of the cache, at its end, or at the first  *)
(* item.                                                                   *)
LEMMA MarkPlaced ==
    ASSUME CacheInv, NEW m \in Nat, arr.var => m <= MarkOf(last)
    PROVE  /\ Placed(AtMark(m)) /\ AtMark(m) \in Tracker
           /\ AtMark(m).index = MarkStart(m)
<1>1. MarkStart(m) \in Nat /\ arr \in Arrays
    BY Marks DEF CacheInv
<1>2. CASE arr.var
    <2>1. last \in Nat /\ m \in 0 .. MarkOf(last) /\ MarkOf(last) \in Nat
        <3>1. MarkOf(-1) = -1 /\ last \in -1 .. (N - 1) /\ N \in Nat
            BY <1>1, Marks, Offsets DEF CacheInv
        <3>2. last \in Nat
            BY <1>2, <3>1
        <3>3. MarkOf(last) \in Nat
            BY <3>2, Marks
        <3>4. QED
            BY <1>2, <3>2, <3>3
    <2>2. offsets[m + 1] = Off(MarkStart(m))
        BY <1>2, <2>1 DEF CacheInv, CacheIsPrefix
    <2>3. offsets \in Seq(Nat) /\ Len(offsets) = MarkOf(last) + 1
        BY <1>2 DEF CacheInv, CacheIsPrefix
    <2>4. offsets[m + 1] \in Nat
        <3>1. m + 1 \in 1 .. Len(offsets)
            BY <2>1, <2>3
        <3>2. QED
            BY <2>3, <3>1, ElementOfSeq
    <2>5. QED
        BY <1>1, <1>2, <2>2, <2>4 DEF AtMark, Placed, Tracker
<1>3. CASE ~arr.var
    <2>1. Off(MarkStart(m)) \in Nat
        BY <1>1, <1>3, Offsets
    <2>2. QED
        BY <1>1, <1>3, <2>1 DEF AtMark, Placed, Tracker
<1>4. QED
    BY <1>2, <1>3

\* The end of the cache, taken as a tracker, lies on a cached item.
LEMMA LastPlaced ==
    ASSUME CacheInv, last # -1
    PROVE  /\ Placed(LastCached) /\ LastCached \in Tracker
           /\ LastCached.index = last /\ last \in Nat /\ last < N
<1>1. /\ N \in Nat /\ last \in 0 .. (N - 1) /\ arr \in Arrays
      /\ lastOffset = Off(last)
    BY Offsets DEF CacheInv, CacheIsPrefix
<1>2. Off(last) \in Nat
    BY <1>1, Offsets
<1>3. QED
    BY <1>1, <1>2 DEF LastCached, Placed, Tracker

\* A tracker set on item i at offset o.
LEMMA AtIs ==
    ASSUME NEW t \in Tracker, NEW i \in Int, NEW o \in Int
    PROVE  /\ At(t, i, o) \in Tracker /\ At(t, i, o).at = "item"
           /\ At(t, i, o).index = i /\ At(t, i, o).offset = o
           /\ At(t, i, o).need = t.need
BY DEF At, Tracker

\* A tracker that lost its item keeps the offset.
LEMMA DanglingIs ==
    ASSUME NEW t \in Tracker
    PROVE  /\ Dangling(t) \in Tracker /\ Dangling(t).at = "nil"
           /\ Dangling(t).index = -1 /\ Dangling(t).offset = t.offset
           /\ Dangling(t).need = t.need
<1> DEFINE i == -1
<1>1. i \in Int
    OBVIOUS
<1> HIDE DEF i
<1>2. Dangling(t) = [t EXCEPT !.at = "nil", !.index = i]
    BY DEF Dangling, i
<1> DEFINE d == Dangling(t)
<1> HIDE DEF d
<1>3. /\ d \in Tracker /\ d.at = "nil" /\ d.index = i /\ d.offset = t.offset
      /\ d.need = t.need
    BY <1>1, <1>2 DEF Tracker, d
<1>4. QED
    BY <1>3 DEF d, i

\* A tracker on the first item is at offset 0, or at the end of an array without
\* items.
LEMMA FirstItemIs ==
    ASSUME NEW t \in Tracker, arr \in Arrays
    PROVE  /\ FirstItem(t) \in Tracker
           /\ FirstItem(t).need <=> t.need \/ arr.slack
           /\ FirstItem(t).offset = IF t.need \/ arr.slack THEN Off(0) ELSE Unknown
           /\ IF N > 0 THEN FirstItem(t).at = "item" /\ FirstItem(t).index = 0
              ELSE /\ FirstItem(t).at = "end"
                   /\ FirstItem(t).index = IF arr.slack THEN 0 ELSE -1
<1> DEFINE u == [Dangling(t) EXCEPT !.offset = Unknown, !.need = @ \/ arr.slack]
           o == IF u.need THEN Off(0) ELSE Unknown
           f == FirstItem(t)
           j == IF arr.slack THEN 0 ELSE -1
<1>1. arr.slack \in BOOLEAN /\ Off(0) = 0 /\ N \in Nat
    BY Offsets DEF ArrayRecord
<1>2. u \in Tracker /\ u.offset = Unknown /\ (u.need <=> t.need \/ arr.slack)
    <2> DEFINE d == Dangling(t)
    <2>1. d \in Tracker /\ d.need = t.need
        BY DanglingIs
    <2>2. Unknown \in Int
        BY DEF Unknown
    <2> DEFINE b == d.need \/ arr.slack
               e == Unknown
    <2>3. b \in BOOLEAN /\ e \in Int
        BY <2>2
    <2>4. u = [d EXCEPT !.offset = e, !.need = b]
        OBVIOUS
    <2> HIDE DEF u, d, b, e
    <2>5. u \in Tracker /\ u.offset = e /\ u.need = b
        BY <2>1, <2>3, <2>4 DEF Tracker
    <2>6. QED
        BY <2>1, <2>5 DEF b, e
<1>3. f = IF N > 0 THEN At(u, 0, o) ELSE [u EXCEPT !.at = "end", !.offset = o, !.index = j]
    BY DEF FirstItem
<1>4. o = (IF t.need \/ arr.slack THEN Off(0) ELSE Unknown) /\ o \in Int /\ j \in Int
    BY <1>1, <1>2 DEF Unknown
<1> HIDE DEF u, o, f, j
<1>5. CASE N > 0
    <2>1. f = At(u, 0, o)
        BY <1>3, <1>5
    <2>2. /\ f \in Tracker /\ f.at = "item" /\ f.index = 0 /\ f.offset = o
          /\ f.need = u.need
        BY <1>2, <1>4, <2>1, AtIs
    <2>3. QED
        BY <1>2, <1>4, <1>5, <2>2 DEF f
<1>6. CASE ~(N > 0)
    <2>1. f = [u EXCEPT !.at = "end", !.offset = o, !.index = j]
        BY <1>3, <1>6
    <2>2. /\ f \in Tracker /\ f.at = "end" /\ f.index = j /\ f.offset = o
          /\ f.need = u.need
        BY <1>2, <1>4, <2>1 DEF Tracker
    <2>3. QED
        BY <1>2, <1>4, <1>6, <2>2 DEF f, j
<1>7. QED
    BY <1>5, <1>6

\* Without a cache a scan begins on the first item, with its offset.
LEMMA FirstPlaced ==
    ASSUME CacheInv, last = -1
    PROVE  /\ FirstItem(LastCached) \in Tracker
           /\ N # 0 => Placed(FirstItem(LastCached)) /\ FirstItem(LastCached).index = 0
           /\ N = 0 => FirstItem(LastCached).at = "end"
<1>1. N \in Nat /\ Off(0) = 0 /\ arr \in Arrays
    BY Offsets DEF CacheInv
<1> DEFINE r == Rewound
           l == LastCached
<1>2. r \in Tracker
    BY DEF Rewound, Tracker, Unknown
<1>3. l = [r EXCEPT !.need = TRUE]
    BY DEF LastCached
<1> HIDE DEF r, l
<1>4. l \in Tracker /\ l.need
    BY <1>2, <1>3 DEF Tracker
<1>5. /\ FirstItem(l) \in Tracker /\ FirstItem(l).need /\ FirstItem(l).offset = Off(0)
      /\ IF N > 0 THEN FirstItem(l).at = "item" /\ FirstItem(l).index = 0
         ELSE FirstItem(l).at = "end"
    BY <1>1, <1>4, FirstItemIs
<1>6. QED
    BY <1>1, <1>5 DEF Placed, l

(* The next item of a tracker: with its offset, if the tracker needs it.   *)
LEMMA NextIs ==
    ASSUME NEW t \in Tracker, arr \in Arrays,
           t.need => t.offset \in Spots /\ t.offset # Off(N)
    PROVE  /\ NextItem(t) \in Tracker
           /\ NextItem(t).index = t.index + 1 /\ NextItem(t).need = t.need
           /\ NextItem(t).offset = IF t.need THEN t.offset + SizeAt(t.offset) ELSE t.offset
           /\ NextItem(t).at = IF t.index + 1 = N THEN "end" ELSE t.at
<1> DEFINE i == t.index + 1
           o == IF t.need THEN t.offset + SizeAt(t.offset) ELSE t.offset
           u == [t EXCEPT !.index = i, !.offset = o]
<1>1. i \in Int
    BY DEF Tracker
<1>2. o \in Int
    <2>1. t.need => t.offset + SizeAt(t.offset) \in Spots
        BY SpotFacts
    <2>2. t.need => t.offset + SizeAt(t.offset) \in Nat
        BY <2>1, SpotFacts
    <2>3. QED
        BY <2>2 DEF Tracker
<1>3. NextItem(t) = IF u.index = N THEN Ended(u) ELSE u
    BY DEF NextItem
<1> HIDE DEF i, o
<1>4. u \in Tracker /\ u.index = i /\ u.offset = o /\ u.need = t.need /\ u.at = t.at
    BY <1>1, <1>2 DEF Tracker
<1> HIDE DEF u
<1>5. /\ Ended(u) \in Tracker /\ Ended(u).index = u.index /\ Ended(u).offset = u.offset
      /\ Ended(u).need = u.need /\ Ended(u).at = "end"
    BY <1>4 DEF Ended, Tracker
<1>6. CASE u.index = N
    BY <1>3, <1>4, <1>5, <1>6 DEF i, o
<1>7. CASE u.index # N
    BY <1>3, <1>4, <1>7 DEF i, o
<1>8. QED
    BY <1>6, <1>7

(* The next item of a slice, or its end.                                   *)
LEMMA NextInBoxKeeps ==
    ASSUME NEW t, TrackerInv(t), t.at = "item", arr \in Arrays, WinInv,
           t.need \/ EndsSlice(t) => t.offset \in Spots /\ t.offset # Off(N)
    PROVE  TrackerInv(NextInBox(t))
<1>1. /\ t \in Tracker /\ t.index \in 0 .. (N - 1) /\ N \in Nat
      /\ t.offset \in Spots \cup {Unknown}
    BY Offsets DEF TrackerInv
<1>2. CASE EndsSlice(t)
    <2> DEFINE i == t.index + 1
               o == t.offset + SizeAt(t.offset)
               n == NextInBox(t)
    <2>1. i \in -1 .. N /\ i \in Int
        BY <1>1
    <2>2. o \in Spots
        BY <1>2, SpotFacts
    <2>3. o \in Int
        BY <2>2, SpotFacts
    <2>4. n = Ended([t EXCEPT !.index = i, !.offset = o])
        BY <1>2 DEF NextInBox
    <2> HIDE DEF i, o, n
    <2>5. n \in Tracker /\ n.at = "end" /\ n.index = i /\ n.offset = o
        BY <1>1, <2>1, <2>3, <2>4 DEF Ended, Tracker
    <2>6. QED
        BY <2>1, <2>2, <2>5 DEF TrackerInv, n
<1>3. CASE ~EndsSlice(t)
    <2>1. NextInBox(t) = NextItem(t)
        BY <1>3 DEF NextInBox
    <2> DEFINE n == NextItem(t)
    <2>2. /\ n \in Tracker /\ n.index = t.index + 1
          /\ n.offset = IF t.need THEN t.offset + SizeAt(t.offset) ELSE t.offset
          /\ n.at = IF t.index + 1 = N THEN "end" ELSE "item"
        BY <1>1, NextIs
    <2>3. t.need => t.offset + SizeAt(t.offset) \in Spots
        BY SpotFacts
    <2> HIDE DEF n
    <2>4. n.offset \in Spots \cup {Unknown}
        BY <1>1, <2>2, <2>3
    <2>5. QED
        BY <1>1, <2>1, <2>2, <2>4 DEF TrackerInv, n
<1>4. QED
    BY <1>2, <1>3

(* A tracker without an item.                                              *)
LEMMA NowhereKeeps ==
    /\ TrackerInv(Rewound)
    /\ \A t \in Tracker :
          /\ TrackerInv([Dangling(t) EXCEPT !.offset = Unknown])
          /\ [Dangling(t) EXCEPT !.offset = Unknown].at = "nil"
<1> DEFINE e == Unknown
           i == -1
<1>1. e \in Int /\ i \in Int
    BY DEF Unknown
<1>2. Rewound = [at |-> "nil", index |-> i, offset |-> e, need |-> FALSE]
    BY DEF Rewound
<1> HIDE DEF e, i
<1>3. TrackerInv(Rewound)
    BY <1>1, <1>2 DEF TrackerInv, Tracker, e, i
<1>4. ASSUME NEW t \in Tracker
      PROVE  /\ TrackerInv([Dangling(t) EXCEPT !.offset = Unknown])
             /\ [Dangling(t) EXCEPT !.offset = Unknown].at = "nil"
    <2> DEFINE d == Dangling(t)
               u == [d EXCEPT !.offset = e]
    <2>1. d \in Tracker /\ d.at = "nil" /\ d.index = -1
        BY DanglingIs
    <2> HIDE DEF d
    <2>2. u \in Tracker /\ u.at = "nil" /\ u.index = -1 /\ u.offset = e
        BY <1>1, <2>1 DEF Tracker
    <2> HIDE DEF u
    <2>3. TrackerInv(u) /\ u.at = "nil"
        BY <2>2 DEF TrackerInv, e
    <2>4. QED
        BY <2>3 DEF u, d, e
<1>5. QED
    BY <1>3, <1>4

\* Going to the first item leaves a good tracker.
LEMMA FirstKeeps ==
    ASSUME NEW t \in Tracker, arr \in Arrays
    PROVE  TrackerInv(FirstItem(t))
<1> DEFINE f == FirstItem(t)
<1>1. /\ f \in Tracker
      /\ f.offset = IF t.need \/ arr.slack THEN Off(0) ELSE Unknown
      /\ IF N > 0 THEN f.at = "item" /\ f.index = 0
         ELSE f.at = "end" /\ f.index = IF arr.slack THEN 0 ELSE -1
    BY FirstItemIs
<1>2. N \in Nat /\ Off(0) \in Spots
    BY Offsets, SpotFacts
<1> HIDE DEF f
<1>3. QED
    BY <1>1, <1>2 DEF TrackerInv, f

-----------------------------------------------------------------------------
(***************************************************************************)
(* How calls begin and end.                                                *)
(***************************************************************************)
LEMMA TrackerStays ==
    ASSUME arr' = arr, NEW t, TrackerInv(t)
    PROVE  /\ tk' = t => TrackerInv(tk)'
           /\ xtk' = t => TrackerInv(xtk)'
<1>1. N' = N /\ Spots' = Spots
    BY SameArray DEF Spots
<1>2. ASSUME tk' = t PROVE TrackerInv(tk)'
    BY <1>1, <1>2 DEF TrackerInv
<1>3. ASSUME xtk' = t PROVE TrackerInv(xtk)'
    BY <1>1, <1>3 DEF TrackerInv
<1>4. QED
    BY <1>2, <1>3

\* The slice is as good as it was while nobody enters or leaves one.
LEMMA WinStays ==
    ASSUME arr' = arr, win' = win, WinInv
    PROVE  WinInv'
<1>1. N' = N /\ Spots' = Spots
    BY SameArray DEF Spots
<1>2. QED
    BY <1>1 DEF WinInv

\* Between two calls the scanning tracker is rewound.
LEMMA NoCall ==
    ASSUME op' = NoOp, xtk' = Rewound
    PROVE  CallInv'
<1>1. NoOp \in Calls
    BY BloomAssumption
       DEF NoOp, Calls, Lookups, Cookie, Finished, NoPage, NoMore, Unknown
<1>2. op'.fn = "none"
    BY DEF NoOp
<1>3. Rewound \in Tracker
    BY NowhereKeeps DEF TrackerInv
<1>4. QED
    BY <1>1, <1>2, <1>3 DEF CallInv, NthInv, LookupInv, Lookups

(* A call that returns leaves the client a tracker t.                      *)
LEMMA Returned ==
    ASSUME NEW t, NEW s, Return(t, s), TrackerInv(t), WinInv
    PROVE  StateInv' /\ arr' = arr
BY TrackerStays, WinStays, NoCall DEF Return, StateInv

\* A call that ends with the tracker on an item leaves a good state.
LEMMA Given ==
    ASSUME NEW t, Give(t), TrackerInv(t), WinInv
    PROVE  StateInv' /\ arr' = arr
BY Returned DEF Give

(* A call of goto_nth_item() begins.                                       *)
LEMMA NthBegins ==
    ASSUME NEW o \in Calls, NEW t, NEW x, Begin(o, t, x), o.fn = "nth", o.phase = "start",
           o.nth \in Nat, TrackerInv(t), TrackerInv(x), WinInv,
           o.then \in {"move", "slice", "twin"} => x.need,
           o.then = "first" => win.sliced /\ o.nth = win.from,
           o.then = "slice" => ~win.sliced /\ o.nth <= o.to /\ o.to <= N,
           o.then = "twin" => arr.indexed /\ t.at = "item" /\ t.index = o.nth,
           CacheInv
    PROVE  StateInv' /\ arr' = arr
<1>1. /\ op' = [o EXCEPT !.known = last] /\ tk' = t /\ xtk' = x /\ arr' = arr /\ win' = win
      /\ last \in Int /\ N' = N
    BY SameArray, Offsets DEF Begin, CacheInv
<1>2. /\ op' \in Calls /\ op'.fn = o.fn /\ op'.phase = o.phase /\ op'.nth = o.nth
      /\ op'.to = o.to /\ op'.then = o.then
    BY <1>1 DEF Calls
<1>3. TrackerInv(tk)' /\ TrackerInv(xtk)' /\ WinInv'
    BY <1>1, TrackerStays, WinStays
<1>4. NthInv'
    BY <1>1, <1>2, <1>3 DEF NthInv
<1>5. CallInv'
    BY <1>1, <1>2, <1>3, <1>4 DEF CallInv, LookupInv, Lookups, TrackerInv
<1>6. QED
    BY <1>1, <1>3, <1>5 DEF StateInv

\* Starting to go to the n-th item.
LEMMA NthCalled ==
    ASSUME NEW t, NEW i \in Nat, NEW then, CallNth(i, then, t),
           then \in {"give", "first", "move"}, TrackerInv(t), WinInv, CacheInv,
           then = "move" => t.need,
           then = "first" => win.sliced /\ i = win.from
    PROVE  StateInv' /\ arr' = arr
<1> DEFINE o == [NoOp EXCEPT !.fn = "nth", !.nth = i, !.then = then]
<1>1. NoOp \in Calls /\ NoOp.phase = "start"
    BY BloomAssumption
       DEF NoOp, Calls, Lookups, Cookie, Finished, NoPage, NoMore, Unknown
<1>2. o \in Calls /\ o.fn = "nth" /\ o.nth = i /\ o.then = then /\ o.phase = "start"
    <2> DEFINE n == NoOp
               f == "nth"
    <2>1. /\ n \in Calls /\ n.phase = "start" /\ f \in {"none", "nth"} \cup Lookups
          /\ i \in Int /\ then \in {"give", "first", "move", "slice", "twin"}
        BY <1>1
    <2> HIDE DEF n, f
    <2>2. o = [n EXCEPT !.fn = f, !.nth = i, !.then = then]
        BY DEF n, f
    <2> HIDE DEF o
    <2>3. o \in Calls /\ o.fn = f /\ o.nth = i /\ o.then = then /\ o.phase = "start"
        BY <2>1, <2>2 DEF Calls
    <2>4. QED
        BY <2>3 DEF f
<1>3. Begin(o, t, t)
    BY DEF CallNth
<1> HIDE DEF o
<1>4. QED
    BY <1>2, <1>3, NthBegins

(* A lookup of a key begins.                                               *)
LEMMA LookupBegins ==
    ASSUME NEW o \in Calls, Begin(o, tk, tk), o.fn \in {"with_key", "next_key"},
           o.phase = "start", TrackerInv(tk), WinInv, CacheInv, arr.indexed
    PROVE  StateInv' /\ arr' = arr
<1>1. /\ op' = [o EXCEPT !.known = last] /\ tk' = tk /\ xtk' = tk /\ arr' = arr /\ win' = win
      /\ last \in Int
    BY Offsets DEF Begin, CacheInv
<1>2. op' \in Calls /\ op'.fn = o.fn /\ op'.phase = o.phase
    BY <1>1 DEF Calls
<1>3. TrackerInv(tk)' /\ WinInv'
    BY <1>1, TrackerStays, WinStays
<1>4. CallInv'
    BY <1>1, <1>2, <1>3 DEF CallInv, NthInv, LookupInv, Lookups, TrackerInv
<1>5. QED
    BY <1>1, <1>3, <1>4 DEF StateInv

-----------------------------------------------------------------------------
(***************************************************************************)
(* The calls of the client keep the invariant.                             *)
(***************************************************************************)
LEMMA Parts ==
    ASSUME IInv
    PROVE  /\ CacheInv /\ arr \in Arrays /\ N \in Nat /\ last \in Int
           /\ WinInv /\ win.from \in Nat /\ win.to \in Int /\ win.start \in Spots
           /\ win.sliced \in BOOLEAN
           /\ TrackerInv(tk) /\ tk \in Tracker
           /\ op \in Calls /\ xtk \in Tracker /\ NthInv /\ LookupInv
BY Offsets DEF IInv, StateInv, CacheInv, WinInv, TrackerInv, CallInv

\* A tracker that is told to keep its offset keeps everything else.
LEMMA NeedsOffset ==
    ASSUME NEW t, TrackerInv(t), NEW u, u = [t EXCEPT !.need = TRUE]
    PROVE  /\ TrackerInv(u) /\ u.need /\ u \in Tracker
           /\ u.at = t.at /\ u.index = t.index /\ u.offset = t.offset
<1>1. t \in Tracker
    BY DEF TrackerInv
<1>2. /\ u \in Tracker /\ u.need
      /\ u.at = t.at /\ u.index = t.index /\ u.offset = t.offset
    BY <1>1 DEF Tracker
<1>3. TrackerInv(u)
    BY <1>2 DEF TrackerInv
<1>4. QED
    BY <1>2, <1>3

\* The calls that begin: going to the first item.
LEMMA FirstCalled ==
    ASSUME IInv, NEW t \in Tracker, First(t)
    PROVE  StateInv' /\ arr' = arr /\ UNCHANGED cacheVars
<1> DEFINE u == [Dangling(t) EXCEPT !.offset = Unknown]
<1>1. TrackerInv(u) /\ u \in Tracker
    BY NowhereKeeps DEF TrackerInv
<1>2. CASE ~win.sliced /\ Give(FirstItem(t)) /\ UNCHANGED cacheVars
    BY <1>2, Parts, FirstKeeps, Given
<1>3. CASE /\ win.sliced /\ win.from = win.to
           /\ Give([u EXCEPT !.at = "end", !.index = win.from, !.offset = win.start])
           /\ UNCHANGED cacheVars
    <2> DEFINE i == win.from
               o == win.start
               v == [u EXCEPT !.at = "end", !.index = i, !.offset = o]
    <2>1. i \in -1 .. N /\ i \in Int /\ o \in Spots /\ o \in Int
        <3>1. i \in Nat /\ i <= N /\ o \in Spots /\ N \in Nat
            BY <1>3, Parts DEF WinInv
        <3>2. QED
            BY <3>1, SpotFacts, Parts
    <2> HIDE DEF u, i, o
    <2>2. v \in Tracker /\ v.at = "end" /\ v.index = i /\ v.offset = o
        BY <1>1, <2>1 DEF Tracker
    <2> HIDE DEF v
    <2>3. TrackerInv(v)
        BY <2>1, <2>2 DEF TrackerInv
    <2>4. Give(v)
        BY <1>3 DEF u, v, i, o
    <2>5. QED
        BY <1>3, <2>3, <2>4, Parts, Given
<1>4. CASE win.sliced /\ win.from # win.to /\ CallNth(win.from, "first", u)
    <2>1. UNCHANGED cacheVars
        BY <1>4 DEF CallNth, Begin
    <2> HIDE DEF u
    <2>2. StateInv' /\ arr' = arr
        BY <1>1, <1>4, Parts, NthCalled
    <2>3. QED
        BY <2>1, <2>2
<1>5. QED
    BY <1>2, <1>3, <1>4 DEF First

\* Going to the next item.
LEMMA GotoNextCalled ==
    ASSUME IInv, GotoNext
    PROVE  StateInv' /\ arr' = arr /\ UNCHANGED cacheVars
<1>1. CASE tk.at = "nil" /\ First(tk)
    BY <1>1, Parts, FirstCalled
<1>2. CASE tk.at = "end" /\ Give(tk) /\ UNCHANGED cacheVars
    BY <1>2, Parts, Given
<1>3. CASE tk.at = "item" /\ LocationMissing /\ CallNth(tk.index, "move", [tk EXCEPT !.need = TRUE])
    <2> DEFINE u == [tk EXCEPT !.need = TRUE]
    <2>1. TrackerInv(u) /\ u.need
        BY Parts, NeedsOffset
    <2>2. tk.index \in Nat
        BY <1>3, Parts DEF TrackerInv
    <2>3. CallNth(tk.index, "move", u) /\ UNCHANGED cacheVars
        BY <1>3 DEF CallNth, Begin
    <2> HIDE DEF u
    <2>4. QED
        BY <2>1, <2>2, <2>3, Parts, NthCalled
<1>4. CASE /\ tk.at = "item" /\ ~LocationMissing
           /\ IF NoRoom(tk) THEN Return(tk, "error") ELSE Give(NextInBox(tk))
           /\ UNCHANGED cacheVars
    <2>1. CASE NoRoom(tk)
        BY <1>4, <2>1, Parts, Returned
    <2>2. CASE ~NoRoom(tk)
        <3>1. tk.need \/ EndsSlice(tk) => tk.offset \in Spots /\ tk.offset # Off(N)
            BY <1>4, <2>2, Parts DEF NoRoom, LocationMissing, TrackerInv
        <3>2. TrackerInv(NextInBox(tk))
            BY <1>4, <3>1, Parts, NextInBoxKeeps
        <3>3. QED
            BY <1>4, <2>2, <3>2, Parts, Given
    <2>3. QED
        BY <2>1, <2>2
<1>5. QED
    BY <1>1, <1>2, <1>3, <1>4 DEF GotoNext

\* Going to the n-th item.
LEMMA GotoNthCalled ==
    ASSUME IInv, NEW i \in 0 .. N, GotoNth(i)
    PROVE  StateInv' /\ arr' = arr /\ UNCHANGED cacheVars
<1>1. CASE Return(tk, "no_item") /\ UNCHANGED cacheVars
    BY <1>1, Parts, Returned
<1>2. CASE CallNth(win.from + i, "give", tk)
    <2>1. UNCHANGED cacheVars
        BY <1>2 DEF CallNth, Begin
    <2> DEFINE j == win.from + i
    <2>2. j \in Nat
        BY Parts
    <2>3. CallNth(j, "give", tk)
        BY <1>2
    <2> HIDE DEF j
    <2>4. QED
        BY <2>1, <2>2, <2>3, Parts, NthCalled
<1>3. QED
    BY <1>1, <1>2 DEF GotoNth

\* Asking for the offset of the item.
LEMMA ItemOffsetCalled ==
    ASSUME IInv, ItemOffset
    PROVE  StateInv' /\ arr' = arr /\ UNCHANGED cacheVars
<1>1. CASE /\ tk.at = "end" /\ UNCHANGED cacheVars
           /\ IF EndItem > N THEN Return([tk EXCEPT !.need = TRUE], "error")
              ELSE Return([tk EXCEPT !.need = TRUE, !.offset = Off(EndItem)], "ok")
    <2>1. CASE EndItem > N
        BY <1>1, <2>1, Parts, NeedsOffset, Returned
    <2>2. CASE ~(EndItem > N)
        <3>1. EndItem \in 0 .. N
            <4>1. CASE win.sliced
                <5>1. ItemAt(win.start) \in 0 .. N /\ win.to \in win.from .. N
                    BY <4>1, Parts, SpotFacts DEF WinInv
                <5>2. QED
                    BY <2>2, <4>1, <5>1, Parts DEF EndItem
            <4>2. CASE ~win.sliced
                BY <4>2, Parts DEF EndItem
            <4>3. QED
                BY <4>1, <4>2
        <3> DEFINE o == Off(EndItem)
                   u == [tk EXCEPT !.need = TRUE]
                   v == [tk EXCEPT !.need = TRUE, !.offset = o]
        <3>2. o \in Spots /\ o \in Int
            BY <3>1, Parts, SpotFacts
        <3> HIDE DEF o
        <3>3. v \in Tracker /\ v.at = tk.at /\ v.index = tk.index /\ v.offset = o
            BY <3>2, Parts DEF Tracker
        <3>4. Return(v, "ok")
            BY <1>1, <2>2 DEF o
        <3> HIDE DEF v
        <3>5. TrackerInv(v)
            BY <1>1, <3>2, <3>3, Parts DEF TrackerInv
        <3>6. QED
            BY <1>1, <3>4, <3>5, Parts, Returned
    <2>3. QED
        BY <2>1, <2>2
<1>2. CASE tk.at = "item" /\ CallNth(tk.index, "give", [tk EXCEPT !.need = TRUE])
    <2> DEFINE u == [tk EXCEPT !.need = TRUE]
    <2>1. TrackerInv(u)
        BY Parts, NeedsOffset
    <2>2. tk.index \in Nat
        BY <1>2, Parts DEF TrackerInv
    <2>3. CallNth(tk.index, "give", u) /\ UNCHANGED cacheVars
        BY <1>2 DEF CallNth, Begin
    <2> HIDE DEF u
    <2>4. QED
        BY <2>1, <2>2, <2>3, Parts, NthCalled
<1>3. QED
    BY <1>1, <1>2 DEF ItemOffset

\* Rewinding.
LEMMA RewindCalled ==
    ASSUME IInv, Rewind
    PROVE  StateInv' /\ arr' = arr /\ UNCHANGED cacheVars
BY Parts, NowhereKeeps, Returned DEF Rewind

(* A slice is entered.                                                     *)
LEMMA Entered ==
    ASSUME arr \in Arrays, NEW t, TrackerInv(t), NEW to \in Int, EnterAt(t, to),
           SliceFrom(t) <= to, to <= N, t.index # -1 => t.offset # Unknown
    PROVE  StateInv' /\ arr' = arr
<1>1. arr' = arr /\ op' = NoOp /\ xtk' = Rewound
    BY DEF EnterAt
<1>2. N' = N /\ Spots' = Spots
    BY <1>1, SameArray DEF Spots
<1>3. SliceFrom(t) \in Nat /\ SliceFrom(t) \in 0 .. N
    <2>1. N \in Nat
        BY Offsets
    <2>2. QED
        BY <2>1 DEF SliceFrom, TrackerInv, Tracker
<1>4. /\ win' = [from |-> SliceFrom(t), to |-> to, sliced |-> TRUE,
                 start |-> IF t.index = -1 THEN 0 ELSE t.offset]
      /\ (IF t.index = -1 THEN 0 ELSE t.offset) \in Spots
    BY SpotFacts DEF EnterAt, TrackerInv
<1>5. WinInv'
    <2> DEFINE f == SliceFrom(t)
               o == IF t.index = -1 THEN 0 ELSE t.offset
    <2>1. o \in Spots /\ o \in Nat /\ f \in Nat
        BY <1>3, <1>4, SpotFacts
    <2> HIDE DEF f, o
    <2>2. win' = [from |-> f, to |-> to, sliced |-> TRUE, start |-> o]
        BY <1>4 DEF f, o
    <2>3. /\ win' \in [from : Nat, to : Int, start : Nat, sliced : BOOLEAN]
          /\ win'.start = o /\ win'.from = f /\ win'.to = to /\ win'.sliced
        BY <2>1, <2>2
    <2>4. to \in f .. N
        BY <2>1 DEF f
    <2>5. QED
        BY <1>2, <2>1, <2>3, <2>4 DEF WinInv
<1>6. TrackerInv(tk)'
    <2>1. tk' = [Dangling(t) EXCEPT !.offset = Unknown] /\ t \in Tracker
        BY DEF EnterAt, TrackerInv
    <2>2. QED
        BY <1>1, <2>1, NowhereKeeps, TrackerStays
<1>7. CallInv'
    BY <1>1, NoCall
<1>8. QED
    BY <1>1, <1>5, <1>6, <1>7 DEF StateInv

\* Entering a slice.
LEMMA EnterSliceCalled ==
    ASSUME IInv, NEW to \in 0 .. N, EnterSlice(to)
    PROVE  StateInv' /\ arr' = arr /\ UNCHANGED cacheVars
<1>1. to \in Int /\ to <= N /\ SliceFrom(tk) <= to /\ ~win.sliced
    BY Parts DEF EnterSlice, SliceFrom, TrackerInv
<1>2. CASE /\ tk.at = "item"
           /\ Begin([NoOp EXCEPT !.fn = "nth", !.nth = tk.index, !.to = to, !.then = "slice"],
                    [tk EXCEPT !.need = TRUE], [tk EXCEPT !.need = TRUE])
    <2> DEFINE u == [tk EXCEPT !.need = TRUE]
               i == tk.index
               n == NoOp
               o == [n EXCEPT !.fn = "nth", !.nth = i, !.to = to, !.then = "slice"]
    <2>1. TrackerInv(u) /\ u.need
        BY Parts, NeedsOffset
    <2>2. i \in Nat /\ i \in Int /\ i <= to
        BY <1>1, <1>2, Parts DEF TrackerInv, SliceFrom
    <2>3. n \in Calls /\ n.phase = "start"
        BY BloomAssumption
           DEF NoOp, Calls, Lookups, Cookie, Finished, NoPage, NoMore, Unknown
    <2>4. Begin(o, u, u)
        BY <1>2
    <2>5. UNCHANGED cacheVars
        BY <2>4 DEF Begin
    <2> HIDE DEF u, i, n
    <2>6. /\ o \in Calls /\ o.fn = "nth" /\ o.nth = i /\ o.to = to /\ o.then = "slice"
          /\ o.phase = "start"
        BY <1>1, <2>2, <2>3 DEF Calls
    <2> HIDE DEF o
    <2>7. QED
        BY <1>1, <2>1, <2>2, <2>4, <2>5, <2>6, Parts, NthBegins
<1>3. CASE /\ tk.at = "end" /\ tk.index # -1 /\ UNCHANGED cacheVars
           /\ EnterAt([tk EXCEPT !.need = TRUE, !.offset = Off(N)], to)
    <2> DEFINE o == Off(N)
               u == [tk EXCEPT !.need = TRUE, !.offset = o]
    <2>1. o \in Spots /\ o \in Int /\ o # Unknown
        BY Parts, SpotFacts
    <2>2. EnterAt(u, to)
        BY <1>3
    <2> HIDE DEF o
    <2>3. u \in Tracker /\ u.at = tk.at /\ u.index = tk.index /\ u.offset = o
        BY <2>1, Parts DEF Tracker
    <2> HIDE DEF u
    <2>4. TrackerInv(u)
        BY <1>3, <2>1, <2>3, Parts DEF TrackerInv
    <2>5. SliceFrom(u) <= to
        BY <1>1, <2>3 DEF SliceFrom
    <2>6. QED
        BY <1>1, <1>3, <2>1, <2>2, <2>3, <2>4, <2>5, Parts, Entered
<1>4. CASE /\ tk.at = "nil" \/ tk.index = -1 \/ tk.offset # Unknown
           /\ EnterAt(tk, to) /\ UNCHANGED cacheVars
    <2>1. tk.index # -1 => tk.offset # Unknown
        BY <1>4, Parts DEF TrackerInv
    <2>2. QED
        BY <1>1, <1>4, <2>1, Parts, Entered
<1>5. QED
    BY <1>2, <1>3, <1>4 DEF EnterSlice

\* Returning from a slice.
LEMMA ReturnFromSliceCalled ==
    ASSUME IInv, ReturnFromSlice
    PROVE  StateInv' /\ arr' = arr /\ UNCHANGED cacheVars
<1>1. /\ win' = Whole /\ arr' = arr /\ tk' = tk /\ xtk' = xtk /\ op' = op /\ op.fn = "none"
      /\ UNCHANGED cacheVars
    BY DEF ReturnFromSlice, Free
<1>2. WinInv'
    <2>1. Spots' = Spots /\ 0 \in Spots
        BY <1>1, SameArray, SpotFacts, Parts DEF Spots
    <2>2. QED
        BY <1>1, <2>1 DEF WinInv, Whole
<1>3. TrackerInv(tk)'
    BY <1>1, TrackerStays, Parts
<1>4. CallInv'
    BY <1>1, Parts DEF CallInv, NthInv, LookupInv, Lookups, IInv, StateInv
<1>5. QED
    BY <1>1, <1>2, <1>3, <1>4 DEF StateInv

\* Going to the n-th item with a key.
LEMMA NthWithKeyCalled ==
    ASSUME IInv, NEW k \in Word, NEW n \in Nat, GotoNthWithKey(k, n)
    PROVE  StateInv' /\ arr' = arr /\ UNCHANGED cacheVars
<1> DEFINE c == NoOp
           f == win.from
           e == win.to
           g == "with_key"
           o == [c EXCEPT !.fn = g, !.key = k, !.nth = n, !.from = f, !.to = e]
<1>1. c \in Calls /\ c.phase = "start"
    BY BloomAssumption
       DEF NoOp, Calls, Lookups, Cookie, Finished, NoPage, NoMore, Unknown
<1>2. /\ f \in Nat /\ e \in Int /\ g \in {"none", "nth"} \cup Lookups
      /\ k \in Word \cup {Unknown} /\ n \in Int
    BY Parts DEF Lookups
<1>3. Begin(o, tk, tk) /\ UNCHANGED cacheVars /\ arr.indexed
    BY DEF GotoNthWithKey, Begin
<1> HIDE DEF c, f, e, g
<1> DEFINE p == [c EXCEPT !.fn = g, !.key = k, !.nth = n]
<1>4. p \in Calls /\ p.fn = g /\ p.phase = "start"
    BY <1>1, <1>2 DEF Calls
<1>5. o = [p EXCEPT !.from = f, !.to = e]
    BY <1>1 DEF Calls
<1> HIDE DEF o, p
<1>6. o \in Calls /\ o.fn = g /\ o.phase = "start"
    BY <1>2, <1>4, <1>5 DEF Calls
<1>7. QED
    BY <1>3, <1>6, Parts, LookupBegins DEF g

\* Going to the next item with a key.
LEMMA NextWithKeyCalled ==
    ASSUME IInv, NEW k \in Word, GotoNextWithKey(k)
    PROVE  StateInv' /\ arr' = arr /\ UNCHANGED cacheVars
<1>1. CASE GotoNthWithKey(k, 0)
    BY <1>1, NthWithKeyCalled
<1>2. CASE /\ tk.at = "item"
           /\ Begin([NoOp EXCEPT !.fn = "next_key", !.key = k,
                                !.from = tk.index + 1, !.to = win.to], tk, tk)
    <2> DEFINE c == NoOp
               f == tk.index + 1
               e == win.to
               g == "next_key"
               o == [c EXCEPT !.fn = g, !.key = k, !.from = f, !.to = e]
    <2>1. c \in Calls /\ c.phase = "start"
        BY BloomAssumption
           DEF NoOp, Calls, Lookups, Cookie, Finished, NoPage, NoMore, Unknown
    <2>2. f \in Nat /\ e \in Int /\ g \in {"none", "nth"} \cup Lookups
        BY <1>2, Parts DEF Lookups, TrackerInv
    <2>3. Begin(o, tk, tk) /\ UNCHANGED cacheVars /\ arr.indexed
        BY <1>2 DEF GotoNextWithKey, Begin
    <2> HIDE DEF c, f, e, g
    <2>4. o \in Calls /\ o.fn = g /\ o.phase = "start"
        BY <2>1, <2>2 DEF Calls
    <2> HIDE DEF o
    <2>5. QED
        BY <2>3, <2>4, Parts, LookupBegins DEF g
<1>3. QED
    BY <1>1, <1>2 DEF GotoNextWithKey

(* The rank of an item is asked for: its key is read where it is.          *)
LEMMA TwinsCalled ==
    ASSUME IInv, NEW t, TwinsAt(t), t.offset \in Spots, arr.indexed
    PROVE  StateInv' /\ arr' = arr
<1> DEFINE r == ItemAt(t.offset)
<1>1. CASE Return(tk, "error")
    BY <1>1, Parts, Returned
<1>2. CASE t.offset # Off(N) /\ Continue(TwinCall(r), xtk)
    <2>1. r \in 0 .. (N - 1)
        BY <1>2, SpotFacts, Parts
    <2> DEFINE i == tk.index
               k == Key(r)
               f == win.from
               l == last
               g == "twin"
               h == "start"
               o == [op EXCEPT !.fn = g, !.phase = h, !.nth = i, !.key = k,
                              !.from = f, !.known = l]
    <2>2. k \in Word
        BY <2>1, Keys, Parts
    <2>3. /\ i \in Int /\ k \in Word \cup {Unknown} /\ f \in Nat /\ l \in Int
          /\ g \in {"none", "nth"} \cup Lookups
          /\ h \in {"start", "walk", "mark", "scan", "tail", "tailscan", "over"}
        BY <2>2, Parts DEF Lookups, Tracker
    <2>4. op' = o /\ xtk' = xtk /\ arr' = arr /\ win' = win /\ tk' = tk
        BY <1>2 DEF Continue, TwinCall
    <2> HIDE DEF i, k, f, l, g, h
    <2>5. o \in Calls /\ o.fn = g /\ o.phase = h
        BY <2>3, Parts, ZenonT(60) DEF Calls
    <2> HIDE DEF o
    <2>6. TrackerInv(tk)' /\ WinInv'
        BY <2>4, TrackerStays, WinStays, Parts
    <2>7. CallInv'
        BY <2>4, <2>5, Parts DEF CallInv, NthInv, LookupInv, Lookups, g, h
    <2>8. QED
        BY <2>4, <2>6, <2>7 DEF StateInv
<1>3. QED
    BY <1>1, <1>2 DEF TwinsAt

\* Asking which of the items with its key the item is.
LEMMA GetTwinCalled ==
    ASSUME IInv, GetTwin
    PROVE  StateInv' /\ arr' = arr /\ UNCHANGED cacheVars
<1>1. CASE Begin([NoOp EXCEPT !.fn = "nth", !.nth = tk.index, !.then = "twin"],
                 tk, [tk EXCEPT !.need = TRUE])
    <2> DEFINE u == [tk EXCEPT !.need = TRUE]
               i == tk.index
               n == NoOp
               o == [n EXCEPT !.fn = "nth", !.nth = i, !.then = "twin"]
    <2>1. TrackerInv(u) /\ u.need
        BY Parts, NeedsOffset
    <2>2. i \in Nat /\ i \in Int /\ tk.at = "item" /\ arr.indexed
        BY Parts DEF TrackerInv, GetTwin
    <2>3. n \in Calls /\ n.phase = "start"
        BY BloomAssumption
           DEF NoOp, Calls, Lookups, Cookie, Finished, NoPage, NoMore, Unknown
    <2>4. Begin(o, tk, u)
        BY <1>1
    <2>5. UNCHANGED cacheVars
        BY <2>4 DEF Begin
    <2> HIDE DEF u, n
    <2>6. /\ o \in Calls /\ o.fn = "nth" /\ o.nth = i /\ o.then = "twin"
          /\ o.phase = "start"
        BY <2>2, <2>3 DEF Calls
    <2> HIDE DEF o
    <2>7. QED
        BY <2>1, <2>2, <2>4, <2>5, <2>6, Parts, NthBegins
<1>2. CASE tk.offset # Unknown /\ TwinsAt(tk) /\ UNCHANGED cacheVars
    <2>1. tk.offset \in Spots /\ arr.indexed
        BY <1>2, Parts DEF TrackerInv, GetTwin
    <2>2. QED
        BY <1>2, <2>1, TwinsCalled
<1>3. QED
    BY <1>1, <1>2 DEF GetTwin

\* Every call begins in a good state and leaves the cache alone.
LEMMA CallKeeps ==
    ASSUME IInv, Call
    PROVE  StateInv' /\ arr' = arr /\ UNCHANGED cacheVars
<1>1. CASE GotoFirst
    BY <1>1, Parts, FirstCalled DEF GotoFirst
<1>2. CASE GotoNext \/ ItemOffset \/ Rewind \/ ReturnFromSlice \/ GetTwin
    BY <1>2, GotoNextCalled, ItemOffsetCalled, RewindCalled, ReturnFromSliceCalled,
       GetTwinCalled
<1>3. CASE \E i \in 0 .. N : GotoNth(i) \/ EnterSlice(i)
    BY <1>3, GotoNthCalled, EnterSliceCalled
<1>4. CASE \E k \in Word : GotoNextWithKey(k) \/ \E n \in 0 .. MaxTwin : GotoNthWithKey(k, n)
    BY <1>4, NextWithKeyCalled, NthWithKeyCalled
<1>5. QED
    BY <1>1, <1>2, <1>3, <1>4 DEF Call

-----------------------------------------------------------------------------
(***************************************************************************)
(* Going to the n-th item keeps the invariant.                             *)
(***************************************************************************)
LEMMA PlacedSpot ==
    ASSUME arr \in Arrays, NEW t \in Tracker, Placed(t), t.index < N
    PROVE  TrackerInv(t) /\ t.offset \in Spots /\ t.offset # Off(N) /\ t.offset # Unknown
<1>1. t.index \in 0 .. (N - 1) /\ t.index \in 0 .. N /\ N \in 0 .. N
    BY Offsets DEF Placed
<1>2. Off(t.index) \in Spots /\ Off(t.index) # Off(N)
    <2>1. Off(t.index) < Off(N) /\ Off(t.index) \in Nat /\ Off(N) \in Nat
        BY <1>1, Offsets, OffsetsGrow
    <2>2. QED
        BY <1>1, <2>1, SpotFacts
<1>3. Off(t.index) # Unknown
    BY <1>2, SpotFacts
<1>4. QED
    BY <1>1, <1>2, <1>3 DEF Placed, TrackerInv

\* A tracker handed on unchanged is still on its item.
LEMMA PlacedStays ==
    ASSUME arr' = arr, NEW t, Placed(t), xtk' = t
    PROVE  Placed(xtk)'
BY SameArray DEF Placed

\* Once the n-th item is reached, the call goes on as it was meant to.
LEMMA Reached ==
    ASSUME IInv, op.fn = "nth", NEW t, TrackerInv(t), t.at = "item", t.index = op.nth,
           op.then \in {"move", "slice", "twin"} => Placed(t), Reach(t)
    PROVE  StateInv' /\ arr' = arr
<1>1. t \in Tracker /\ t.index \in Nat /\ t.index < N
    BY Parts DEF TrackerInv
<1>2. CASE op.then = "give" /\ Return(t, "ok")
    BY <1>2, Parts, Returned
<1>3. CASE /\ op.then = "first"
           /\ IF t.need
              THEN Return([t EXCEPT !.offset = win.start],
                          IF win.start = Off(N) THEN "error" ELSE "ok")
              ELSE Return(t, "ok")
    <2>1. CASE ~t.need
        BY <1>3, <2>1, Parts, Returned
    <2>2. CASE t.need
        <3> DEFINE o == win.start
                   u == [t EXCEPT !.offset = o]
                   s == IF win.start = Off(N) THEN "error" ELSE "ok"
        <3>1. o \in Spots /\ o \in Int
            BY Parts, SpotFacts
        <3>2. Return(u, s)
            BY <1>3, <2>2
        <3> HIDE DEF o, s
        <3>3. u \in Tracker /\ u.at = t.at /\ u.index = t.index /\ u.offset = o
            BY <1>1, <3>1 DEF Tracker
        <3> HIDE DEF u
        <3>4. TrackerInv(u)
            BY <3>1, <3>3 DEF TrackerInv
        <3>5. QED
            BY <3>2, <3>4, Parts, Returned
    <2>3. QED
        BY <2>1, <2>2
<1>4. CASE op.then \in {"move", "slice", "twin"}
    <2>1. t.offset \in Spots /\ t.offset # Off(N) /\ t.offset # Unknown
        BY <1>1, <1>4, Parts, PlacedSpot
    <2>2. CASE op.then = "move" /\ Give(NextInBox(t))
        BY <2>1, <2>2, Parts, NextInBoxKeeps, Given
    <2>3. CASE op.then = "slice" /\ EnterAt(t, op.to)
        <3>1. op.nth <= op.to /\ op.to <= N /\ op.to \in Int
            BY <2>3, Parts DEF NthInv, Calls
        <3>2. SliceFrom(t) <= op.to
            BY <1>1, <3>1 DEF SliceFrom
        <3>3. QED
            BY <2>1, <2>3, <3>1, <3>2, Parts, Entered
    <2>4. CASE op.then = "twin" /\ TwinsAt(t)
        <3>1. arr.indexed
            BY <2>4, Parts DEF NthInv
        <3>2. QED
            BY <2>1, <2>4, <3>1, TwinsCalled
    <2>5. QED
        BY <1>4, <2>2, <2>3, <2>4 DEF Reach
<1>5. QED
    BY <1>2, <1>3, <1>4 DEF Reach

(* A walk starts on an item, not past the one it goes to.                  *)
LEMMA WalkStarts ==
    ASSUME CacheInv, arr.var, NEW i \in Nat
    PROVE  /\ WalkFrom(i).at = "item" =>
                /\ Placed(WalkFrom(i)) /\ WalkFrom(i) \in Tracker
                /\ WalkFrom(i).index < N /\ WalkFrom(i).index <= i
           /\ WalkFrom(i).at = "end" => N = 0
<1>1. N \in Nat /\ last \in -1 .. (N - 1)
    BY Offsets DEF CacheInv
<1>2. CASE i < last
    <2>1. /\ MarkOf(i) \in Nat /\ MarkOf(i) <= MarkOf(last)
          /\ MarkStart(MarkOf(i)) <= i /\ MarkStart(MarkOf(i)) \in Nat
        <3>1. last \in Nat
            BY <1>1, <1>2
        <3>2. MarkOf(i) <= MarkOf(last)
            BY <1>2, <3>1, ArraysAssumption DEF MarkOf
        <3>3. QED
            BY <3>2, Marks
    <2>2. /\ Placed(AtMark(MarkOf(i))) /\ AtMark(MarkOf(i)) \in Tracker
          /\ AtMark(MarkOf(i)).index = MarkStart(MarkOf(i))
        BY <2>1, MarkPlaced
    <2>3. AtMark(MarkOf(i)).at = "item"
        BY <2>2 DEF Placed
    <2>4. QED
        BY <1>1, <1>2, <2>1, <2>2, <2>3 DEF WalkFrom
<1>3. CASE ~(i < last) /\ last = -1
    <2>1. WalkFrom(i) = FirstItem(LastCached)
        BY <1>3 DEF WalkFrom
    <2> DEFINE f == FirstItem(LastCached)
    <2>2. /\ f \in Tracker /\ (N # 0 => Placed(f) /\ f.index = 0)
          /\ (N = 0 => f.at = "end")
        BY <1>3, FirstPlaced
    <2> HIDE DEF f
    <2>3. /\ f.at = "item" => Placed(f) /\ f.index < N /\ f.index <= i
          /\ f.at = "end" => N = 0
        BY <1>1, <2>2 DEF Placed
    <2>4. QED
        BY <2>1, <2>2, <2>3 DEF f
<1>4. CASE ~(i < last) /\ last # -1
    <2>1. WalkFrom(i) = LastCached
        BY <1>4 DEF WalkFrom
    <2>2. /\ Placed(LastCached) /\ LastCached \in Tracker /\ LastCached.index = last
          /\ last \in Nat /\ last < N
        BY <1>4, LastPlaced
    <2>3. LastCached.at = "item"
        BY <2>2 DEF Placed
    <2>4. QED
        BY <1>4, <2>1, <2>2, <2>3
<1>5. QED
    BY <1>2, <1>3, <1>4

(* The walk goes on.                                                       *)
LEMMA WalkGoesOn ==
    ASSUME IInv, op.fn = "nth", arr.var, NEW o \in Calls, o.fn = "nth", o.phase = "walk",
           o.nth = op.nth, o.to = op.to, o.then = op.then,
           NEW t \in Tracker, Placed(t), t.index < N, t.index <= op.nth,
           Continue(o, t)
    PROVE  StateInv' /\ arr' = arr
<1>1. op' = o /\ xtk' = t /\ arr' = arr /\ win' = win /\ tk' = tk
    BY DEF Continue
<1>2. TrackerInv(tk)' /\ WinInv' /\ Placed(xtk)' /\ N' = N
    BY <1>1, TrackerStays, WinStays, PlacedStays, SameArray, Parts
<1>3. NthInv'
    BY <1>1, <1>2, Parts DEF NthInv
<1>4. CallInv'
    BY <1>1, <1>3 DEF CallInv, LookupInv, Lookups
<1>5. QED
    BY <1>1, <1>2, <1>4 DEF StateInv

\* Going to the n-th item starts from the tracker, or from a mark of the cache.
LEMMA StartNthKeeps ==
    ASSUME IInv, StartNth
    PROVE  StateInv' /\ arr' = arr /\ UNCHANGED cacheVars
<1> DEFINE i == op.nth
<1>1. /\ op.fn = "nth" /\ op.phase = "start" /\ UNCHANGED cacheVars
      /\ i \in Nat /\ TrackerInv(xtk) /\ xtk \in Tracker /\ N \in Nat
      /\ xtk.offset \in Int
    BY Parts DEF StartNth, NthInv, Tracker
<1>2. CASE Return(tk, "no_item")
    BY <1>1, <1>2, Parts, Returned
<1>3. CASE i < N /\ ~xtk.need /\ Reach(At(xtk, i, xtk.offset))
    <2> DEFINE t == At(xtk, i, xtk.offset)
    <2>1. /\ t \in Tracker /\ t.at = "item" /\ t.index = i /\ t.offset = xtk.offset
        BY <1>1, AtIs
    <2> HIDE DEF t
    <2>2. TrackerInv(t)
        BY <1>1, <1>3, <2>1 DEF TrackerInv
    <2>3. op.then \notin {"move", "slice", "twin"}
        BY <1>1, <1>3, Parts DEF NthInv
    <2>4. Reach(t)
        BY <1>3 DEF t
    <2>5. QED
        BY <1>1, <2>1, <2>2, <2>3, <2>4, Reached
<1>4. CASE i < N /\ xtk.need /\ Reach(At(xtk, i, Off(i)))
    <2> DEFINE t == At(xtk, i, Off(i))
    <2>1. Off(i) \in Int
        BY <1>1, <1>4, Offsets, Parts
    <2>2. t \in Tracker /\ t.at = "item" /\ t.index = i /\ t.offset = Off(i) /\ t.need = xtk.need
        BY <1>1, <2>1, AtIs
    <2>3. Reach(t)
        BY <1>4
    <2> HIDE DEF t
    <2>4. Placed(t)
        BY <1>1, <1>4, <2>2 DEF Placed
    <2>5. TrackerInv(t)
        BY <1>1, <1>4, <2>2, <2>4, PlacedSpot, Parts
    <2>6. QED
        BY <1>1, <2>2, <2>3, <2>4, <2>5, Reached
<1>5. CASE /\ arr.var /\ WalkFrom(i).at = "item"
           /\ Continue([op EXCEPT !.phase = "walk"], WalkFrom(i))
    <2> DEFINE h == "walk"
               o == [op EXCEPT !.phase = h]
               t == WalkFrom(i)
    <2>1. Placed(t) /\ t \in Tracker /\ t.index < N /\ t.index <= i
        BY <1>1, <1>5, WalkStarts, Parts
    <2>2. Continue(o, t)
        BY <1>5
    <2>3. h \in {"start", "walk", "mark", "scan", "tail", "tailscan", "over"}
        OBVIOUS
    <2> HIDE DEF h, t
    <2>4. /\ o \in Calls /\ o.fn = "nth" /\ o.phase = h /\ o.nth = op.nth /\ o.to = op.to
          /\ o.then = op.then
        BY <1>1, <2>3, Parts DEF Calls
    <2> HIDE DEF o
    <2>5. o.phase = "walk"
        BY <2>4 DEF h
    <2>6. QED
        BY <1>1, <1>5, <2>1, <2>2, <2>4, <2>5, WalkGoesOn
<1>6. QED
    BY <1>2, <1>3, <1>4, <1>5 DEF StartNth

\* A walk to the n-th item caches each item it comes to.
LEMMA WalkNthKeeps ==
    ASSUME IInv, WalkNth
    PROVE  StateInv' /\ arr' = arr /\ CacheInv'
<1>1. /\ op.fn = "nth" /\ op.phase = "walk" /\ arr.var /\ Placed(xtk) /\ xtk.index < N
      /\ xtk.index <= op.nth /\ xtk \in Tracker /\ op.nth \in Nat
    BY Parts DEF WalkNth, NthInv
<1>2. CASE Return(tk, "error") /\ UNCHANGED cacheVars
    BY <1>2, Parts, Returned, CacheStays
<1>3. CASE /\ CacheOnPass(xtk)
           /\ \/ xtk.index = op.nth /\ Reach(xtk)
              \/ xtk.index # op.nth /\ NextItem(xtk).at = "end" /\ Return(tk, "no_item")
              \/ /\ xtk.index # op.nth /\ NextItem(xtk).at = "item"
                 /\ Continue(op, NextItem(xtk))
    <2>1. TrackerInv(xtk) /\ xtk.at = "item"
        BY <1>1, PlacedSpot, Parts DEF Placed
    <2> DEFINE next == NextItem(xtk)
    <2>2. CASE xtk.index = op.nth /\ Reach(xtk)
        <3>1. StateInv' /\ arr' = arr
            BY <1>1, <2>1, <2>2, Reached
        <3>2. QED
            BY <1>1, <1>3, <3>1, ItemPassed, Parts
    <2>3. CASE Return(tk, "no_item")
        <3>1. StateInv' /\ arr' = arr
            BY <2>3, Parts, Returned
        <3>2. QED
            BY <1>1, <1>3, <3>1, ItemPassed, Parts
    <2>4. CASE xtk.index # op.nth /\ next.at = "item" /\ Continue(op, next)
        <3>1. next \in Tracker /\ next.index = xtk.index + 1 /\ Placed(next) /\ next.index < N
            BY <1>1, <2>4, NextPlaced, Parts
        <3> HIDE DEF next
        <3>2. next.index <= op.nth
            BY <1>1, <2>4, <3>1 DEF Placed
        <3>3. StateInv' /\ arr' = arr
            BY <1>1, <2>4, <3>1, <3>2, WalkGoesOn, Parts
        <3>4. QED
            BY <1>1, <1>3, <3>3, ItemPassed, Parts
    <2>5. QED
        BY <1>3, <2>2, <2>3, <2>4
<1>4. QED
    BY <1>2, <1>3 DEF WalkNth

-----------------------------------------------------------------------------
(***************************************************************************)
(* Looking keys up keeps the invariant.                                    *)
(***************************************************************************)
LEMMA BookLengths ==
    ASSUME CacheInv, arr.indexed
    PROVE  /\ Len(book.marks) = MarkOf(last) + 1 /\ Len(book.marks) \in Nat
           /\ Len(book.pages) = PagesOf(Len(book.marks)) /\ Len(book.pages) \in Nat
<1> DEFINE k == MarkOf(last) + 1
<1>1. last \in Int /\ last + 1 \in Nat /\ (last + 1) - 1 = last /\ book = BookOf(last + 1)
    BY Offsets DEF CacheInv, CacheIsPrefix
<1>2. MarkOf(last) \in Int /\ k \in Nat
    BY <1>1, Offsets, ArraysAssumption DEF MarkOf, CacheInv
<1>3. PagesOf(k) = PageOf(MarkOf(last)) + 1
    <2>1. k = 0 => PageOf(MarkOf(last)) = -1
        BY <1>2, BloomAssumption DEF PageOf
    <2>2. k - 1 = MarkOf(last)
        BY <1>2
    <2>3. QED
        BY <2>1, <2>2 DEF PagesOf
<1>4. PagesOf(k) \in Nat
    BY <1>2, PagesGrow
<1> DEFINE n == last + 1
<1>5. n \in Nat /\ n \in 0 .. (n + 1) /\ MarkOf(n - 1) + 1 = k
      /\ PageOf(MarkOf(n - 1)) + 1 = PagesOf(k)
    BY <1>1, <1>3
<1> HIDE DEF n, k
<1>6. BookOf(n) = [marks |-> Filters(Short, MarkGroup(n), ShortOf(n), n, k),
                   pages |-> Filters(Long, PageGroup(n), LongOf(n), n, PagesOf(k))]
    BY <1>5, BookByFilters
<1>7. Len(BookOf(n).marks) = k /\ Len(BookOf(n).pages) = PagesOf(k)
    BY <1>2, <1>4, <1>6, FiltersLength
<1>8. QED
    BY <1>1, <1>2, <1>4, <1>7 DEF n, k

\* The phases of a lookup belong to a lookup in an indexed array.
LEMMA LooksUp ==
    ASSUME IInv, op.phase \in {"mark", "scan", "tail", "tailscan", "over"}
    PROVE  op.fn \in Lookups /\ arr.indexed
<1>1. op.fn # "nth"
    BY Parts DEF NthInv
<1>2. op.fn # "none"
    BY DEF IInv, StateInv, CallInv, NoOp
<1>3. op.fn \in Lookups
    BY <1>1, <1>2, Parts DEF Calls
<1>4. QED
    BY <1>3, Parts DEF LookupInv

(* A lookup goes on.                                                       *)
LEMMA LookupGoesOn ==
    ASSUME IInv, op.fn \in Lookups, NEW o \in Calls, o.fn = op.fn, o.phase # "walk",
           NEW x \in Tracker, Continue(o, x),
           o.phase \in {"scan", "tailscan"} => Placed(x),
           o.phase = "tailscan" => x.index < N,
           o.phase = "scan" => LET m == CookieMark(o.cookie) IN
                               /\ m \in Nat
                               /\ x.index \in MarkStart(m) .. MarkStart(m + 1)
                               /\ m <= MarkOf(last') \/ m > MarkOf(last') + 1
    PROVE  StateInv' /\ arr' = arr
<1>1. op' = o /\ xtk' = x /\ arr' = arr /\ win' = win /\ tk' = tk
    BY DEF Continue
<1>2. TrackerInv(tk)' /\ WinInv' /\ N' = N /\ arr.indexed
    BY <1>1, TrackerStays, WinStays, SameArray, Parts DEF LookupInv
<1>3. o.phase \in {"scan", "tailscan"} => Placed(xtk)'
    BY <1>1, PlacedStays
<1>4. o.phase = "scan" => ScanInv'
    BY <1>1 DEF ScanInv, ScannedMark, MarkOf
<1>5. CallInv'
    BY <1>1, <1>2, <1>3, <1>4 DEF CallInv, NthInv, LookupInv, Lookups
<1>6. QED
    BY <1>1, <1>2, <1>5 DEF StateInv

(* A lookup that leaves its scan.                                          *)
LEMMA LookupMovesOn ==
    ASSUME IInv, op.fn \in Lookups, NEW h \in {"mark", "tail", "over"},
           NEW n \in Int, NEW c \in Cookie, NEW o,
           o = [op EXCEPT !.count = n, !.phase = h, !.cookie = c],
           NEW x \in Tracker, Continue(o, x)
    PROVE  StateInv' /\ arr' = arr
<1>1. h \in {"start", "walk", "mark", "scan", "tail", "tailscan", "over"}
    OBVIOUS
<1>2. o \in Calls /\ o.fn = op.fn /\ o.phase = h
    BY <1>1, Parts DEF Calls
<1>3. QED
    BY <1>2, LookupGoesOn

\* A lookup that found nothing in the cache goes on at its end.
LEMMA ToTailKeeps ==
    ASSUME IInv, op.fn \in Lookups, ToTail
    PROVE  StateInv' /\ arr' = arr
<1> DEFINE h == "tail"
           n == op.count
           c == op.cookie
<1>1. h \in {"mark", "tail", "over"} /\ n \in Int /\ c \in Cookie
    BY Parts DEF Calls
<1>2. Continue([op EXCEPT !.phase = h], xtk)
    BY DEF ToTail
<1> HIDE DEF h
<1>3. [op EXCEPT !.phase = h] = [op EXCEPT !.count = n, !.phase = h, !.cookie = c]
    BY Parts DEF Calls
<1> HIDE DEF n, c
<1>4. QED
    BY <1>1, <1>2, <1>3, Parts, LookupMovesOn

(* A lookup that begins to look in the book.                               *)
LEMMA OpenLookupKeeps ==
    ASSUME IInv, OpenLookup
    PROVE  StateInv' /\ arr' = arr /\ UNCHANGED cacheVars
<1>1. op.fn \in Lookups /\ UNCHANGED cacheVars /\ arr.indexed
    BY Parts DEF OpenLookup, Lookups, LookupInv
<1>2. CASE ToTail
    BY <1>1, <1>2, ToTailKeeps
<1>3. CASE Continue([op EXCEPT !.phase = "mark", !.cookie = CookieFrom(op.from)], xtk)
    <2> DEFINE h == "mark"
               n == op.count
               c == CookieFrom(op.from)
               o == [op EXCEPT !.count = n, !.phase = h, !.cookie = c]
    <2>1. MarkOf(op.from) \in Nat
        BY Marks, Parts DEF Calls
    <2>2. c \in Cookie
        BY <1>1, <2>1, BookLengths, LookupStarts, Parts DEF CookieFrom
    <2>3. h \in {"mark", "tail", "over"} /\ n \in Int
        BY Parts DEF Calls
    <2>4. Continue([op EXCEPT !.phase = h, !.cookie = c], xtk)
        BY <1>3
    <2> HIDE DEF h, c
    <2>5. [op EXCEPT !.phase = h, !.cookie = c] = o
        BY Parts DEF Calls
    <2> HIDE DEF n, o
    <2>6. o = [op EXCEPT !.count = n, !.phase = h, !.cookie = c]
        BY DEF o
    <2>7. StateInv' /\ arr' = arr
        BY <1>1, <2>2, <2>3, <2>4, <2>5, <2>6, Parts, LookupMovesOn
    <2>8. QED
        BY <1>1, <2>7
<1>4. QED
    BY <1>2, <1>3 DEF OpenLookup

(* The next mark that may have the key.                                    *)
LEMMA NextMarkKeeps ==
    ASSUME IInv, NextMark
    PROVE  StateInv' /\ arr' = arr /\ UNCHANGED cacheVars
<1> DEFINE c == NextCandidate(book, op.key, op.cookie)
           m == CookieMark(c)
<1>1. op.fn \in Lookups /\ arr.indexed /\ op.phase = "mark" /\ UNCHANGED cacheVars
    BY LooksUp DEF NextMark
<1>2. CASE m = NoMark /\ ToTail
    BY <1>1, <1>2, ToTailKeeps
<1>3. CASE Return(tk, "abort")
    BY <1>1, <1>3, Parts, Returned
<1>4. CASE /\ m # NoMark /\ (arr.var => m < Len(offsets))
           /\ Continue([op EXCEPT !.phase = "scan", !.cookie = c], AtMark(m))
    <2> DEFINE k == Len(book.marks)
               C == Candidates(book, op.key, op.cookie)
    <2>1. /\ k \in Nat /\ k = MarkOf(last) + 1 /\ Len(book.pages) = PagesOf(k)
          /\ Len(book.pages) \in Nat /\ op.cookie \in Cookie
        BY <1>1, BookLengths, Parts DEF Calls
    <2>2. op.cookie # Finished /\ C # {}
        <3>1. c # Finished
            BY <1>4 DEF CookieMark, Finished, NoPage, NoMark
        <3>2. QED
            BY <3>1 DEF NextCandidate
    <2>3. c \in Cookie /\ m = Least(C) /\ m \in Nat
        BY <2>1, <2>2, NextIsLeast
    <2>4. m \in C
        BY <2>1, <2>2, <2>3, CandidatesAreMarks, LeastMark
    <2>5. m # k
        BY <2>1, <2>4, CandidateIsNotNext
    <2> HIDE DEF c, m, C
    <2>16. MarkOf(last) \in Int
        BY Parts, ArraysAssumption DEF MarkOf
    <2>6. m <= MarkOf(last) \/ m > MarkOf(last) + 1
        BY <2>1, <2>3, <2>5, <2>16
    <2>7. arr.var => m <= MarkOf(last)
        <3>1. arr.var => Len(offsets) = MarkOf(last) + 1
            BY Parts DEF CacheInv, CacheIsPrefix
        <3>2. QED
            BY <1>4, <2>3, <2>16, <3>1
    <2> DEFINE x == AtMark(m)
               h == "scan"
               o == [op EXCEPT !.phase = h, !.cookie = c]
    <2>8. x \in Tracker /\ Placed(x) /\ x.index = MarkStart(m)
        BY <2>3, <2>7, MarkPlaced, Parts
    <2>9. x.index \in MarkStart(m) .. MarkStart(m + 1)
        <3>1. /\ MarkStart(m) \in Nat /\ MarkStart(m + 1) \in Nat
              /\ MarkStart(m) <= MarkStart(m + 1)
            BY <2>3, ArraysAssumption DEF MarkStart
        <3>2. QED
            BY <2>8, <3>1
    <2>10. Continue(o, x)
        BY <1>4
    <2>11. h \in {"start", "walk", "mark", "scan", "tail", "tailscan", "over"}
        OBVIOUS
    <2> HIDE DEF h, x
    <2>12. o \in Calls /\ o.fn = op.fn /\ o.phase = h /\ o.cookie = c
        BY <2>3, <2>11, Parts DEF Calls
    <2> HIDE DEF o
    <2>13. o.phase = "scan" /\ CookieMark(o.cookie) = m /\ last' = last
        BY <1>1, <2>12 DEF h, m, cacheVars
    <2>14. StateInv' /\ arr' = arr
        BY <1>1, <2>3, <2>6, <2>8, <2>9, <2>10, <2>12, <2>13, LookupGoesOn
    <2>15. QED
        BY <1>1, <2>14
<1>5. QED
    BY <1>2, <1>3, <1>4 DEF NextMark

(* The scan goes on to the next item, or ends with the array.              *)
LEMMA GoOnKeeps ==
    ASSUME IInv, op.phase \in {"scan", "tailscan"}, NEW n \in Int,
           NEW h \in {"mark", "tail", "over"}, xtk.index < N, GoOn(n, h),
           op.phase = "scan" =>
             /\ xtk.index < MarkStart(ScannedMark + 1)
             /\ ScannedMark <= MarkOf(last') \/ ScannedMark > MarkOf(last') + 1
    PROVE  StateInv' /\ arr' = arr
<1> DEFINE x == NextItem(xtk)
           c == op.cookie
<1>1. op.fn \in Lookups /\ arr.indexed /\ Placed(xtk) /\ xtk \in Tracker /\ c \in Cookie
    BY LooksUp, Parts DEF LookupInv, Calls
<1>2. /\ x \in Tracker /\ x.index = xtk.index + 1
      /\ x.at = "item" => Placed(x) /\ x.index < N
      /\ x.at # "item" => x.at = "end"
    BY <1>1, NextPlaced, Parts
<1>3. CASE x.at = "end" /\ Continue([op EXCEPT !.count = n, !.phase = h], x)
    <2> DEFINE o == [op EXCEPT !.count = n, !.phase = h, !.cookie = c]
    <2> HIDE DEF x
    <2>1. [op EXCEPT !.count = n, !.phase = h] = o
        BY Parts DEF Calls
    <2>2. o = [op EXCEPT !.count = n, !.phase = h, !.cookie = c]
        OBVIOUS
    <2>3. Continue(o, x)
        BY <1>3, <2>1
    <2> HIDE DEF o, c
    <2>4. QED
        BY <1>1, <1>2, <2>2, <2>3, LookupMovesOn
<1>4. CASE x.at # "end" /\ Continue([op EXCEPT !.count = n], x)
    <2> DEFINE o == [op EXCEPT !.count = n]
    <2> HIDE DEF x
    <2>1. /\ o \in Calls /\ o.fn = op.fn /\ o.phase = op.phase
          /\ o.cookie = op.cookie
        BY Parts DEF Calls
    <2>2. Continue(o, x)
        BY <1>4
    <2> HIDE DEF o, c
    <2>3. Placed(x) /\ x.index < N
        BY <1>2, <1>4
    <2>4. o.phase = "scan" => LET m == CookieMark(o.cookie) IN
                              /\ m \in Nat
                              /\ x.index \in MarkStart(m) .. MarkStart(m + 1)
                              /\ m <= MarkOf(last') \/ m > MarkOf(last') + 1
        <3>1. ASSUME o.phase = "scan"
              PROVE  /\ ScannedMark \in Nat
                     /\ x.index \in MarkStart(ScannedMark) .. MarkStart(ScannedMark + 1)
                     /\ ScannedMark <= MarkOf(last') \/ ScannedMark > MarkOf(last') + 1
            <4>1. /\ ScannedMark \in Nat
                  /\ xtk.index \in MarkStart(ScannedMark) .. MarkStart(ScannedMark + 1)
                BY <1>1, <2>1, <3>1, Parts DEF LookupInv, ScanInv
            <4>2. MarkStart(ScannedMark) \in Nat /\ MarkStart(ScannedMark + 1) \in Nat
                BY <4>1, ArraysAssumption DEF MarkStart
            <4>3. QED
                BY <1>2, <2>1, <3>1, <4>1, <4>2
        <3>2. QED
            BY <2>1, <3>1 DEF ScannedMark
    <2>5. QED
        BY <1>1, <1>2, <2>1, <2>2, <2>3, <2>4, LookupGoesOn
<1>5. QED
    BY <1>3, <1>4 DEF GoOn

(* The key of an item is read.                                             *)
LEMMA KeyReadKeeps ==
    ASSUME IInv, arr' = arr, op.phase \in {"scan", "tailscan"}, KeyRead
    PROVE  /\ CacheInv' /\ xtk.index < N
           /\ \/ last' = last /\ book' = book
              \/ /\ last' = last + 1 /\ xtk.index = last + 1
                 /\ arr.indexed /\ ~Marked(xtk.index) => Len(book'.pages) = Len(book.pages)
<1>1. arr.indexed /\ Placed(xtk) /\ xtk.index \in Nat
    BY LooksUp, Parts DEF LookupInv, Placed
<1>2. xtk.index < N /\ CacheOnPass(xtk)
    BY <1>1, Parts DEF KeyRead, KeyFails
<1>3. QED
    BY <1>1, <1>2, ItemPassed, Parts

(* The key of an item cannot be read.                                      *)
LEMMA KeyFailedKeeps ==
    ASSUME IInv, KeyFailed
    PROVE  StateInv' /\ arr' = arr /\ CacheInv'
<1>1. Return(tk, "error") /\ UNCHANGED cacheVars
    BY DEF KeyFailed
<1>2. StateInv' /\ arr' = arr
    BY <1>1, Parts, Returned
<1>3. QED
    BY <1>1, <1>2, Parts, CacheStays

(* The lookup ends at the item it was to find.                             *)
LEMMA FoundKeeps ==
    ASSUME IInv, op.phase \in {"scan", "tailscan"}, xtk.index < N, NEW n, Found(n)
    PROVE  StateInv' /\ arr' = arr
<1>1. Placed(xtk) /\ TrackerInv(xtk)
    BY LooksUp, PlacedSpot, Parts DEF LookupInv
<1>2. CASE op.fn # "twin"
    BY <1>1, <1>2, Parts, Returned DEF Found
<1>3. CASE op.fn = "twin"
    <2>1. op' = NoOp /\ xtk' = Rewound /\ arr' = arr /\ win' = win /\ tk' = tk
        BY <1>3 DEF Found
    <2>2. QED
        BY <2>1, NoCall, WinStays, TrackerStays, Parts DEF StateInv
<1>4. QED
    BY <1>2, <1>3

(* The mark that is scanned stays one the cache has, or one it will not    *)
(* have next, when an item of it is cached.                                *)
LEMMA ScannedMarkStays ==
    ASSUME IInv, op.phase = "scan", xtk.index # ScanEnd, arr' = arr, KeyRead
    PROVE  /\ xtk.index < MarkStart(ScannedMark + 1)
           /\ ScannedMark <= MarkOf(last') \/ ScannedMark > MarkOf(last') + 1
           /\ xtk.index = last + 1 => ~Marked(xtk.index)
<1> DEFINE m == ScannedMark
           i == xtk.index
<1>1. /\ m \in Nat /\ i \in MarkStart(m) .. MarkStart(m + 1)
      /\ m <= MarkOf(last) \/ m > MarkOf(last) + 1
    BY LooksUp, Parts DEF LookupInv, ScanInv
<1>2. MarkStart(m) \in Nat /\ MarkStart(m + 1) \in Nat /\ i # MarkStart(m + 1)
    BY <1>1, ArraysAssumption DEF MarkStart, ScanEnd
<1> HIDE DEF m, i
<1>3. i \in Nat /\ MarkStart(m) <= i /\ i < MarkStart(m + 1)
    BY <1>1, <1>2
<1>4. MarkOf(i) = m
    BY <1>1, <1>3, Marks
<1>5. /\ last \in {-1} \cup Nat /\ MarkOf(last) \in Int
      /\ MarkOf(last + 1) = IF Marked(last + 1) THEN MarkOf(last) + 1 ELSE MarkOf(last)
    <2>1. last \in {-1} \cup Nat
        BY Parts DEF CacheInv
    <2>2. MarkOf(last) \in Int
        BY <2>1, ArraysAssumption DEF MarkOf
    <2>3. MarkOf(last + 1) = IF Marked(last + 1) THEN MarkOf(last) + 1 ELSE MarkOf(last)
        BY <2>1, Marks, Zenon
    <2>4. QED
        BY <2>1, <2>2, <2>3
<1>6. i = last + 1 => ~Marked(i)
    BY <1>1, <1>4, <1>5
<1>7. last' = last \/ (last' = last + 1 /\ i = last + 1)
    <2>1. op.phase \in {"scan", "tailscan"}
        OBVIOUS
    <2>2. QED
        BY <2>1, KeyReadKeeps, Zenon DEF i
<1>8. m <= MarkOf(last') \/ m > MarkOf(last') + 1
    <2>1. CASE last' = last
        BY <1>1, <2>1
    <2>2. CASE last' = last + 1 /\ i = last + 1
        BY <1>1, <1>4, <1>5, <2>2
    <2>3. QED
        BY <1>7, <2>1, <2>2
<1>9. QED
    BY <1>3, <1>6, <1>8 DEF m, i

(* A step of the scan of a mark.                                           *)
LEMMA ScanKeeps ==
    ASSUME IInv, Scan
    PROVE  StateInv' /\ arr' = arr /\ CacheInv'
<1>1. op.phase = "scan" /\ op.fn \in Lookups /\ op.count \in Int
    BY LooksUp, Parts DEF Scan, Calls
<1>2. CASE xtk.index # ScanEnd /\ KeyFailed
    BY <1>2, KeyFailedKeeps
<1>3. CASE Continue([op EXCEPT !.phase = "mark"], xtk) /\ UNCHANGED cacheVars
    <2> DEFINE h == "mark"
               n == op.count
               c == op.cookie
               o == [op EXCEPT !.count = n, !.phase = h, !.cookie = c]
    <2>1. h \in {"mark", "tail", "over"} /\ n \in Int /\ c \in Cookie
        BY Parts DEF Calls
    <2>2. Continue([op EXCEPT !.phase = h], xtk)
        BY <1>3
    <2> HIDE DEF h
    <2>3. [op EXCEPT !.phase = h] = o
        BY Parts DEF Calls
    <2>4. o = [op EXCEPT !.count = n, !.phase = h, !.cookie = c] /\ Continue(o, xtk)
        BY <2>2, <2>3
    <2> HIDE DEF n, c, o
    <2>5. StateInv' /\ arr' = arr
        BY <1>1, <2>1, <2>4, Parts, LookupMovesOn, Zenon
    <2>6. QED
        BY <1>3, <2>5, Parts, CacheStays
<1>4. CASE /\ xtk.index # ScanEnd
           /\ KeyRead
           /\ \/ ~TwinInScan /\ GoOn(op.count, "mark")
              \/ TwinInScan /\ op.to # -1 /\ xtk.index >= op.to /\ ToTail
              \/ /\ TwinInScan /\ (op.to # -1 => xtk.index < op.to)
                 /\ IF IsTheOne(op.count + 1) THEN Found(op.count + 1)
                    ELSE GoOn(op.count + 1, "tail")
    <2>1. arr' = arr
        BY <1>4 DEF GoOn, ToTail, Continue, Found, Return
    <2>2. /\ CacheInv' /\ xtk.index < N
          /\ xtk.index < MarkStart(ScannedMark + 1)
          /\ ScannedMark <= MarkOf(last') \/ ScannedMark > MarkOf(last') + 1
        BY <1>1, <1>4, <2>1, KeyReadKeeps, ScannedMarkStays
    <2>3. CASE ToTail
        BY <1>1, <2>2, <2>3, ToTailKeeps
    <2>4. CASE Found(op.count + 1)
        BY <1>1, <2>2, <2>4, FoundKeeps
    <2>5. ASSUME NEW n \in Int, NEW h \in {"mark", "tail", "over"}, GoOn(n, h)
          PROVE  StateInv'
        BY <1>1, <2>2, <2>5, GoOnKeeps
    <2>6. CASE GoOn(op.count, "mark")
        <3>1. "mark" \in {"mark", "tail", "over"}
            OBVIOUS
        <3>2. QED
            BY <1>1, <2>1, <2>2, <2>5, <2>6, <3>1, Zenon
    <2>7. CASE GoOn(op.count + 1, "tail")
        <3>1. "tail" \in {"mark", "tail", "over"} /\ op.count + 1 \in Int
            BY <1>1
        <3>2. QED
            BY <2>1, <2>2, <2>5, <2>7, <3>1, Zenon
    <2>8. QED
        BY <1>4, <2>1, <2>2, <2>3, <2>4, <2>6, <2>7
<1>5. QED
    BY <1>2, <1>3, <1>4 DEF Scan

(* The items past the last cached one.                                     *)
LEMMA OpenTailKeeps ==
    ASSUME IInv, OpenTail
    PROVE  StateInv' /\ arr' = arr /\ UNCHANGED cacheVars
<1> DEFINE x == Onward(LastCached)
<1>1. op.fn \in Lookups /\ arr.indexed /\ UNCHANGED cacheVars
    BY LooksUp DEF OpenTail
<1>2. CASE Return(tk, "no_item")
    BY <1>1, <1>2, Parts, Returned
<1>3. CASE x.at # "end" /\ Continue([op EXCEPT !.phase = "tailscan"], x)
    <2>1. x \in Tracker /\ Placed(x) /\ x.index < N
        <3>1. CASE last = -1
            <4>1. LastCached = [Rewound EXCEPT !.need = TRUE]
                BY <3>1 DEF LastCached
            <4>2. LastCached.at = "nil"
                BY <4>1 DEF Rewound
            <4>3. x = FirstItem(LastCached)
                BY <4>2 DEF Onward
            <4> HIDE DEF x
            <4>4. QED
                BY <1>3, <3>1, <4>3, FirstPlaced, Parts
        <3>2. CASE last # -1
            <4>1. Placed(LastCached) /\ LastCached \in Tracker /\ LastCached.index < N
                BY <3>2, LastPlaced, Parts
            <4>2. x = NextItem(LastCached)
                BY <4>1 DEF Onward, Placed
            <4> HIDE DEF x
            <4>3. QED
                BY <1>3, <4>1, <4>2, NextPlaced, Parts
        <3>3. QED
            BY <3>1, <3>2
    <2> DEFINE h == "tailscan"
               o == [op EXCEPT !.phase = h]
    <2>2. Continue(o, x) /\ h \in {"start", "walk", "mark", "scan", "tail", "tailscan", "over"}
        BY <1>3
    <2> HIDE DEF h, x
    <2>3. o \in Calls /\ o.fn = op.fn /\ o.phase = h
        BY <2>2, Parts DEF Calls
    <2> HIDE DEF o
    <2>4. o.phase = "tailscan"
        BY <2>3 DEF h
    <2>5. StateInv' /\ arr' = arr
        BY <1>1, <2>1, <2>2, <2>3, <2>4, LookupGoesOn
    <2>6. QED
        BY <1>1, <2>5
<1>4. QED
    BY <1>2, <1>3 DEF OpenTail

(* A step past the last cached item.                                       *)
LEMMA TailScanKeeps ==
    ASSUME IInv, TailScan
    PROVE  StateInv' /\ arr' = arr /\ CacheInv'
<1>1. op.phase = "tailscan" /\ op.fn \in Lookups /\ op.count \in Int
    BY LooksUp, Parts DEF TailScan, Calls
<1>2. CASE xtk.index # op.to /\ KeyFailed
    BY <1>2, KeyFailedKeeps
<1>3. CASE xtk.index = op.to /\ Return(tk, "no_item") /\ UNCHANGED cacheVars
    BY <1>3, Parts, Returned, CacheStays
<1>4. CASE /\ xtk.index # op.to
           /\ KeyRead
           /\ IF Key(xtk.index) # op.key THEN GoOn(op.count, "over")
              ELSE IF IsTheOne(TwinsSoFar) THEN Found(TwinsSoFar)
              ELSE GoOn(TwinsSoFar, "over")
    <2>1. arr' = arr
        BY <1>4 DEF GoOn, Continue, Found, Return
    <2>2. CacheInv' /\ xtk.index < N
        BY <1>1, <1>4, <2>1, KeyReadKeeps
    <2>3. ASSUME NEW n \in Int, GoOn(n, "over") PROVE StateInv'
        BY <1>1, <2>2, <2>3, GoOnKeeps
    <2>4. CASE Found(TwinsSoFar)
        BY <1>1, <2>2, <2>4, FoundKeeps
    <2>5. TwinsSoFar \in Int
        BY <1>1 DEF TwinsSoFar
    <2>6. QED
        BY <1>1, <1>4, <2>1, <2>2, <2>3, <2>4, <2>5
<1>5. QED
    BY <1>2, <1>3, <1>4 DEF TailScan

-----------------------------------------------------------------------------
(***************************************************************************)
(* What is cached is a prefix of the array.                                *)
(***************************************************************************)
(* Nothing is cached at first, and no call is in progress.                 *)
LEMMA InitHolds ==
    ASSUME Init
    PROVE  IInv
<1>1. /\ arr \in Arrays /\ last = -1 /\ offsets = <<>> /\ book = EmptyBook
      /\ win = Whole /\ tk = Rewound /\ xtk = Rewound /\ op = NoOp
    BY DEF Init
<1>2. N \in Nat /\ 0 \in Spots
    BY <1>1, Offsets, SpotFacts
<1>3. book = BookOf(0)
    <2>1. MarkOf(-1) = -1 /\ PageOf(-1) = -1
        <3>1. PageOf(-1) = -1
            BY BloomAssumption DEF PageOf
        <3>2. QED
            BY <3>1, Marks, Zenon
    <2>2. BookOf(0) = [marks |-> <<>>, pages |-> <<>>]
        BY <2>1 DEF BookOf
    <2>3. QED
        BY <1>1, <2>2 DEF EmptyBook
<1>4. CacheInv
    <2>1. MarkOf(-1) = -1 /\ last + 1 = 0
        BY <1>1, Marks
    <2>2. QED
        BY <1>1, <1>2, <1>3, <2>1 DEF CacheInv, CacheIsPrefix
<1>5. WinInv
    BY <1>1, <1>2 DEF WinInv, Whole
<1>6. TrackerInv(tk) /\ xtk \in Tracker
    BY <1>1, NowhereKeeps DEF TrackerInv
<1>7. op \in Calls
    BY <1>1, BloomAssumption DEF NoOp, Calls, Lookups, Finished, Cookie, NoPage, NoMore, Unknown
<1>8. CallInv
    BY <1>1, <1>6, <1>7 DEF CallInv, NthInv, LookupInv, Lookups, NoOp
<1>9. QED
    BY <1>4, <1>5, <1>6, <1>8 DEF IInv, StateInv

(* Every step keeps the invariant.                                         *)
LEMMA StepHolds ==
    ASSUME IInv, [Next]_vars
    PROVE  IInv'
<1>1. CASE Call
    BY <1>1, CallKeeps, CacheStays, Parts DEF IInv
<1>2. CASE StartNth
    BY <1>2, StartNthKeeps, CacheStays, Parts DEF IInv
<1>3. CASE WalkNth
    BY <1>3, WalkNthKeeps DEF IInv
<1>4. CASE OpenLookup
    BY <1>4, OpenLookupKeeps, CacheStays, Parts DEF IInv
<1>5. CASE NextMark
    BY <1>5, NextMarkKeeps, CacheStays, Parts DEF IInv
<1>6. CASE Scan
    BY <1>6, ScanKeeps DEF IInv
<1>7. CASE OpenTail
    BY <1>7, OpenTailKeeps, CacheStays, Parts DEF IInv
<1>8. CASE TailScan
    BY <1>8, TailScanKeeps DEF IInv
<1>9. CASE Over
    <2>1. Return(tk, "no_item") /\ UNCHANGED cacheVars
        BY <1>9 DEF Over
    <2>2. StateInv' /\ arr' = arr
        BY <2>1, Returned, Parts
    <2>3. QED
        BY <2>1, <2>2, CacheStays, Parts DEF IInv
<1>10. CASE UNCHANGED vars
    <2>1. UNCHANGED cacheVars /\ arr' = arr /\ win' = win /\ tk' = tk /\ xtk' = xtk /\ op' = op
        BY <1>10 DEF vars, cacheVars
    <2>2. CacheInv' /\ WinInv' /\ TrackerInv(tk)'
        BY <2>1, CacheStays, WinStays, TrackerStays, Parts
    <2>3. N' = N /\ last' = last
        BY <2>1, SameArray DEF cacheVars
    <2>4. op.fn = "nth" /\ op.phase = "start" => TrackerInv(xtk)'
        BY <2>1, TrackerStays, Parts DEF NthInv
    <2>5. Placed(xtk) => Placed(xtk)'
        BY <2>1, PlacedStays
    <2>6. NthInv'
        BY <2>1, <2>3, <2>4, <2>5, Parts DEF NthInv
    <2>7. ScanInv => ScanInv'
        BY <2>1, <2>3 DEF ScanInv, ScannedMark, MarkOf
    <2>8. LookupInv'
        BY <2>1, <2>3, <2>5, <2>7, Parts DEF LookupInv
    <2>9. QED
        BY <2>1, <2>2, <2>6, <2>8 DEF IInv, StateInv, CallInv
<1>11. QED
    BY <1>1, <1>2, <1>3, <1>4, <1>5, <1>6, <1>7, <1>8, <1>9, <1>10 DEF Next, Step

(* Whatever the trackers did, what the cache holds is the first items of   *)
(* the array, in order, with their offsets and the filters of their keys   *)
(* (tracker_index_cache_add_item()): of every array, for every number of   *)
(* items per mark and of marks per page and whatever the hash function.    *)
THEOREM CacheIsPrefixAlways == Spec => []CacheIsPrefix
<1>1. Init => IInv
    BY InitHolds
<1>2. IInv /\ [Next]_vars => IInv'
    BY StepHolds
<1>3. IInv => CacheIsPrefix
    BY DEF IInv, CacheInv
<1>4. QED
    BY <1>1, <1>2, <1>3, PTL DEF Spec

-----------------------------------------------------------------------------
(***************************************************************************)
(* What no step does.                                                      *)
(***************************************************************************)
(* A client calls when no call is in progress.                             *)
LEMMA CallsAreFree ==
    ASSUME Call
    PROVE  op.fn = "none"
BY DEF Call, GotoFirst, GotoNext, ItemOffset, Rewind, GotoNth, EnterSlice,
       ReturnFromSlice, GotoNextWithKey, GotoNthWithKey, GetTwin, Free

(* While a lookup has a place in the book, no page is added to it.         *)
LEMMA PagesStay ==
    ASSUME IInv, Next, op.phase \in {"mark", "scan"}
    PROVE  Len(book'.pages) = Len(book.pages)
<1>1. op.fn \in Lookups /\ arr.indexed
    BY LooksUp
<1>2. CASE UNCHANGED cacheVars
    BY <1>2 DEF cacheVars
<1>3. CASE Scan /\ ~(UNCHANGED cacheVars)
    <2>1. op.phase = "scan" /\ xtk.index # ScanEnd /\ KeyRead /\ arr' = arr
        BY <1>3, ScanKeeps DEF Scan, KeyFailed
    <2>2. \/ last' = last /\ book' = book
          \/ /\ last' = last + 1 /\ xtk.index = last + 1
             /\ arr.indexed /\ ~Marked(xtk.index) => Len(book'.pages) = Len(book.pages)
        BY <2>1, KeyReadKeeps
    <2>3. xtk.index = last + 1 => ~Marked(xtk.index)
        BY <2>1, ScannedMarkStays
    <2>4. QED
        BY <1>1, <2>2, <2>3
<1>4. CASE Call
    BY <1>1, <1>4, CallsAreFree DEF Lookups
<1>5. CASE Step /\ ~Scan /\ ~(UNCHANGED cacheVars)
    BY <1>1, <1>5
       DEF Step, Lookups, StartNth, WalkNth, OpenLookup, NextMark, OpenTail, TailScan, Over
<1>6. QED
    BY <1>2, <1>3, <1>4, <1>5 DEF Next

(* No lookup has its pages moved from under its cookie: a mark is scanned  *)
(* only if the cache has it or will not have it next, so that the scan     *)
(* adds no mark to the book, and no page (bloom_book_add_mark()).          *)
THEOREM CookieStaysValidAlways == Spec => CookieStaysValid
<1>1. Init => IInv
    BY InitHolds
<1>2. IInv /\ [Next]_vars => IInv'
    BY StepHolds
<1>3. IInv /\ [Next]_vars =>
        [op.cookie.page # NoPage /\ op.phase \in {"mark", "scan"}
           => Len(book'.pages) = Len(book.pages)]_vars
    BY PagesStay
<1>4. QED
    BY <1>1, <1>2, <1>3, PTL DEF Spec, CookieStaysValid

(* What a call to go to the n-th item returns when it ends.                *)
LEMMA NthReturns ==
    ASSUME IInv, Next, op.fn = "nth", op'.fn = "none", op.then = "give"
    PROVE  \/ ret' = "ok" /\ tk'.index = op.nth /\ op.nth < N
           \/ ret' = "no_item" /\ op.nth >= N
           \/ ret' = "error" /\ arr.bad \in 0 .. op.nth
<1>1. op.nth \in Nat /\ N \in Nat /\ xtk \in Tracker /\ op \in Calls
    BY Parts DEF NthInv
<1>2. CASE StartNth
    <2> DEFINE i == op.nth
    <2>1. CASE i >= N /\ Return(tk, "no_item")
        BY <2>1 DEF Return
    <2>2. ASSUME NEW o, i < N, Reach(At(xtk, i, o))
          PROVE  ret' = "ok" /\ tk'.index = i /\ i < N
        <3>1. Return(At(xtk, i, o), "ok")
            BY <2>2 DEF Reach
        <3>2. At(xtk, i, o).index = i
            BY <1>1 DEF At, Tracker
        <3>3. QED
            BY <2>2, <3>1, <3>2 DEF Return
    <2>3. CASE i < N /\ Reach(At(xtk, i, xtk.offset))
        BY <2>2, <2>3
    <2>4. CASE i < N /\ Reach(At(xtk, i, Off(i)))
        BY <2>2, <2>4
    <2>5. CASE arr.var /\ WalkFrom(i).at = "end" /\ Return(tk, "no_item")
        BY <1>1, <2>5, WalkStarts, Parts DEF Return
    <2>6. CASE Continue([op EXCEPT !.phase = "walk"], WalkFrom(i))
        <3>1. op'.fn = "nth"
            BY <1>1, <2>6 DEF Continue, Calls
        <3>2. QED
            BY <3>1
    <2>7. QED
        BY <1>2, <2>1, <2>3, <2>4, <2>5, <2>6 DEF StartNth
<1>3. CASE WalkNth
    <2>1. /\ Placed(xtk) /\ xtk.index < N /\ xtk.index <= op.nth /\ xtk.index \in Nat
          /\ arr.bad \in Int
        <3>1. arr.bad \in Int
            BY Offsets, Parts DEF ArrayRecord
        <3>2. QED
            BY <1>3, <3>1, Parts DEF WalkNth, NthInv, Placed
    <2>2. CASE KeyFails(xtk.index) /\ Return(tk, "error")
        BY <1>1, <2>1, <2>2 DEF KeyFails, Return
    <2>3. CASE xtk.index = op.nth /\ Reach(xtk)
        BY <2>1, <2>3 DEF Reach, Return
    <2>4. CASE xtk.index # op.nth /\ NextItem(xtk).at = "end" /\ Return(tk, "no_item")
        <3>1. xtk.index + 1 = N
            BY <1>1, <2>1, <2>4, NextPlaced, Parts
        <3>2. QED
            BY <1>1, <2>1, <2>4, <3>1 DEF Return
    <2>5. CASE Continue(op, NextItem(xtk))
        BY <2>5 DEF Continue
    <2>6. QED
        BY <1>3, <2>2, <2>3, <2>4, <2>5 DEF WalkNth
<1>4. CASE Call
    BY <1>4, CallsAreFree
<1>5. CASE Step /\ ~StartNth /\ ~WalkNth
    <2>1. op.fn \in Lookups
        BY <1>5, LooksUp
           DEF Step, OpenLookup, NextMark, Scan, OpenTail, TailScan, Over, Lookups
    <2>2. QED
        BY <2>1 DEF Lookups
<1>6. QED
    BY <1>2, <1>3, <1>4, <1>5 DEF Next

(* Going to the n-th item gives that item if the array has it and no item  *)
(* otherwise; only the key of an item on the way makes it fail.  So it is  *)
(* whichever items are cached, in arrays and in slices                     *)
(* (tracker_goto_nth_item__array_var_item_size() and its siblings).        *)
THEOREM NthIsRightAlways == Spec => NthIsRight
<1>1. Init => IInv
    BY InitHolds
<1>2. IInv /\ [Next]_vars => IInv'
    BY StepHolds
<1>3. IInv /\ [Next]_vars =>
        [Returns("nth") /\ op.then = "give" =>
           \/ ret' = "ok" /\ tk'.index = op.nth /\ op.nth < N
           \/ ret' = "no_item" /\ op.nth >= N
           \/ ret' = "error" /\ arr.bad \in 0 .. op.nth]_vars
    BY NthReturns DEF Returns
<1>4. QED
    BY <1>1, <1>2, <1>3, PTL DEF Spec, NthIsRight

-----------------------------------------------------------------------------
(***************************************************************************)
(* What trackers know of the place of their item.                          *)
(***************************************************************************)
(* A tracker that has an offset has the one of its item, and is to have    *)
(* it; at the end of the array it has the offset of the end.               *)
KnowsPlace(t) ==
    /\ t.at = "item" /\ t.offset # Unknown => t.need /\ t.offset = Off(t.index)
    /\ t.at = "end" /\ t.offset # Unknown => t.need \/ (win.sliced /\ win.from = win.to)
    /\ t.at = "end" /\ ~win.sliced => /\ t.index \in {-1, N}
                                      /\ t.offset # Unknown => t.offset = Off(N)

(* A tracker that a call moves may go past the end of the array.           *)
Moves(x) ==
    x.at = "item" /\ x.need /\ x.index < N /\ x.offset # Unknown
        => x.offset = Off(x.index)

(* A slice starts where its first item is, and a tracker that is not to    *)
(* have an offset goes to the n-th item with none.                         *)
RightNow ==
    /\ win.sliced => win.start = Off(win.from)
    /\ KnowsPlace(tk)
    /\ Moves(xtk)
    /\ op.fn = "nth" /\ op.phase = "start" /\ ~xtk.need => xtk.offset = Unknown

RightInv == arr \notin Left => RightNow

(* A tracker that stays in its box knows what it knew.                     *)
LEMMA PlaceKept ==
    ASSUME arr' = arr, win' = win, NEW t, KnowsPlace(t), tk' = t
    PROVE  KnowsPlace(tk)'
BY SameArray DEF KnowsPlace

\* A tracker handed on unchanged still knows what it knew.
LEMMA MovesKept ==
    ASSUME arr' = arr, NEW x, Moves(x), xtk' = x
    PROVE  Moves(xtk)'
BY SameArray DEF Moves

(* A tracker that knows its place, is nowhere or is at the end moves right.*)
LEMMA MovesRight ==
    ASSUME NEW x, KnowsPlace(x) \/ Placed(x) \/ x.at # "item" \/ x.offset = Unknown
    PROVE  Moves(x)
BY DEF KnowsPlace, Placed, Moves

\* Off the items, without an offset or on a cached item, there is nothing to get
\* wrong.
LEMMA NowhereKnows ==
    ASSUME NEW t, t.at = "nil" \/ (t.at = "item" /\ (t.offset = Unknown \/ Placed(t)))
    PROVE  KnowsPlace(t)
BY DEF KnowsPlace, Placed

\* The start of the slice stays right.
LEMMA WindowKept ==
    ASSUME arr' = arr, win' = win, RightNow
    PROVE  (win.sliced => win.start = Off(win.from))'
BY SameArray DEF RightNow

(* The call returns.                                                       *)
LEMMA ReturnedRight ==
    ASSUME RightNow, NEW t, NEW s, Return(t, s), KnowsPlace(t)
    PROVE  RightNow'
<1>1. /\ tk' = t /\ op' = NoOp /\ xtk' = Rewound /\ arr' = arr /\ win' = win
    BY DEF Return
<1>2. Rewound.at = "nil" /\ NoOp.fn = "none"
    BY DEF Rewound, NoOp
<1>3. KnowsPlace(tk)'
    BY <1>1, PlaceKept
<1>4. Moves(xtk)'
    BY <1>1, <1>2, MovesRight, MovesKept
<1>5. QED
    BY <1>1, <1>2, <1>3, <1>4, WindowKept DEF RightNow

\* A tracker that knows its place may be given.
LEMMA GivenRight ==
    ASSUME RightNow, NEW t, Give(t), KnowsPlace(t)
    PROVE  RightNow'
BY ReturnedRight DEF Give

(* A call begins.                                                          *)
LEMMA BegunRight ==
    ASSUME RightNow, NEW o, NEW t, NEW x, Begin(o, t, x), KnowsPlace(t),
           KnowsPlace(x), x.need \/ x.offset = Unknown \/ op'.fn # "nth"
    PROVE  RightNow'
<1>1. /\ tk' = t /\ xtk' = x /\ arr' = arr /\ win' = win
    BY DEF Begin
<1>2. KnowsPlace(tk)'
    BY <1>1, PlaceKept
<1>3. Moves(xtk)'
    BY <1>1, MovesRight, MovesKept
<1>4. QED
    BY <1>1, <1>2, <1>3, WindowKept DEF RightNow

(* A call goes on, with a tracker that moves right.                        *)
LEMMA ContinuedRight ==
    ASSUME RightNow, NEW o, NEW x, Continue(o, x), Moves(x),
           o.fn # "nth" \/ o.phase # "start"
    PROVE  RightNow'
<1>1. /\ tk' = tk /\ op' = o /\ xtk' = x /\ arr' = arr /\ win' = win
    BY DEF Continue
<1>2. KnowsPlace(tk)'
    BY <1>1, PlaceKept DEF RightNow
<1>3. Moves(xtk)'
    BY <1>1, MovesKept
<1>4. QED
    BY <1>1, <1>2, <1>3, WindowKept DEF RightNow

(* The first item of the array.                                            *)
LEMMA FirstKnows ==
    ASSUME NEW t \in Tracker, arr \in Arrays
    PROVE  KnowsPlace(FirstItem(t))
<1> DEFINE f == FirstItem(t)
<1>1. /\ f.need <=> t.need \/ arr.slack
      /\ f.offset = IF t.need \/ arr.slack THEN Off(0) ELSE Unknown
      /\ IF N > 0 THEN f.at = "item" /\ f.index = 0
         ELSE f.at = "end" /\ f.index = IF arr.slack THEN 0 ELSE -1
    BY FirstItemIs
<1>2. N \in Nat /\ (~(N > 0) => N = 0)
    BY Offsets
<1> DEFINE b == t.need \/ arr.slack
<1>3. b => f.need /\ f.offset = Off(0)
    BY <1>1
<1>4. ~b => f.offset = Unknown
    BY <1>1
<1>5. \/ f.at = "item" /\ f.index = 0
      \/ f.at = "end" /\ N = 0 /\ f.index \in {-1, N}
    BY <1>1, <1>2
<1> HIDE DEF f, b
<1>6. ASSUME b PROVE KnowsPlace(f)
    BY <1>3, <1>5, <1>6 DEF KnowsPlace
<1>7. ASSUME ~b PROVE KnowsPlace(f)
    BY <1>4, <1>5, <1>7 DEF KnowsPlace
<1>8. QED
    BY <1>6, <1>7 DEF f

(* The next item, in an array or in a slice.                               *)
LEMMA NextKnows ==
    ASSUME NEW t, TrackerInv(t), t.at = "item", arr \in Arrays, WinInv, KnowsPlace(t),
           t.need \/ EndsSlice(t) => t.offset \in Spots /\ t.offset # Off(N)
    PROVE  KnowsPlace(NextInBox(t))
<1> DEFINE f == NextInBox(t)
<1>1. /\ t \in Tracker /\ t.index \in 0 .. (N - 1) /\ N \in Nat /\ t.offset \in Int
      /\ t.index \in 0 .. N
    BY Offsets DEF TrackerInv, Tracker
<1>2. t.offset \in Spots => t.offset # Unknown
    BY SpotFacts
<1>3. CASE EndsSlice(t)
    <2>1. t.need /\ win.sliced
        BY <1>2, <1>3 DEF KnowsPlace, EndsSlice
    <2> DEFINE i == t.index + 1
               o == t.offset + SizeAt(t.offset)
               u == [t EXCEPT !.index = i, !.offset = o]
    <2>2. f = [u EXCEPT !.at = "end"]
        BY <1>1, <1>3 DEF NextInBox, Ended, Tracker
    <2> HIDE DEF i, o, f
    <2>3. u.need = t.need /\ u \in [at : {"nil", "item", "end"}, index : {i}, offset : {o}, need : BOOLEAN]
        BY <1>1 DEF Tracker
    <2> HIDE DEF u
    <2>4. f.at = "end" /\ f.need = u.need
        BY <2>2, <2>3
    <2>5. QED
        BY <2>1, <2>3, <2>4 DEF KnowsPlace, f
<1>4. CASE ~EndsSlice(t)
    <2>1. f = NextItem(t)
        BY <1>4 DEF NextInBox
    <2>2. t.need => t.offset \in Spots /\ t.offset # Off(N)
        OBVIOUS
    <2>3. /\ NextItem(t).index = t.index + 1 /\ NextItem(t).need = t.need
          /\ NextItem(t).offset = IF t.need THEN t.offset + SizeAt(t.offset) ELSE t.offset
          /\ NextItem(t).at = IF t.index + 1 = N THEN "end" ELSE t.at
        BY <1>1, <2>2, NextIs
    <2>4. t.need => t.offset + SizeAt(t.offset) = Off(t.index + 1)
        <3>1. ASSUME t.need PROVE t.offset = Off(t.index)
            BY <1>2, <2>2, <3>1 DEF KnowsPlace
        <3>2. Off(t.index) + SizeAt(Off(t.index)) = Off(t.index + 1)
            BY <1>1, ItemThere
        <3>3. QED
            BY <3>1, <3>2
    <2>5. ~t.need => t.offset = Unknown
        BY DEF KnowsPlace
    <2> HIDE DEF f
    <2>6. /\ f.index = t.index + 1 /\ f.need = t.need
          /\ f.offset = IF t.need THEN Off(t.index + 1) ELSE Unknown
          /\ f.at = IF t.index + 1 = N THEN "end" ELSE "item"
        BY <2>1, <2>3, <2>4, <2>5
    <2>7. QED
        BY <2>6 DEF KnowsPlace, f
<1>5. QED
    BY <1>3, <1>4

(* A tracker that is now to have an offset, and has none yet.              *)
LEMMA NeededKnows ==
    ASSUME NEW t, TrackerInv(t), KnowsPlace(t), NEW u, u = [t EXCEPT !.need = TRUE]
    PROVE  KnowsPlace(u) /\ u.need
<1>1. /\ u.need /\ u.at = t.at /\ u.index = t.index /\ u.offset = t.offset
    BY NeedsOffset
<1>2. QED
    BY <1>1 DEF KnowsPlace

(* A call to go to the n-th item begins.                                   *)
LEMMA NthCalledRight ==
    ASSUME RightNow, NEW t, NEW i, NEW then, CallNth(i, then, t),
           KnowsPlace(t), t.need \/ t.offset = Unknown
    PROVE  RightNow'
<1> DEFINE o == [NoOp EXCEPT !.fn = "nth", !.nth = i, !.then = then]
<1>1. Begin(o, t, t)
    BY DEF CallNth
<1> HIDE DEF o
<1>2. QED
    BY <1>1, BegunRight

\* The calls keep the offsets right: going to the first item.
LEMMA FirstRight ==
    ASSUME IInv, RightNow, NEW t \in Tracker, First(t)
    PROVE  RightNow'
<1> DEFINE u == [Dangling(t) EXCEPT !.offset = Unknown]
<1>1. TrackerInv(u) /\ u \in Tracker /\ u.at = "nil" /\ u.offset = Unknown
    BY NowhereKeeps DEF TrackerInv
<1>2. CASE ~win.sliced /\ Give(FirstItem(t))
    BY <1>2, FirstKnows, GivenRight, Parts
<1>3. CASE /\ win.sliced /\ win.from = win.to
           /\ Give([u EXCEPT !.at = "end", !.index = win.from, !.offset = win.start])
    <2> DEFINE i == win.from
               o == win.start
               v == [u EXCEPT !.at = "end", !.index = i, !.offset = o]
    <2> HIDE DEF u, i, o
    <2>1. v.at = "end"
        BY <1>1 DEF Tracker
    <2>2. Give(v)
        BY <1>3 DEF u, i, o
    <2> HIDE DEF v
    <2>3. KnowsPlace(v)
        BY <1>3, <2>1 DEF KnowsPlace
    <2>4. QED
        BY <2>2, <2>3, GivenRight
<1>4. CASE CallNth(win.from, "first", u)
    <2> HIDE DEF u
    <2>1. KnowsPlace(u)
        BY <1>1, NowhereKnows
    <2>2. QED
        BY <1>1, <1>4, <2>1, NthCalledRight
<1>5. QED
    BY <1>2, <1>3, <1>4 DEF First

\* Going to the next item.
LEMMA GotoNextRight ==
    ASSUME IInv, RightNow, GotoNext
    PROVE  RightNow'
<1>1. CASE tk.at = "nil" /\ First(tk)
    BY <1>1, Parts, FirstRight
<1>2. CASE tk.at = "end" /\ Give(tk)
    BY <1>2, GivenRight DEF RightNow
<1>3. CASE CallNth(tk.index, "move", [tk EXCEPT !.need = TRUE])
    <2> DEFINE u == [tk EXCEPT !.need = TRUE]
    <2>1. KnowsPlace(u) /\ u.need
        BY NeededKnows, Parts DEF RightNow
    <2>2. CallNth(tk.index, "move", u)
        BY <1>3
    <2> HIDE DEF u
    <2>3. QED
        BY <2>1, <2>2, NthCalledRight
<1>4. CASE /\ tk.at = "item" /\ ~LocationMissing
           /\ IF NoRoom(tk) THEN Return(tk, "error") ELSE Give(NextInBox(tk))
    <2>1. CASE NoRoom(tk)
        BY <1>4, <2>1, ReturnedRight DEF RightNow
    <2>2. CASE ~NoRoom(tk)
        <3>1. tk.need \/ EndsSlice(tk) => tk.offset \in Spots /\ tk.offset # Off(N)
            BY <1>4, <2>2, Parts DEF NoRoom, LocationMissing, TrackerInv
        <3>2. KnowsPlace(NextInBox(tk))
            BY <1>4, <3>1, Parts, NextKnows DEF RightNow
        <3>3. QED
            BY <1>4, <2>2, <3>2, GivenRight
    <2>3. QED
        BY <2>1, <2>2
<1>5. QED
    BY <1>1, <1>2, <1>3, <1>4 DEF GotoNext

(* In an empty slice there is no n-th item to go to.                       *)
LEMMA GotoNthRight ==
    ASSUME IInv, RightNow, NEW i \in 0 .. N, GotoNth(i)
    PROVE  RightNow'
<1>1. CASE Return(tk, "no_item")
    BY <1>1, ReturnedRight DEF RightNow
<1>2. CASE (win.sliced => i < win.to - win.from) /\ CallNth(win.from + i, "give", tk)
    <2>1. ~(win.sliced /\ win.from = win.to)
        BY <1>2, Parts
    <2>2. tk.need \/ tk.offset = Unknown
        BY <2>1, Parts DEF RightNow, KnowsPlace, TrackerInv, Tracker
    <2>3. QED
        BY <1>2, <2>2, NthCalledRight DEF RightNow
<1>3. QED
    BY <1>1, <1>2 DEF GotoNth

\* Asking for the offset of the item.
LEMMA ItemOffsetRight ==
    ASSUME IInv, RightNow, ItemOffset
    PROVE  RightNow'
<1> DEFINE u == [tk EXCEPT !.need = TRUE]
<1>1. KnowsPlace(u) /\ u.need
    BY NeededKnows, Parts DEF RightNow
<1>2. CASE Return(u, "error")
    BY <1>1, <1>2, ReturnedRight
<1>3. CASE tk.at = "end" /\ Return([tk EXCEPT !.need = TRUE, !.offset = Off(EndItem)], "ok")
    <2> DEFINE o == Off(EndItem)
               v == [tk EXCEPT !.need = TRUE, !.offset = o]
    <2>1. Return(v, "ok")
        BY <1>3
    <2>2. ~win.sliced => o = Off(N)
        BY DEF EndItem
    <2> HIDE DEF o
    <2>3. v.at = tk.at /\ v.index = tk.index /\ v.offset = o /\ v.need
        BY Parts DEF Tracker
    <2> HIDE DEF v
    <2>4. KnowsPlace(v)
        BY <1>3, <2>2, <2>3 DEF RightNow, KnowsPlace
    <2>5. QED
        BY <2>1, <2>4, ReturnedRight
<1>4. CASE CallNth(tk.index, "give", u)
    <2> HIDE DEF u
    <2>1. QED
        BY <1>1, <1>4, NthCalledRight
<1>5. QED
    BY <1>2, <1>3, <1>4 DEF ItemOffset

(* A slice starts where its first item is.                                 *)
LEMMA EnteredRight ==
    ASSUME arr \in Arrays, NEW t, TrackerInv(t), NEW to, EnterAt(t, to),
           t.index # -1 => t.offset = Off(t.index)
    PROVE  RightNow'
<1> DEFINE o == IF t.index = -1 THEN 0 ELSE t.offset
           f == SliceFrom(t)
<1>1. o = Off(f)
    BY Offsets DEF SliceFrom
<1>2. /\ arr' = arr /\ op' = NoOp /\ xtk' = Rewound
      /\ tk' = [Dangling(t) EXCEPT !.offset = Unknown]
      /\ win' = [from |-> f, to |-> to, sliced |-> TRUE, start |-> o]
    BY DEF EnterAt
<1> HIDE DEF o, f
<1>3. win'.start = o /\ win'.from = f
    BY <1>2
<1>4. (win.sliced => win.start = Off(win.from))'
    BY <1>1, <1>2, <1>3, SameArray
<1>5. tk'.at = "nil"
    BY <1>2, NowhereKeeps DEF TrackerInv
<1>6. KnowsPlace(tk)'
    BY <1>5 DEF KnowsPlace
<1>7. Moves(xtk)' /\ op'.fn = "none"
    BY <1>2 DEF Moves, Rewound, NoOp
<1>8. QED
    BY <1>4, <1>6, <1>7 DEF RightNow

\* Entering a slice.
LEMMA EnterSliceRight ==
    ASSUME IInv, RightNow, NEW to \in 0 .. N, EnterSlice(to)
    PROVE  RightNow'
<1>1. ~win.sliced /\ TrackerInv(tk) /\ KnowsPlace(tk) /\ tk \in Tracker /\ arr \in Arrays
    BY Parts DEF EnterSlice, RightNow
<1>2. CASE Begin([NoOp EXCEPT !.fn = "nth", !.nth = tk.index, !.to = to, !.then = "slice"],
                 [tk EXCEPT !.need = TRUE], [tk EXCEPT !.need = TRUE])
    <2> DEFINE u == [tk EXCEPT !.need = TRUE]
               o == [NoOp EXCEPT !.fn = "nth", !.nth = tk.index, !.to = to, !.then = "slice"]
    <2>1. KnowsPlace(u) /\ u.need
        BY <1>1, NeededKnows
    <2>2. Begin(o, u, u)
        BY <1>2
    <2> HIDE DEF u, o
    <2>3. QED
        BY <2>1, <2>2, BegunRight
<1>3. CASE /\ tk.at = "end" /\ tk.index # -1
           /\ EnterAt([tk EXCEPT !.need = TRUE, !.offset = Off(N)], to)
    <2> DEFINE o == Off(N)
               u == [tk EXCEPT !.need = TRUE, !.offset = o]
    <2>1. o \in Spots /\ o \in Int /\ o # Unknown
        BY Parts, SpotFacts
    <2>2. EnterAt(u, to)
        BY <1>3
    <2>3. tk.index = N
        BY <1>1, <1>3 DEF KnowsPlace
    <2>4. o = Off(tk.index)
        BY <2>3
    <2> HIDE DEF o
    <2>5. u \in Tracker /\ u.at = tk.at /\ u.index = tk.index /\ u.offset = o
        BY <1>1, <2>1 DEF Tracker
    <2> HIDE DEF u
    <2>6. TrackerInv(u)
        BY <1>1, <1>3, <2>1, <2>5 DEF TrackerInv
    <2>7. QED
        BY <1>1, <2>2, <2>4, <2>5, <2>6, EnteredRight
<1>4. CASE /\ tk.at = "nil" \/ tk.index = -1 \/ tk.offset # Unknown
           /\ EnterAt(tk, to)
    <2>1. tk.at = "nil" => tk.index = -1
        BY <1>1 DEF TrackerInv
    <2>2. tk.index # -1 => tk.offset = Off(tk.index)
        BY <1>1, <1>4, <2>1 DEF KnowsPlace, Tracker
    <2>3. QED
        BY <1>1, <1>4, <2>2, EnteredRight
<1>5. QED
    BY <1>2, <1>3, <1>4 DEF EnterSlice

\* Going to the n-th item with a key.
LEMMA WithKeyRight ==
    ASSUME IInv, RightNow, NEW k, NEW n, GotoNthWithKey(k, n)
    PROVE  RightNow'
<1> DEFINE o == [NoOp EXCEPT !.fn = "with_key", !.key = k, !.nth = n,
                            !.from = win.from, !.to = win.to]
<1>1. Begin(o, tk, tk)
    BY DEF GotoNthWithKey
<1>2. op'.fn # "nth"
    BY <1>1 DEF Begin, NoOp
<1> HIDE DEF o
<1>3. QED
    BY <1>1, <1>2, BegunRight DEF RightNow

\* Going to the next item with a key.
LEMMA NextKeyRight ==
    ASSUME IInv, RightNow, NEW k, GotoNextWithKey(k)
    PROVE  RightNow'
<1>1. CASE GotoNthWithKey(k, 0)
    BY <1>1, WithKeyRight
<1>2. CASE Begin([NoOp EXCEPT !.fn = "next_key", !.key = k,
                             !.from = tk.index + 1, !.to = win.to], tk, tk)
    <2> DEFINE o == [NoOp EXCEPT !.fn = "next_key", !.key = k,
                                !.from = tk.index + 1, !.to = win.to]
    <2>1. Begin(o, tk, tk)
        BY <1>2
    <2>2. op'.fn # "nth"
        BY <2>1 DEF Begin, NoOp
    <2> HIDE DEF o
    <2>3. QED
        BY <2>1, <2>2, BegunRight DEF RightNow
<1>3. QED
    BY <1>1, <1>2 DEF GotoNextWithKey

\* Counting the items with the same key.
LEMMA TwinsRight ==
    ASSUME IInv, RightNow, NEW t, TwinsAt(t)
    PROVE  RightNow'
<1>1. CASE Return(tk, "error")
    BY <1>1, ReturnedRight DEF RightNow
<1>2. CASE Continue(TwinCall(ItemAt(t.offset)), xtk)
    <2> DEFINE o == TwinCall(ItemAt(t.offset))
    <2>1. o.fn = "twin"
        BY Parts DEF TwinCall, Calls
    <2> HIDE DEF o
    <2>2. Continue(o, xtk)
        BY <1>2 DEF o
    <2>3. QED
        BY <2>1, <2>2, ContinuedRight DEF RightNow
<1>3. QED
    BY <1>1, <1>2 DEF TwinsAt

\* Asking which of the items with its key the item is.
LEMMA GetTwinRight ==
    ASSUME IInv, RightNow, GetTwin
    PROVE  RightNow'
<1>1. CASE Begin([NoOp EXCEPT !.fn = "nth", !.nth = tk.index, !.then = "twin"],
                 tk, [tk EXCEPT !.need = TRUE])
    <2> DEFINE u == [tk EXCEPT !.need = TRUE]
               o == [NoOp EXCEPT !.fn = "nth", !.nth = tk.index, !.then = "twin"]
    <2>1. KnowsPlace(u) /\ u.need
        BY NeededKnows, Parts DEF RightNow
    <2>2. Begin(o, tk, u)
        BY <1>1
    <2> HIDE DEF u, o
    <2>3. QED
        BY <2>1, <2>2, BegunRight DEF RightNow
<1>2. CASE TwinsAt(tk)
    BY <1>2, TwinsRight
<1>3. QED
    BY <1>1, <1>2 DEF GetTwin

(* The calls of the client.                                                *)
LEMMA CallRight ==
    ASSUME IInv, RightNow, arr \notin Left, Call
    PROVE  RightNow'
<1>1. CASE GotoFirst
    BY <1>1, FirstRight, Parts DEF GotoFirst
<1>2. CASE GotoNext
    BY <1>2, GotoNextRight
<1>3. CASE ItemOffset
    BY <1>3, ItemOffsetRight
<1>4. CASE Rewind
    <2>1. Rewound.at = "nil"
        BY DEF Rewound
    <2>2. QED
        BY <1>4, <2>1, NowhereKnows, ReturnedRight DEF Rewind
<1>5. CASE \E i \in 0 .. N : GotoNth(i) \/ EnterSlice(i)
    BY <1>5, GotoNthRight, EnterSliceRight
<1>6. CASE ReturnFromSlice
    BY <1>6 DEF ReturnFromSlice
<1>7. CASE \E k \in Word : GotoNextWithKey(k) \/ \E n \in 0 .. MaxTwin : GotoNthWithKey(k, n)
    BY <1>7, NextKeyRight, WithKeyRight
<1>8. CASE GetTwin
    BY <1>8, GetTwinRight
<1>9. QED
    BY <1>1, <1>2, <1>3, <1>4, <1>5, <1>6, <1>7, <1>8 DEF Call

(* The item is reached, and the tracker is there.                          *)
LEMMA ReachedRight ==
    ASSUME IInv, RightNow, op.fn = "nth", NEW t, TrackerInv(t), t.at = "item",
           t.index = op.nth, t.need => Placed(t), ~t.need => t.offset = Unknown,
           op.then \in {"move", "slice", "twin"} => Placed(t), Reach(t)
    PROVE  RightNow'
<1>1. t \in Tracker /\ KnowsPlace(t)
    BY NowhereKnows DEF TrackerInv, Tracker
<1>2. CASE op.then \in {"give", "first"} /\ Return(t, "ok")
    BY <1>1, <1>2, ReturnedRight
<1>3. CASE /\ op.then = "first" /\ t.need
           /\ Return([t EXCEPT !.offset = win.start],
                     IF win.start = Off(N) THEN "error" ELSE "ok")
    <2> DEFINE o == win.start
               u == [t EXCEPT !.offset = o]
               s == IF win.start = Off(N) THEN "error" ELSE "ok"
    <2>1. Return(u, s)
        BY <1>3
    <2>2. o = Off(t.index)
        BY <1>3, Parts DEF NthInv, RightNow
    <2> HIDE DEF o, s
    <2>3. u.at = t.at /\ u.index = t.index /\ u.offset = o /\ u.need = t.need
        BY <1>1 DEF Tracker
    <2> HIDE DEF u
    <2>4. KnowsPlace(u)
        BY <1>3, <2>2, <2>3 DEF KnowsPlace
    <2>5. QED
        BY <2>1, <2>4, ReturnedRight
<1>4. CASE op.then = "move" /\ Give(NextInBox(t))
    <2>1. t.offset \in Spots /\ t.offset # Off(N)
        BY <1>1, <1>4, Parts, PlacedSpot DEF TrackerInv
    <2>2. KnowsPlace(NextInBox(t))
        BY <1>1, <2>1, Parts, NextKnows
    <2>3. QED
        BY <1>4, <2>2, GivenRight
<1>5. CASE op.then = "slice" /\ EnterAt(t, op.to)
    <2>1. t.offset = Off(t.index)
        BY <1>5 DEF Placed
    <2>2. QED
        BY <1>5, <2>1, Parts, EnteredRight
<1>6. CASE TwinsAt(t)
    BY <1>6, TwinsRight
<1>7. QED
    BY <1>2, <1>3, <1>4, <1>5, <1>6 DEF Reach

(* The steps of going to the n-th item.                                    *)
LEMMA StartNthRight ==
    ASSUME IInv, RightNow, StartNth
    PROVE  RightNow'
<1> DEFINE i == op.nth
<1>1. /\ op.fn = "nth" /\ op.phase = "start"
      /\ i \in Nat /\ TrackerInv(xtk) /\ xtk \in Tracker /\ N \in Nat
      /\ xtk.offset \in Int
    BY Parts DEF StartNth, NthInv, Tracker
<1>2. CASE Return(tk, "no_item")
    BY <1>2, ReturnedRight DEF RightNow
<1>3. CASE i < N /\ ~xtk.need /\ Reach(At(xtk, i, xtk.offset))
    <2> DEFINE t == At(xtk, i, xtk.offset)
    <2>1. /\ t \in Tracker /\ t.at = "item" /\ t.index = i /\ t.offset = xtk.offset
          /\ t.need = xtk.need
        BY <1>1, AtIs
    <2> HIDE DEF t
    <2>2. TrackerInv(t)
        BY <1>1, <1>3, <2>1 DEF TrackerInv
    <2>3. op.then \notin {"move", "slice", "twin"}
        BY <1>1, <1>3, Parts DEF NthInv
    <2>4. ~t.need /\ t.offset = Unknown
        BY <1>1, <1>3, <2>1 DEF RightNow
    <2>5. Reach(t)
        BY <1>3 DEF t
    <2>6. QED
        BY <1>1, <2>1, <2>2, <2>3, <2>4, <2>5, ReachedRight
<1>4. CASE i < N /\ xtk.need /\ Reach(At(xtk, i, Off(i)))
    <2> DEFINE t == At(xtk, i, Off(i))
    <2>1. Off(i) \in Int
        BY <1>1, <1>4, Offsets, Parts
    <2>2. t \in Tracker /\ t.at = "item" /\ t.index = i /\ t.offset = Off(i) /\ t.need = xtk.need
        BY <1>1, <2>1, AtIs
    <2>3. Reach(t)
        BY <1>4
    <2> HIDE DEF t
    <2>4. Placed(t)
        BY <1>1, <1>4, <2>2 DEF Placed
    <2>5. TrackerInv(t)
        BY <1>1, <1>4, <2>2, <2>4, PlacedSpot, Parts
    <2>6. QED
        BY <1>1, <1>4, <2>2, <2>3, <2>4, <2>5, ReachedRight
<1>5. CASE /\ arr.var /\ WalkFrom(i).at = "item"
           /\ Continue([op EXCEPT !.phase = "walk"], WalkFrom(i))
    <2> DEFINE o == [op EXCEPT !.phase = "walk"]
               t == WalkFrom(i)
    <2>1. Placed(t)
        BY <1>1, <1>5, WalkStarts, Parts
    <2>2. o.phase = "walk"
        BY Parts DEF Calls
    <2>3. Continue(o, t) /\ o.phase # "start"
        BY <1>5, <2>2
    <2> HIDE DEF o, t
    <2>4. QED
        BY <2>1, <2>3, MovesRight, ContinuedRight
<1>6. QED
    BY <1>2, <1>3, <1>4, <1>5 DEF StartNth

\* A walk to the n-th item keeps the offsets right.
LEMMA WalkNthRight ==
    ASSUME IInv, RightNow, WalkNth
    PROVE  RightNow'
<1>1. /\ op.fn = "nth" /\ op.phase = "walk" /\ Placed(xtk) /\ xtk.index < N
      /\ xtk \in Tracker /\ xtk.at = "item" /\ xtk.need
    BY Parts DEF WalkNth, NthInv, Placed
<1>2. CASE Return(tk, "error")
    BY <1>2, ReturnedRight DEF RightNow
<1>3. CASE xtk.index = op.nth /\ Reach(xtk)
    BY <1>1, <1>3, PlacedSpot, Parts, ReachedRight
<1>4. CASE Return(tk, "no_item")
    BY <1>4, ReturnedRight DEF RightNow
<1>5. CASE NextItem(xtk).at = "item" /\ Continue(op, NextItem(xtk))
    <2>1. Placed(NextItem(xtk))
        BY <1>1, <1>5, NextPlaced, Parts
    <2>2. Moves(NextItem(xtk))
        BY <2>1, MovesRight
    <2>3. QED
        BY <1>1, <1>5, <2>2, ContinuedRight
<1>6. QED
    BY <1>2, <1>3, <1>4, <1>5 DEF WalkNth

(* A lookup goes on, with its tracker where it was, at the end, or on the  *)
(* item of a scan.                                                         *)
LEMMA LookedUpRight ==
    ASSUME IInv, RightNow, op.fn \in Lookups, NEW o, NEW x, Continue(o, x),
           o.fn = op.fn, x = xtk \/ x.at = "end" \/ Placed(x)
    PROVE  RightNow'
<1>1. Moves(x)
    BY MovesRight DEF RightNow
<1>2. o.fn # "nth"
    BY DEF Lookups
<1>3. QED
    BY <1>1, <1>2, ContinuedRight

\* So does going on at the end of the cache.
LEMMA ToTailRight ==
    ASSUME IInv, RightNow, op.fn \in Lookups, ToTail
    PROVE  RightNow'
<1> DEFINE o == [op EXCEPT !.phase = "tail"]
<1>1. Continue(o, xtk) /\ o.fn = op.fn
    BY Parts DEF ToTail, Calls
<1> HIDE DEF o
<1>2. QED
    BY <1>1, LookedUpRight

\* So does a scan that passes over an item.
LEMMA GoOnRight ==
    ASSUME IInv, RightNow, op.phase \in {"scan", "tailscan"}, NEW n, NEW h,
           xtk.index < N, GoOn(n, h)
    PROVE  RightNow'
<1> DEFINE x == NextItem(xtk)
           o == [op EXCEPT !.count = n, !.phase = h]
           p == [op EXCEPT !.count = n]
<1>1. op.fn \in Lookups /\ Placed(xtk) /\ xtk \in Tracker
    BY LooksUp, Parts DEF LookupInv
<1>2. x.at = "end" \/ Placed(x)
    BY <1>1, NextPlaced, Parts
<1>3. o.fn = op.fn /\ p.fn = op.fn
    BY Parts DEF Calls
<1>4. Continue(o, x) \/ Continue(p, x)
    BY DEF GoOn
<1> HIDE DEF x, o, p
<1>5. QED
    BY <1>1, <1>2, <1>3, <1>4, LookedUpRight

\* So does a scan that stops at an item.
LEMMA FoundRight ==
    ASSUME IInv, RightNow, op.phase \in {"scan", "tailscan"}, NEW n, Found(n)
    PROVE  RightNow'
<1>1. Placed(xtk) /\ xtk.at = "item"
    BY LooksUp, Parts DEF LookupInv, Placed
<1>2. CASE op.fn # "twin"
    BY <1>1, <1>2, NowhereKnows, ReturnedRight DEF Found
<1>3. CASE op.fn = "twin"
    <2>1. op' = NoOp /\ xtk' = Rewound /\ arr' = arr /\ win' = win /\ tk' = tk
        BY <1>3 DEF Found
    <2>2. Moves(xtk)' /\ op'.fn = "none"
        BY <2>1 DEF Moves, Rewound, NoOp
    <2>3. KnowsPlace(tk)'
        BY <2>1, PlaceKept DEF RightNow
    <2>4. QED
        BY <2>1, <2>2, <2>3, WindowKept DEF RightNow
<1>4. QED
    BY <1>2, <1>3

(* The steps of a lookup.                                                  *)
LEMMA BookRight ==
    ASSUME IInv, RightNow, OpenLookup \/ NextMark
    PROVE  RightNow'
<1>1. op.fn \in Lookups
    BY LooksUp DEF OpenLookup, NextMark, Lookups
<1>2. CASE ToTail
    BY <1>1, <1>2, ToTailRight
<1>3. CASE Return(tk, "abort")
    BY <1>3, ReturnedRight DEF RightNow
<1>4. ASSUME NEW h, NEW c, Continue([op EXCEPT !.phase = h, !.cookie = c], xtk)
      PROVE  RightNow'
    <2> DEFINE o == [op EXCEPT !.phase = h, !.cookie = c]
    <2>1. Continue(o, xtk) /\ o.fn = op.fn
        BY <1>4, Parts DEF Calls
    <2> HIDE DEF o
    <2>2. QED
        BY <1>1, <2>1, LookedUpRight
<1>5. CASE OpenLookup
    BY <1>2, <1>4, <1>5 DEF OpenLookup
<1>6. CASE NextMark /\ ~ToTail /\ ~Return(tk, "abort")
    <2>1. op'.phase = "scan" /\ op'.fn = op.fn
        BY <1>6, Parts DEF NextMark, Continue, Calls
    <2>2. LookupInv' /\ arr' = arr /\ tk' = tk /\ win' = win
        BY <1>6, NextMarkKeeps DEF StateInv, CallInv, NextMark, Continue
    <2>3. Placed(xtk)' /\ op'.fn # "nth"
        BY <1>1, <2>1, <2>2 DEF LookupInv, Lookups
    <2>4. Moves(xtk)'
        BY <2>3 DEF Moves, Placed
    <2>5. KnowsPlace(tk)'
        BY <2>2, PlaceKept DEF RightNow
    <2>6. QED
        BY <2>2, <2>3, <2>4, <2>5, WindowKept DEF RightNow
<1>7. QED
    BY <1>2, <1>3, <1>5, <1>6

\* So does a step of a scan of marked items.
LEMMA ScanRight ==
    ASSUME IInv, RightNow, Scan
    PROVE  RightNow'
<1>1. op.phase = "scan" /\ op.fn \in Lookups
    BY LooksUp DEF Scan
<1>2. CASE KeyFailed
    BY <1>2, ReturnedRight DEF KeyFailed, RightNow
<1>3. CASE Continue([op EXCEPT !.phase = "mark"], xtk)
    <2> DEFINE o == [op EXCEPT !.phase = "mark"]
    <2>1. Continue(o, xtk) /\ o.fn = op.fn
        BY <1>3, Parts DEF Calls
    <2> HIDE DEF o
    <2>2. QED
        BY <1>1, <2>1, LookedUpRight
<1>4. CASE /\ KeyRead
           /\ \/ GoOn(op.count, "mark")
              \/ ToTail
              \/ Found(op.count + 1)
              \/ GoOn(op.count + 1, "tail")
    <2>1. xtk.index < N
        <3>1. arr.indexed /\ xtk.index \in Nat /\ N \in Nat
            BY <1>1, LooksUp, Parts DEF LookupInv, Placed
        <3>2. QED
            BY <1>4, <3>1 DEF KeyRead, KeyFails
    <2>2. QED
        BY <1>1, <1>4, <2>1, GoOnRight, ToTailRight, FoundRight
<1>5. QED
    BY <1>2, <1>3, <1>4 DEF Scan

\* So does starting at the end of the cache.
LEMMA OpenTailRight ==
    ASSUME IInv, RightNow, OpenTail
    PROVE  RightNow'
<1>1. op.fn \in Lookups /\ op.phase = "tail"
    BY LooksUp DEF OpenTail
<1>2. CASE Return(tk, "no_item")
    BY <1>2, ReturnedRight DEF RightNow
<1>3. CASE ~Return(tk, "no_item")
    <2>1. op'.phase = "tailscan" /\ op'.fn = op.fn
        BY <1>3, Parts DEF OpenTail, Continue, Calls
    <2>2. LookupInv' /\ arr' = arr /\ tk' = tk /\ win' = win
        BY <1>3, OpenTailKeeps DEF StateInv, CallInv, OpenTail, Continue
    <2>3. Placed(xtk)' /\ op'.fn # "nth"
        BY <1>1, <2>1, <2>2 DEF LookupInv, Lookups
    <2>4. Moves(xtk)'
        BY <2>3 DEF Moves, Placed
    <2>5. KnowsPlace(tk)'
        BY <2>2, PlaceKept DEF RightNow
    <2>6. QED
        BY <2>2, <2>3, <2>4, <2>5, WindowKept DEF RightNow
<1>4. QED
    BY <1>2, <1>3

\* So does a step of a scan past the end of the cache.
LEMMA TailScanRight ==
    ASSUME IInv, RightNow, TailScan
    PROVE  RightNow'
<1>1. op.phase = "tailscan" /\ op.fn \in Lookups /\ xtk.index < N
    BY LooksUp, Parts DEF TailScan, LookupInv
<1>2. CASE KeyFailed
    BY <1>2, ReturnedRight DEF KeyFailed, RightNow
<1>3. CASE Return(tk, "no_item")
    BY <1>3, ReturnedRight DEF RightNow
<1>4. CASE GoOn(op.count, "over") \/ Found(TwinsSoFar) \/ GoOn(TwinsSoFar, "over")
    BY <1>1, <1>4, GoOnRight, FoundRight
<1>5. QED
    BY <1>2, <1>3, <1>4 DEF TailScan

(* Every step keeps trackers right.                                        *)
LEMMA StepRight ==
    ASSUME IInv, RightInv, [Next]_vars
    PROVE  RightInv'
<1> SUFFICES ASSUME arr' \notin Left PROVE RightNow'
    BY DEF RightInv
<1>1. arr \notin Left
    <2>1. CASE UNCHANGED vars
        BY <2>1 DEF vars
    <2>2. CASE Next
        BY <2>2, CallKeeps, StartNthKeeps, WalkNthKeeps, OpenLookupKeeps, NextMarkKeeps,
           ScanKeeps, OpenTailKeeps, TailScanKeeps DEF Next, Step, Over, Return
    <2>3. QED
        BY <2>1, <2>2
<1>2. RightNow
    BY <1>1 DEF RightInv
<1>3. CASE Call
    BY <1>1, <1>2, <1>3, CallRight
<1>4. CASE StartNth \/ WalkNth
    BY <1>2, <1>4, StartNthRight, WalkNthRight
<1>5. CASE OpenLookup \/ NextMark
    BY <1>2, <1>5, BookRight
<1>6. CASE Scan \/ OpenTail \/ TailScan
    BY <1>2, <1>6, ScanRight, OpenTailRight, TailScanRight
<1>7. CASE Over
    BY <1>2, <1>7, ReturnedRight DEF Over, RightNow
<1>8. CASE UNCHANGED vars
    <2>1. arr' = arr /\ win' = win /\ tk' = tk /\ xtk' = xtk /\ op' = op
        BY <1>8 DEF vars
    <2>2. KnowsPlace(tk)' /\ Moves(xtk)'
        BY <1>2, <2>1, PlaceKept, MovesKept DEF RightNow
    <2>3. QED
        BY <1>2, <2>1, <2>2, WindowKept DEF RightNow
<1>9. QED
    BY <1>3, <1>4, <1>5, <1>6, <1>7, <1>8 DEF Next, Step

(* A tracker that is to know where its item is, by whichever way it came   *)
(* to it (first, next, n-th, by key, through a slice, from a mark or from  *)
(* the last cached item), knows it right: of every array from whose slices *)
(* the client does not return (tracker_return_from_slice() leaves the      *)
(* tracker on an item with the offset of another).                         *)
THEOREM OffsetIsRightAlways == Spec => []OffsetIsRight
<1>1. Init => IInv /\ RightInv
    <2>1. ASSUME Init PROVE RightNow
        <3>1. tk.at = "nil" /\ xtk.at = "nil" /\ op.fn = "none" /\ ~win.sliced
            BY <2>1 DEF Init, Rewound, NoOp, Whole
        <3>2. QED
            BY <3>1 DEF RightNow, KnowsPlace, Moves
    <2>2. QED
        BY <2>1, InitHolds DEF RightInv
<1>2. IInv /\ RightInv /\ [Next]_vars => (IInv /\ RightInv)'
    BY StepHolds, StepRight
<1>3. RightInv => OffsetIsRight
    BY DEF RightInv, RightNow, KnowsPlace, Moves, OffsetIsRight
<1>4. QED
    BY <1>1, <1>2, <1>3, PTL DEF Spec

-----------------------------------------------------------------------------
(***************************************************************************)
(* Lookups of keys: what has been counted when the search has got so far.  *)
(***************************************************************************)
(* A lookup that the property is about: of a key from a mark that the      *)
(* cache has, or the next one, or of the next item from such an item.      *)
InReach ==
    IF op.fn = "next_key" THEN op.from - 1 <= op.known ELSE WithinReach

(* The search has got to item p, with n for the twins before it (and -1    *)
(* for none): none of those is the one.                                    *)
Before(p) == {i \in Twins : i < p}
SoFar(n, p) ==
    /\ n + 1 = Cardinality(Before(p))
    /\ op.fn = "with_key" => n < op.nth
    /\ op.fn = "next_key" => n = -1
    /\ op.fn = "twin" /\ op.nth \in Twins => p <= op.nth

(* Between two marks: at the start of the next one that the book may give, *)
(* which the cache has, or will have next.                                 *)
AtMarks(c, n, l) ==
    LET m == StartMark(c) IN
    /\ c # Finished
    /\ MarkOf(op.from) <= m /\ m <= MarkOf(l) + 1
    /\ SoFar(n, MarkStart(m))
    /\ \A i \in Twins : i < MarkStart(m) => i <= l

(* In a mark that the cache has, at one of its items or at the next one.   *)
InMark(m, n, i, l) ==
    /\ MarkOf(op.from) <= m /\ m <= MarkOf(l)
    /\ i <= l + 1 /\ i < N
    /\ SoFar(n, i)

(* Past the items that were cached.                                        *)
InTail(n, i) ==
    /\ op.fn = "next_key" => op.from <= i
    /\ op.to # -1 => i <= op.to
    /\ SoFar(n, i)

SearchNow ==
    /\ op.known <= last
    /\ op.phase = "start" => op.count = -1 /\ (op.fn = "with_key" => op.nth \in Nat)
    /\ op.phase = "mark" => AtMarks(op.cookie, op.count, last)
    /\ op.phase = "scan" => InMark(ScannedMark, op.count, xtk.index, last)
    /\ op.phase = "tail" => SoFar(op.count, last + 1)
    /\ op.phase = "tailscan" => InTail(op.count, xtk.index)
    /\ op.phase = "over" => SoFar(op.count, N)

SearchInv ==
    /\ op.fn = "nth" => op.count = -1
    /\ op.fn \in Lookups /\ InReach => SearchNow

(* What the call in progress returns, when it is a lookup.                 *)
Answered ==
    /\ op.fn \in {"with_key", "next_key"} =>
         LET rank == IF op.fn = "with_key" THEN op.nth ELSE 0 IN
         \/ ret' = "ok" /\ tk'.index \in Twins /\ Rank(tk'.index) = rank
         \/ ret' = "no_item" /\ Cardinality(Twins) <= rank
         \/ ret' = "error" /\ arr.bad # -1
    /\ op.fn = "twin" /\ op.nth \in Twins =>
         \/ ret' = "ok" /\ twin' = Rank(op.nth)
         \/ ret' = "error" /\ arr.bad # -1

(* There are as many twins as items, at most.                              *)
LEMMA TwinsAreItems ==
    ASSUME arr \in Arrays
    PROVE  /\ N \in Nat /\ Twins \in SUBSET (0 .. (N - 1)) /\ IsFiniteSet(Twins)
           /\ \A p : IsFiniteSet(Before(p)) /\ Cardinality(Before(p)) \in Nat
<1>1. N \in Nat /\ Twins \in SUBSET (0 .. (N - 1))
    BY Offsets DEF Twins
<1>2. IsFiniteSet(Twins)
    <2>1. 0 \in Int /\ N - 1 \in Int
        BY <1>1
    <2>2. IsFiniteSet(0 .. (N - 1))
        BY <2>1, FS_Interval, Zenon
    <2>3. QED
        BY <1>1, <2>2, FS_Subset, Zenon
<1>3. ASSUME NEW p PROVE IsFiniteSet(Before(p)) /\ Cardinality(Before(p)) \in Nat
    <2>1. Before(p) \in SUBSET Twins
        BY DEF Before
    <2>2. QED
        BY <1>2, <2>1, FS_Subset, FS_CardinalityType
<1>4. QED
    BY <1>1, <1>2, <1>3

(* The search goes on past an item that is no twin, or is not the one.     *)
LEMMA PastOther ==
    ASSUME arr \in Arrays, NEW n \in Int, NEW p \in Nat, SoFar(n, p), p \notin Twins
    PROVE  SoFar(n, p + 1)
<1>1. \A i \in Twins : i \in Int
    BY TwinsAreItems
<1>2. Before(p + 1) = Before(p)
    <2>1. \A i \in Twins : i < p + 1 <=> i < p
        BY <1>1
    <2>2. QED
        BY <2>1, Zenon DEF Before
<1>3. op.nth \in Twins /\ p <= op.nth => p + 1 <= op.nth
    BY <1>1
<1>4. QED
    BY <1>2, <1>3 DEF SoFar

\* So it does past a twin, which is counted.
LEMMA PastTwin ==
    ASSUME arr \in Arrays, NEW n \in Int, NEW p \in Nat, SoFar(n, p), p \in Twins,
           op.nth \in Int, op.fn \in Lookups,
           op.fn # "next_key", op.fn = "with_key" => n + 1 # op.nth,
           op.fn = "twin" => p # op.nth
    PROVE  SoFar(n + 1, p + 1)
<1>1. (\A i \in Twins : i \in Int) /\ IsFiniteSet(Before(p))
    BY TwinsAreItems
<1>2. Before(p + 1) = Before(p) \cup {p} /\ p \notin Before(p)
    <2>1. \A i \in Twins : i < p + 1 <=> i < p \/ i = p
        BY <1>1
    <2>2. ~(p < p)
        OBVIOUS
    <2>3. QED
        BY <2>1, <2>2, Zenon DEF Before
<1>3. Cardinality(Before(p + 1)) = n + 2
    BY <1>1, <1>2, FS_AddElement DEF SoFar
<1>4. QED
    BY <1>3 DEF SoFar, Lookups

(* No twin lies between two items: having got to one is having got to the  *)
(* other.                                                                  *)
LEMMA NoneBetween ==
    ASSUME arr \in Arrays, NEW n, NEW p \in Int, NEW q \in Int, SoFar(n, p),
           \A i \in Twins : i < p <=> i < q
    PROVE  SoFar(n, q)
<1>1. Twins \in SUBSET Int
    BY TwinsAreItems
<1>2. Before(p) = Before(q)
    BY DEF Before
<1>3. \A i \in Twins : p <= i => q <= i
    BY <1>1
<1>4. QED
    BY <1>2, <1>3 DEF SoFar

(* None is counted before the first item that the lookup may give.         *)
LEMMA NoneBefore ==
    ASSUME arr \in Arrays, NEW p \in Int, p <= op.from, op.from \in Nat,
           op.fn = "with_key" => op.nth \in Nat
    PROVE  SoFar(-1, p)
<1>1. \A i \in Twins : i \in Int /\ op.from <= i
    BY TwinsAreItems DEF Twins
<1>2. Before(p) = {}
    BY <1>1 DEF Before
<1>3. Cardinality(Before(p)) = 0
    BY <1>2, FS_EmptySet
<1>4. op.nth \in Twins => p <= op.nth
    BY <1>1
<1>5. QED
    BY <1>3, <1>4 DEF SoFar

(* The item is the one.                                                    *)
LEMMA OneIsFound ==
    ASSUME NEW n \in Int, NEW p, SoFar(n, p), p \in Twins,
           op.fn = "with_key" => n + 1 = op.nth,
           op.fn = "twin" => p = op.nth,
           ret' = "ok", op.fn = "twin" => twin' = n + 1, op.fn # "twin" => tk'.index = p
    PROVE  Answered
<1>1. Rank(p) = n + 1
    BY DEF SoFar, Before, Rank
<1>2. QED
    BY <1>1 DEF Answered, SoFar

(* All the twins are counted, and there is none left.                      *)
LEMMA NoneIsLeft ==
    ASSUME arr \in Arrays, NEW n \in Int, NEW p \in Int, SoFar(n, p),
           \A i \in Twins : i < p, ret' = "no_item", op.nth \in Int
    PROVE  Answered
<1>1. Before(p) = Twins
    BY DEF Before
<1>2. Cardinality(Twins) = n + 1
    BY <1>1 DEF SoFar
<1>3. ~(op.fn = "twin" /\ op.nth \in Twins)
    <2>1. \A i \in Twins : ~(p <= i)
        BY TwinsAreItems
    <2>2. QED
        BY <2>1 DEF SoFar
<1>4. QED
    BY <1>2, <1>3 DEF Answered, SoFar

(* The call in progress goes on: it is about the same items.               *)
SameCall ==
    /\ arr' = arr
    /\ op'.fn = op.fn /\ op'.key = op.key /\ op'.nth = op.nth
    /\ op'.from = op.from /\ op'.to = op.to /\ op'.known = op.known

\* It has then got as far as it had.
LEMMA SameSearch ==
    ASSUME SameCall
    PROVE  /\ N' = N /\ (InReach <=> InReach')
           /\ \A n, p : SoFar(n, p)' <=> SoFar(n, p)
           /\ \A c, n, l : AtMarks(c, n, l)' <=> AtMarks(c, n, l)
           /\ \A m, n, i, l : InMark(m, n, i, l)' <=> InMark(m, n, i, l)
           /\ \A n, i : InTail(n, i)' <=> InTail(n, i)
<1>1. /\ N' = N /\ \A i : Key(i)' = Key(i)
      /\ op'.fn = op.fn /\ op'.key = op.key /\ op'.nth = op.nth
      /\ op'.from = op.from /\ op'.to = op.to /\ op'.known = op.known
    BY SameArray DEF SameCall
<1>2. Twins' = Twins
    BY <1>1, Zenon DEF Twins
<1>3. \A p : Before(p)' = Before(p)
    BY <1>2, Zenon DEF Before
<1>4. InReach <=> InReach'
    BY <1>1, Zenon DEF InReach, WithinReach, MarkOf
<1>5. \A n, p : SoFar(n, p)' <=> SoFar(n, p)
    BY <1>1, <1>2, <1>3, Zenon DEF SoFar
<1>6. \A c, n, l : AtMarks(c, n, l)' <=> AtMarks(c, n, l)
    BY <1>1, <1>2, <1>5, Zenon DEF AtMarks, MarkOf
<1>7. \A m, n, i, l : InMark(m, n, i, l)' <=> InMark(m, n, i, l)
    BY <1>1, <1>5, Zenon DEF InMark, MarkOf
<1>8. \A n, i : InTail(n, i)' <=> InTail(n, i)
    BY <1>1, <1>5, Zenon DEF InTail
<1>9. QED
    BY <1>1, <1>4, <1>5, <1>6, <1>7, <1>8, Zenon

(* A step of the lookup that goes on has got as far as it says, and one    *)
(* that ends it returns what is right.                                     *)
SearchGoes == (op' = NoOp /\ Answered) \/ (SameCall /\ SearchNow')

\* A step that goes on, by what the call is then.
LEMMA GoesTo ==
    ASSUME op \in Calls, op.known <= last', NEW o, NEW x, Continue(o, x),
           o = [op EXCEPT !.count = o.count, !.phase = o.phase, !.cookie = o.cookie],
           o.phase = "mark" => AtMarks(o.cookie, o.count, last'),
           o.phase = "scan" => InMark(CookieMark(o.cookie), o.count, x.index, last'),
           o.phase = "tail" => SoFar(o.count, last' + 1),
           o.phase = "tailscan" => InTail(o.count, x.index),
           o.phase = "over" => SoFar(o.count, N),
           o.phase # "start"
    PROVE  SearchGoes
<1>1. op' = o /\ xtk' = x /\ arr' = arr
    BY DEF Continue
<1>2. SameCall
    BY <1>1 DEF SameCall, Calls
<1>3. op.known = op'.known
    BY <1>2 DEF SameCall
<1>4. SearchNow'
    BY <1>1, <1>2, <1>3, SameSearch DEF SearchNow, ScannedMark
<1>5. QED
    BY <1>2, <1>4 DEF SearchGoes

(* A step that ends the lookup.                                            *)
LEMMA EndsWith ==
    ASSUME NEW t, NEW s, Return(t, s), s \in {"ok", "no_item", "error"},
           Answered
    PROVE  SearchGoes
BY DEF Return, SearchGoes


\* What a step leaves alone of the call stays as it was.
LEMMA CallsGoOn ==
    ASSUME op \in Calls
    PROVE  /\ \A h : [op EXCEPT !.phase = h]
                       = [op EXCEPT !.count = op.count, !.phase = h, !.cookie = op.cookie]
           /\ \A h, c : [op EXCEPT !.phase = h, !.cookie = c]
                          = [op EXCEPT !.count = op.count, !.phase = h, !.cookie = c]
           /\ \A n, h : [op EXCEPT !.count = n, !.phase = h]
                          = [op EXCEPT !.count = n, !.phase = h, !.cookie = op.cookie]
           /\ \A n : [op EXCEPT !.count = n]
                       = [op EXCEPT !.count = n, !.phase = op.phase, !.cookie = op.cookie]
BY DEF Calls

\* A step that goes on, by what it changes of the call.
LEMMA GoesOn ==
    ASSUME op \in Calls, op.known <= last', NEW n, NEW h, NEW c, NEW x,
           Continue([op EXCEPT !.count = n, !.phase = h, !.cookie = c], x),
           h = "mark" => AtMarks(c, n, last'),
           h = "scan" => InMark(CookieMark(c), n, x.index, last'),
           h = "tail" => SoFar(n, last' + 1),
           h = "tailscan" => InTail(n, x.index),
           h = "over" => SoFar(n, N),
           h # "start"
    PROVE  SearchGoes
<1> DEFINE o == [op EXCEPT !.count = n, !.phase = h, !.cookie = c]
<1>1. o.count = n /\ o.phase = h /\ o.cookie = c
    BY DEF Calls
<1>2. o = [op EXCEPT !.count = o.count, !.phase = o.phase, !.cookie = o.cookie]
    BY <1>1
<1>3. Continue(o, x)
    OBVIOUS
<1> HIDE DEF o
<1>4. QED
    BY <1>1, <1>2, <1>3, GoesTo

(* What the book holds of the items that are cached: it never says that    *)
(* the mark of such an item cannot have its key.                           *)
LEMMA TwinsHeld ==
    ASSUME CacheInv, arr.indexed, NEW i \in Nat, i <= last
    PROVE  /\ MarkOf(i) \in Nat /\ MarkOf(i) < Len(book.marks)
           /\ MarkMayHave(book, MarkOf(i), Key(i))
           /\ PageMayHave(book, PageOf(MarkOf(i)), Key(i))
<1> DEFINE n == last + 1
<1>1. n \in Nat /\ last = n - 1 /\ i \in 0 .. (n - 1) /\ i \in 0 .. (N - 1) /\ n <= N
    BY Offsets DEF CacheInv
<1>2. book = BookOf(n)
    BY DEF CacheInv, CacheIsPrefix
<1> HIDE DEF n
<1> DEFINE w == Key(i)
           m == MarkOf(i)
           p == PageOf(m)
<1>3. m \in Nat /\ m + 1 \in 1 .. (MarkOf(n - 1) + 1)
    <2>1. MarkOf(i) \in Nat /\ MarkOf(n - 1) \in Int /\ MarkOf(i) < MarkOf(n - 1) + 1
        BY <1>1, MarkBefore, Zenon
    <2> HIDE DEF m
    <2>2. m \in Nat /\ MarkOf(n - 1) \in Int /\ m < MarkOf(n - 1) + 1
        BY <2>1 DEF m
    <2>3. QED
        BY <2>2
<1>4. p \in Nat /\ p + 1 \in 1 .. (PageOf(MarkOf(n - 1)) + 1)
    <2>1. PageOf(MarkOf(i)) \in Nat /\ PageOf(MarkOf(n - 1)) \in Int
          /\ PageOf(MarkOf(i)) < PageOf(MarkOf(n - 1)) + 1
        BY <1>1, PageBefore, Zenon
    <2> HIDE DEF p
    <2>2. p \in Nat /\ PageOf(MarkOf(n - 1)) \in Int /\ p < PageOf(MarkOf(n - 1)) + 1
        BY <2>1 DEF p
    <2>3. QED
        BY <2>2
<1>5. Hash[w].short \in Short /\ Hash[w].long \in Long
    BY <1>1, Keys DEF CacheInv
<1> DEFINE S == {j \in 0 .. (n - 1) : MarkOf(j) = (m + 1) - 1 /\ Hash[Key(j)].short = Hash[w].short}
           L == {j \in 0 .. (n - 1) : PageOf(MarkOf(j)) = (p + 1) - 1 /\ Hash[Key(j)].long = Hash[w].long}
<1>6. i \in S /\ i \in L
    BY <1>1, <1>3, <1>4
<1>7. Hash[w].bits \subseteq BitsOf(S) /\ Hash[w].bits \subseteq BitsOf(L)
    <2> HIDE DEF S, L
    <2>1. QED
        BY <1>6 DEF BitsOf
<1>8. /\ book.marks[m + 1][Hash[w].short] = BitsOf(S)
      /\ book.pages[p + 1][Hash[w].long] = BitsOf(L)
    <2> HIDE DEF m, p, w
    <2>1. QED
        BY <1>2, <1>3, <1>4, <1>5 DEF BookOf
<1>9. MarkOf(i) < Len(book.marks)
    BY <1>1, <1>3, BookLengths
<1>10. QED
    BY <1>3, <1>7, <1>8, <1>9 DEF MarkMayHave, PageMayHave

(* Marks and their items come in the same order.                           *)
LEMMA MarksGrow ==
    /\ \A i \in {-1} \cup Nat, j \in {-1} \cup Nat : i <= j => MarkOf(i) <= MarkOf(j)
    /\ \A i \in {-1} \cup Nat : MarkOf(i) \in {-1} \cup Nat
    /\ \A m \in Nat, i \in Nat : MarkStart(m) <= i <=> m <= MarkOf(i)
BY ArraysAssumption DEF MarkOf, MarkStart

(* A lookup that the property is about.                                    *)
Searching == op.fn \in Lookups /\ InReach /\ SearchNow

\* What is known of such a lookup.
LEMMA SearchParts ==
    ASSUME IInv, Searching
    PROVE  /\ op \in Calls /\ op.from \in Nat /\ op.nth \in Int /\ op.count \in Int
           /\ op.to \in Int /\ op.cookie \in Cookie /\ op.fn \in Lookups
           /\ op.known \in Int /\ op.known <= last
           /\ arr \in Arrays /\ arr.indexed /\ CacheInv
           /\ last \in {-1} \cup Nat /\ last < N /\ N \in Nat
<1>1. op \in Calls /\ arr \in Arrays /\ CacheInv /\ N \in Nat
    BY Parts
<1>2. op.fn \in Lookups /\ op.known <= last
    BY DEF Searching, SearchNow
<1>3. arr.indexed
    BY <1>2, Parts DEF LookupInv
<1>4. last \in {-1} \cup Nat /\ last < N
    BY <1>1 DEF CacheInv
<1>5. QED
    BY <1>1, <1>2, <1>3, <1>4 DEF Calls

(* The lookup goes on past the cached items.                               *)
LEMMA ToTailGoes ==
    ASSUME IInv, Searching, last <= last', last' \in Int, SoFar(op.count, last' + 1), ToTail
    PROVE  SearchGoes
<1> DEFINE h == "tail"
<1>1. Continue([op EXCEPT !.phase = h], xtk)
    BY DEF ToTail
<1>2. [op EXCEPT !.phase = h] = [op EXCEPT !.count = op.count, !.phase = h, !.cookie = op.cookie]
    BY CallsGoOn, SearchParts
<1>3. op.known <= last'
    BY SearchParts
<1>4. h = "tail" /\ h \notin {"mark", "scan", "tailscan", "over", "start"}
    OBVIOUS
<1> HIDE DEF h
<1>5. QED
    BY <1>1, <1>2, <1>3, <1>4, SearchParts, GoesOn

(* A lookup that begins starts at the mark of its first item, or past the  *)
(* cached items.                                                           *)
LEMMA OpenLookupGoes ==
    ASSUME IInv, Searching, OpenLookup
    PROVE  SearchGoes
<1>1. /\ op.count = -1
      /\ op.fn = "with_key" => op.nth \in Nat
      /\ last' = last
    BY DEF OpenLookup, Searching, SearchNow, cacheVars
<1>2. \A p \in Int : p <= op.from => SoFar(op.count, p)
    <2>1. -1 = op.count /\ op.from \in Nat /\ arr \in Arrays
        BY <1>1, SearchParts
    <2>2. \A p \in Int : p <= op.from => SoFar(-1, p)
        BY <1>1, <2>1, NoneBefore
    <2>3. QED
        BY <2>1, <2>2
<1>3. CASE op.fn = "next_key" /\ op.from > last /\ ToTail
    <2>1. last + 1 <= op.from /\ last + 1 \in Int
        BY <1>3, SearchParts
    <2>2. SoFar(op.count, last' + 1)
        BY <1>1, <1>2, <2>1
    <2>3. QED
        BY <1>1, <1>3, <2>2, SearchParts, ToTailGoes
<1>4. CASE /\ op.fn = "next_key" => op.from <= last
           /\ Continue([op EXCEPT !.phase = "mark", !.cookie = CookieFrom(op.from)], xtk)
    <2> DEFINE f == MarkOf(op.from)
               c == CookieFrom(op.from)
               k == MarkOf(last) + 1
               h == "mark"
    <2>1. f \in Nat /\ k \in Nat /\ MarkOf(last) \in Int /\ Len(book.pages) = PagesOf(k)
        <3>1. f \in Nat
            BY SearchParts, Marks
        <3>2. MarkOf(last) \in {-1} \cup Nat
            BY SearchParts, MarksGrow
        <3>3. Len(book.pages) = PagesOf(k)
            BY SearchParts, BookLengths
        <3> HIDE DEF f
        <3>4. QED
            BY <3>1, <3>2, <3>3
    <2>2. f <= k
        <3>1. CASE op.fn = "next_key"
            <4>1. f <= MarkOf(last)
                BY <1>4, <3>1, SearchParts, MarksGrow
            <4> HIDE DEF f
            <4>2. QED
                BY <2>1, <4>1
        <3>2. CASE op.fn # "next_key"
            <4>1. f <= MarkOf(op.known) + 1
                BY <3>2 DEF Searching, InReach, WithinReach
            <4>2. MarkOf(op.known) <= MarkOf(last) /\ MarkOf(op.known) \in Int
                <5> DEFINE a == op.known
                           b == last
                <5>1. a \in Int /\ b \in Int /\ a <= b
                    BY SearchParts
                <5> HIDE DEF a, b
                <5>2. MarkOf(a) <= MarkOf(b) /\ MarkOf(a) \in Int
                    BY <5>1, ArraysAssumption DEF MarkOf
                <5>3. QED
                    BY <5>2 DEF a, b
            <4> HIDE DEF f
            <4>3. QED
                BY <2>1, <4>1, <4>2
        <3>3. QED
            BY <3>1, <3>2
    <2>3. c = LookupFrom(book, f)
        BY DEF CookieFrom
    <2> HIDE DEF c
    <2>4. c # Finished /\ StartMark(c) = f
        <3> HIDE DEF f, k
        <3>1. QED
            BY <2>1, <2>2, <2>3, LookupStartsAt
    <2>5. MarkStart(f) \in Nat /\ MarkStart(f) <= op.from
        BY SearchParts, Marks
    <2>6. \A i \in Twins : ~(i < MarkStart(f))
        <3> HIDE DEF f
        <3>1. \A i \in Twins : i \in Int /\ op.from <= i
            BY TwinsAreItems, SearchParts DEF Twins
        <3>2. QED
            BY <2>5, <3>1, SearchParts
    <2>7. AtMarks(c, op.count, last')
        <3>1. SoFar(op.count, MarkStart(f))
            BY <1>2, <2>5
        <3> HIDE DEF f
        <3>2. f <= StartMark(c) /\ StartMark(c) <= MarkOf(last') + 1
            BY <1>1, <2>1, <2>2, <2>4
        <3>3. QED
            BY <2>4, <2>6, <3>1, <3>2 DEF AtMarks, f
    <2>8. Continue([op EXCEPT !.phase = h, !.cookie = c], xtk)
        BY <1>4 DEF c
    <2>9. [op EXCEPT !.phase = h, !.cookie = c]
            = [op EXCEPT !.count = op.count, !.phase = h, !.cookie = c]
        BY CallsGoOn, SearchParts
    <2>10. op.known <= last'
        BY <1>1, SearchParts
    <2>11. h = "mark" /\ h \notin {"tail", "scan", "tailscan", "over", "start"}
        OBVIOUS
    <2> HIDE DEF h
    <2>12. QED
        BY <2>7, <2>8, <2>9, <2>10, <2>11, SearchParts, GoesOn
<1>5. QED
    BY <1>3, <1>4 DEF OpenLookup

(* The next mark that may have the key: no item with the key lies before   *)
(* it from where the search has got to, in the items that are cached.      *)
LEMMA NextMarkGoes ==
    ASSUME IInv, Searching, NextMark
    PROVE  SearchGoes
<1> DEFINE k == MarkOf(last) + 1
           s == StartMark(op.cookie)
           C == Candidates(book, op.key, op.cookie)
           c == NextCandidate(book, op.key, op.cookie)
           m == CookieMark(c)
<1>1. /\ op.phase = "mark" /\ UNCHANGED cacheVars /\ last' = last
      /\ AtMarks(op.cookie, op.count, last)
    BY DEF NextMark, Searching, SearchNow, cacheVars
<1>2. /\ op.cookie # Finished
      /\ MarkOf(op.from) <= s /\ s <= k
      /\ SoFar(op.count, MarkStart(s))
      /\ \A i \in Twins : i < MarkStart(s) => i <= last
    BY <1>1 DEF AtMarks
<1>3. k \in Nat /\ k = Len(book.marks) /\ Len(book.pages) = PagesOf(k) /\ Len(book.pages) \in Nat
    BY SearchParts, BookLengths
<1>4. s \in Nat /\ MarkStart(s) \in Nat /\ MarkOf(op.from) \in Nat
    BY SearchParts, CookieStart, Marks
<1>5. C \in SUBSET (s .. (k - 1)) /\ C \in SUBSET Nat
    <2> HIDE DEF k
    <2>1. op.cookie \in Cookie
        BY SearchParts
    <2>2. C \subseteq s .. (k - 1)
        BY <1>2, <1>3, <2>1, CandidatesWithin
    <2> HIDE DEF C, s
    <2>3. QED
        BY <1>3, <1>4, <2>2
<1>6. ASSUME NEW i \in Twins, ~(i < MarkStart(s)), i <= last PROVE MarkOf(i) \in C
    <2>1. i \in Nat /\ Key(i) = op.key
        BY TwinsAreItems, SearchParts DEF Twins
    <2>2. /\ MarkOf(i) \in Nat /\ MarkOf(i) < k
          /\ MarkMayHave(book, MarkOf(i), op.key)
          /\ PageMayHave(book, PageOf(MarkOf(i)), op.key)
        BY <1>3, <1>6, <2>1, SearchParts, TwinsHeld
    <2>3. s <= MarkOf(i)
        <3>1. MarkStart(s) <= i
            BY <1>4, <1>6, <2>1
        <3> HIDE DEF s
        <3>2. QED
            BY <1>4, <2>1, <3>1, MarksGrow
    <2> HIDE DEF k
    <2>4. QED
        BY <1>3, <2>2, <2>3, SearchParts, IsCandidate
<1>7. \A i \in Twins : i \in Nat
    BY TwinsAreItems, SearchParts
<1>8. /\ c \in Cookie
      /\ C # {} => m = Least(C) /\ m \in C /\ m \in Nat /\ \A j \in C : m <= j
      /\ C = {} => m = NoMark
    <2>1. /\ c \in Cookie
          /\ C = {} => c = Finished
          /\ C # {} => m = Least(C)
        BY <1>2, <1>3, SearchParts, NextIsLeast
    <2>2. C # {} => Least(C) \in C /\ \A j \in C : Least(C) <= j
        <3> HIDE DEF C
        <3>1. QED
            BY <1>5, LeastMark
    <2>3. CookieMark(Finished) = NoMark
        BY DEF CookieMark, Finished
    <2> HIDE DEF C, c
    <2>4. QED
        BY <1>5, <2>1, <2>2, <2>3
<1>9. op.known <= last' /\ last \in Int /\ last' \in Int /\ last <= last'
    BY <1>1, SearchParts
<1> HIDE DEF C, c, m, s, k
<1>10. CASE m = NoMark /\ ToTail
    <2>1. C = {}
        BY <1>8, <1>10 DEF NoMark
    <2>2. \A i \in Twins : i < MarkStart(s) <=> i < last + 1
        BY <1>2, <1>4, <1>6, <1>7, <1>9, <2>1
    <2>3. SoFar(op.count, last + 1)
        BY <1>2, <1>4, <1>9, <2>2, SearchParts, NoneBetween
    <2>4. QED
        BY <1>1, <1>9, <1>10, <2>3, ToTailGoes
<1>11. CASE m # NoMark
    <2>1. /\ m \in Nat /\ s <= m /\ m < k /\ m \in C
          /\ \A j \in C : m <= j
        <3>1. C # {}
            BY <1>8, <1>11
        <3>2. QED
            BY <1>3, <1>4, <1>5, <1>8, <3>1
    <2>2. m <= MarkOf(last) /\ last \in Nat
        <3>1. MarkOf(last) \in {-1} \cup Nat
            BY SearchParts, MarksGrow
        <3>2. m <= MarkOf(last)
            BY <2>1, <3>1 DEF k
        <3>3. last # -1
            BY <2>1, <3>1, <3>2, Marks
        <3>4. QED
            BY <3>2, <3>3, SearchParts
    <2>3. MarkStart(m) \in Nat /\ MarkStart(m) <= last
        BY <2>1, <2>2, Marks, MarksGrow
    <2>4. ~(arr.var /\ m >= Len(offsets))
        <3>1. arr.var => Len(offsets) = k
            BY SearchParts DEF CacheInv, CacheIsPrefix, k
        <3>2. QED
            BY <1>3, <2>1, <3>1
    <2>5. Continue([op EXCEPT !.phase = "scan", !.cookie = c], AtMark(m))
        <3>1. m # NoMark /\ ~(arr.var /\ m >= Len(offsets))
            BY <1>11, <2>4
        <3>2. QED
            BY <3>1, Zenon DEF NextMark, m, c
    <2>6. AtMark(m).index = MarkStart(m)
        BY <2>1, <2>2, SearchParts, MarkPlaced
    <2>7. \A i \in Twins : i < MarkStart(s) <=> i < MarkStart(m)
        <3>1. MarkStart(s) <= MarkStart(m)
            BY <1>4, <2>1, ArraysAssumption DEF MarkStart
        <3>2. ASSUME NEW i \in Twins, ~(i < MarkStart(s)), i < MarkStart(m) PROVE FALSE
            <4>1. MarkOf(i) \in C
                BY <1>6, <1>7, <1>9, <2>3, <3>2
            <4>2. ~(m <= MarkOf(i))
                BY <1>7, <2>1, <2>3, <3>2, MarksGrow
            <4>3. QED
                BY <2>1, <4>1, <4>2
        <3>3. QED
            BY <1>4, <1>7, <2>3, <3>1, <3>2
    <2>8. SoFar(op.count, MarkStart(m))
        BY <1>2, <1>4, <2>3, <2>7, SearchParts, NoneBetween
    <2>9. InMark(m, op.count, AtMark(m).index, last')
        <3>1. MarkOf(op.from) <= m
            BY <1>2, <1>4, <2>1
        <3>2. MarkStart(m) <= last + 1 /\ MarkStart(m) < N
            BY <2>3, SearchParts
        <3>3. QED
            BY <1>1, <2>2, <2>6, <2>8, <3>1, <3>2 DEF InMark
    <2> DEFINE h == "scan"
    <2>10. h = "scan" /\ h \notin {"tail", "mark", "tailscan", "over", "start"}
        OBVIOUS
    <2>11. Continue([op EXCEPT !.phase = h, !.cookie = c], AtMark(m))
        BY <2>5
    <2> HIDE DEF h
    <2>12. [op EXCEPT !.phase = h, !.cookie = c]
             = [op EXCEPT !.count = op.count, !.phase = h, !.cookie = c]
        BY CallsGoOn, SearchParts
    <2>13. QED
        BY <1>9, <2>9, <2>10, <2>11, <2>12, SearchParts, GoesOn DEF m
<1>12. QED
    BY <1>10, <1>11 DEF NextMark, m, c

(* The lookup ends at the item that is the one.                            *)
LEMMA FoundGoes ==
    ASSUME IInv, Searching, SoFar(op.count, xtk.index), xtk.index \in Twins,
           IsTheOne(op.count + 1), Found(op.count + 1)
    PROVE  SearchGoes
<1>1. op.count \in Int
    BY SearchParts
<1>2. /\ op.fn = "with_key" => op.count + 1 = op.nth
      /\ op.fn = "twin" => xtk.index = op.nth
    BY DEF IsTheOne
<1>3. /\ op' = NoOp /\ ret' = "ok"
      /\ op.fn = "twin" => twin' = op.count + 1
      /\ op.fn # "twin" => tk'.index = xtk.index
    BY DEF Found, Return
<1>4. Answered
    BY <1>1, <1>2, <1>3, OneIsFound
<1>5. QED
    BY <1>3, <1>4 DEF SearchGoes

(* A key that cannot be evaluated.                                         *)
LEMMA KeyFailedGoes ==
    ASSUME IInv, Searching, xtk.index \in Nat, xtk.index < N, KeyFailed
    PROVE  SearchGoes
<1>1. Return(tk, "error") /\ arr.bad = xtk.index
    BY SearchParts DEF KeyFailed, KeyFails
<1>2. ret' = "error" /\ arr.bad # -1 /\ op' = NoOp
    BY <1>1 DEF Return
<1>3. QED
    BY <1>2 DEF Answered, SearchGoes

(* The item is left behind, and the search goes on with the next one, or   *)
(* beyond the end of the array.                                            *)
LEMMA GoOnGoes ==
    ASSUME IInv, Searching, op.phase \in {"scan", "tailscan"}, KeyRead,
           NEW n \in Int, SoFar(n, xtk.index + 1),
           NEW h, GoOn(n, h),
           op.phase = "scan" => h \in {"mark", "tail"} /\ xtk.index # ScanEnd,
           op.phase = "tailscan" => h = "over" /\ xtk.index # op.to
    PROVE  SearchGoes
<1> DEFINE i == xtk.index
           x == NextItem(xtk)
           m == ScannedMark
<1>1. arr' = arr
    BY DEF GoOn, Continue
<1>2. Placed(xtk) /\ i \in Nat /\ xtk \in Tracker
    BY SearchParts, Parts DEF LookupInv, Placed
<1>3. CacheInv' /\ i < N /\ (last' = last \/ last' = last + 1)
    BY <1>1, KeyReadKeeps
<1>4. last' < N /\ last' \in Int /\ last <= last' /\ op.known <= last' /\ last' \in {-1} \cup Nat
    BY <1>1, <1>3, SearchParts, SameArray DEF CacheInv
<1>5. /\ x.index = i + 1
      /\ x.at # "end" => i + 1 < N
      /\ x.at = "end" => i + 1 = N
    <2>1. /\ x.index = i + 1
          /\ x.at = "item" => i + 1 < N
          /\ x.at # "item" => x.at = "end" /\ i + 1 = N
        BY <1>2, <1>3, SearchParts, NextPlaced
    <2>2. "item" # "end"
        OBVIOUS
    <2>3. QED
        BY <2>1, <2>2, Zenon
<1>6. op.phase = "scan" =>
        /\ m \in Nat /\ m = CookieMark(op.cookie) /\ MarkOf(op.from) <= m
        /\ m <= MarkOf(last) /\ i <= last' /\ MarkOf(op.from) \in Nat
        /\ MarkStart(m + 1) \in Nat /\ i < MarkStart(m + 1)
    <2>1. ASSUME op.phase = "scan"
          PROVE  /\ m \in Nat /\ m = CookieMark(op.cookie) /\ MarkOf(op.from) <= m
                 /\ m <= MarkOf(last) /\ i <= last' /\ MarkOf(op.from) \in Nat
                 /\ MarkStart(m + 1) \in Nat /\ i < MarkStart(m + 1)
        <3>1. m \in Nat /\ i <= MarkStart(m + 1)
            BY <2>1, SearchParts, Parts DEF LookupInv, ScanInv
        <3>2. m = CookieMark(op.cookie)
            BY DEF ScannedMark
        <3>3. MarkOf(op.from) <= m /\ m <= MarkOf(last) /\ i <= last + 1
            BY <2>1 DEF Searching, SearchNow, InMark
        <3>4. MarkStart(m + 1) \in Nat /\ MarkOf(op.from) \in Nat
            <4>1. MarkOf(op.from) \in Nat
                BY SearchParts, Marks
            <4>2. m + 1 \in Nat
                BY <3>1
            <4>3. QED
                BY <4>1, <4>2, Marks, Zenon
        <3>5. i < MarkStart(m + 1)
            BY <1>2, <2>1, <3>1, <3>4 DEF ScanEnd
        <3>6. i <= last'
            <4>1. CASE i = last + 1
                BY <1>2, <4>1, SearchParts DEF KeyRead, CacheOnPass, AddItem
            <4>2. CASE i # last + 1
                BY <1>2, <1>4, <3>3, <4>2, SearchParts
            <4>3. QED
                BY <4>1, <4>2
        <3>7. QED
            BY <3>1, <3>2, <3>3, <3>4, <3>5, <3>6
    <2>2. QED
        BY <2>1
<1>7. \A j \in Twins : j \in Nat /\ j < N
    BY TwinsAreItems, SearchParts
<1>8. op \in Calls /\ arr \in Arrays
    BY SearchParts
<1>9. MarkOf(last) <= MarkOf(last') /\ MarkOf(last) \in Int /\ MarkOf(last') \in Int
    <2>1. last \in {-1} \cup Nat /\ last' \in {-1} \cup Nat /\ last <= last'
        BY <1>4, SearchParts
    <2>2. /\ MarkOf(last) <= MarkOf(last')
          /\ MarkOf(last) \in {-1} \cup Nat /\ MarkOf(last') \in {-1} \cup Nat
        BY <2>1, MarksGrow
    <2>3. QED
        BY <2>2
<1> HIDE DEF x, i, m
<1>10. CASE x.at = "end"
    <2>1. Continue([op EXCEPT !.count = n, !.phase = h], x)
        BY <1>10 DEF GoOn, x
    <2>2. [op EXCEPT !.count = n, !.phase = h]
            = [op EXCEPT !.count = n, !.phase = h, !.cookie = op.cookie]
        BY <1>8, CallsGoOn
    <2>3. SoFar(n, N)
        BY <1>5, <1>10 DEF i
    <2>4. ASSUME h = "mark" PROVE AtMarks(op.cookie, n, last')
        <3>1. op.phase = "scan"
            BY <2>4
        <3>2. StartMark(op.cookie) = m + 1 /\ op.cookie # Finished
            <4>1. CookieMark(op.cookie) \in Nat
                BY <1>6, <3>1
            <4>2. CookieMark(op.cookie) # NoMark /\ CookieMark(Finished) = NoMark
                BY <4>1 DEF NoMark, CookieMark, Finished
            <4>3. op.cookie.page # NoPage
                BY <4>2 DEF CookieMark
            <4>4. QED
                BY <1>6, <3>1, <4>2, <4>3 DEF StartMark
        <3>3. MarkOf(op.from) <= m + 1 /\ m + 1 <= MarkOf(last') + 1
            BY <1>6, <1>9, <3>1
        <3>4. \A j \in Twins : j < N <=> j < MarkStart(m + 1)
            BY <1>2, <1>3, <1>5, <1>6, <1>7, <1>10, <3>1 DEF i
        <3>5. SoFar(n, MarkStart(m + 1))
            BY <1>6, <1>8, <2>3, <3>1, <3>4, SearchParts, NoneBetween
        <3>6. \A j \in Twins : j < MarkStart(m + 1) => j <= last'
            BY <1>2, <1>3, <1>4, <1>5, <1>6, <1>7, <1>10, <3>1 DEF i
        <3>7. QED
            BY <3>2, <3>3, <3>5, <3>6 DEF AtMarks
    <2>5. ASSUME h = "tail" PROVE SoFar(n, last' + 1)
        <3>1. last' + 1 = N
            BY <1>2, <1>4, <1>5, <1>6, <1>10, <2>5, SearchParts DEF i
        <3>2. QED
            BY <2>3, <3>1
    <2>6. h \in {"mark", "tail", "over"}
        OBVIOUS
    <2>7. h \notin {"scan", "tailscan", "start"}
        BY <2>6
    <2>8. QED
        BY <1>4, <1>8, <2>1, <2>2, <2>3, <2>4, <2>5, <2>7, GoesOn
<1>11. CASE x.at # "end"
    <2>1. Continue([op EXCEPT !.count = n], x)
        BY <1>11 DEF GoOn, x
    <2>2. [op EXCEPT !.count = n]
            = [op EXCEPT !.count = n, !.phase = op.phase, !.cookie = op.cookie]
        BY <1>8, CallsGoOn
    <2>3. SoFar(n, x.index) /\ x.index < N
        BY <1>5, <1>11 DEF i
    <2>4. ASSUME op.phase = "scan" PROVE InMark(CookieMark(op.cookie), n, x.index, last')
        <3>2. m <= MarkOf(last') /\ x.index <= last' + 1
            BY <1>2, <1>4, <1>5, <1>6, <1>9, <2>4 DEF i
        <3>3. QED
            BY <1>6, <2>3, <2>4, <3>2 DEF InMark
    <2>5. ASSUME op.phase = "tailscan" PROVE InTail(n, x.index)
        <3>1. /\ op.fn = "next_key" => op.from <= i
              /\ op.to # -1 => i <= op.to
              /\ i # op.to
            BY <2>5 DEF Searching, SearchNow, InTail, i
        <3>2. /\ op.fn = "next_key" => op.from <= x.index
              /\ op.to # -1 => x.index <= op.to
            BY <1>2, <1>5, <3>1, SearchParts DEF i
        <3>3. QED
            BY <2>3, <3>2 DEF InTail
    <2>6. op.phase \notin {"mark", "tail", "over", "start"}
        OBVIOUS
    <2> DEFINE g == op.phase
               d == op.cookie
    <2>7. /\ Continue([op EXCEPT !.count = n, !.phase = g, !.cookie = d], x)
          /\ g = "scan" => InMark(CookieMark(d), n, x.index, last')
          /\ g = "tailscan" => InTail(n, x.index)
          /\ g \notin {"mark", "tail", "over", "start"}
        BY <2>1, <2>2, <2>4, <2>5, <2>6
    <2> HIDE DEF g, d
    <2>8. QED
        BY <1>4, <1>8, <2>7, GoesOn
<1>12. QED
    BY <1>10, <1>11

(* A step of the scan of a mark.                                           *)
LEMMA ScanGoes ==
    ASSUME IInv, Searching, Scan
    PROVE  SearchGoes
<1> DEFINE i == xtk.index
           m == ScannedMark
<1>1. /\ op.phase = "scan"
      /\ InMark(m, op.count, i, last)
    BY DEF Scan, Searching, SearchNow
<1>2. /\ MarkOf(op.from) <= m /\ m <= MarkOf(last)
      /\ i <= last + 1 /\ i < N /\ SoFar(op.count, i)
    BY <1>1 DEF InMark
<1>3. /\ i \in Nat /\ m \in Nat /\ MarkStart(m) <= i /\ i <= MarkStart(m + 1)
      /\ MarkStart(m) \in Nat /\ MarkStart(m + 1) \in Nat
    <2>1. i \in Nat /\ m \in Nat /\ i \in MarkStart(m) .. MarkStart(m + 1)
        BY <1>1, SearchParts, Parts DEF LookupInv, ScanInv, Placed
    <2>2. m + 1 \in Nat
        BY <2>1
    <2>3. MarkStart(m) \in Nat /\ MarkStart(m + 1) \in Nat
        BY <2>1, <2>2, Marks, Zenon
    <2>4. QED
        BY <2>1, <2>3
<1>4. \A j \in Twins : j \in Nat
    BY TwinsAreItems, SearchParts
<1>5. op.count \in Int /\ last \in Int /\ arr \in Arrays /\ op.nth \in Int /\ op.to \in Int
    BY SearchParts
<1>6. CASE i = ScanEnd /\ Continue([op EXCEPT !.phase = "mark"], xtk) /\ UNCHANGED cacheVars
    <2> DEFINE h == "mark"
               c == op.cookie
    <2>1. last' = last /\ op.known <= last'
        BY <1>6, SearchParts DEF cacheVars
    <2>2. StartMark(c) = m + 1 /\ c # Finished
        <3>1. CookieMark(c) \in Nat /\ CookieMark(c) = m
            BY <1>3 DEF ScannedMark
        <3>2. CookieMark(c) # NoMark /\ CookieMark(Finished) = NoMark
            BY <3>1 DEF NoMark, CookieMark, Finished
        <3>3. c.page # NoPage
            BY <3>2 DEF CookieMark
        <3>4. QED
            BY <3>1, <3>2, <3>3 DEF StartMark
    <2>3. MarkOf(op.from) <= m + 1 /\ m + 1 <= MarkOf(last) + 1
        <3>1. MarkOf(op.from) \in Nat
            BY SearchParts, Marks
        <3>2. MarkOf(last) \in {-1} \cup Nat
            BY SearchParts, MarksGrow
        <3> HIDE DEF m
        <3>3. QED
            BY <1>2, <1>3, <3>1, <3>2
    <2>4. i = MarkStart(m + 1)
        BY <1>6 DEF ScanEnd
    <2> HIDE DEF m, c
    <2>5. \A j \in Twins : j < MarkStart(m + 1) => j <= last
        BY <1>2, <1>3, <1>4, <1>5, <2>4
    <2>6. AtMarks(c, op.count, last')
        BY <1>2, <2>1, <2>2, <2>3, <2>4, <2>5 DEF AtMarks
    <2>7. h = "mark" /\ h \notin {"tail", "scan", "tailscan", "over", "start"}
        OBVIOUS
    <2>8. Continue([op EXCEPT !.phase = h], xtk)
        BY <1>6
    <2> HIDE DEF h
    <2>9. [op EXCEPT !.phase = h] = [op EXCEPT !.count = op.count, !.phase = h, !.cookie = c]
        BY CallsGoOn, SearchParts DEF c
    <2>10. QED
        BY <2>1, <2>6, <2>7, <2>8, <2>9, SearchParts, GoesOn
<1>7. CASE KeyFailed
    BY <1>2, <1>3, <1>7, KeyFailedGoes
<1>8. ASSUME i # ScanEnd, i \notin Twins, KeyRead, GoOn(op.count, "mark")
      PROVE  SearchGoes
    <2>1. SoFar(op.count, i + 1)
        BY <1>2, <1>3, <1>5, <1>8, PastOther
    <2>2. "mark" \in {"mark", "tail"}
        OBVIOUS
    <2>3. QED
        BY <1>1, <1>5, <1>8, <2>1, <2>2, GoOnGoes
<1>9. ASSUME i # ScanEnd, i \in Twins, KeyRead,
             IF IsTheOne(op.count + 1) THEN Found(op.count + 1)
             ELSE GoOn(op.count + 1, "tail")
      PROVE  SearchGoes
    <2>1. CASE IsTheOne(op.count + 1)
        BY <1>2, <1>9, <2>1, FoundGoes
    <2>2. CASE ~IsTheOne(op.count + 1)
        <3>1. SoFar(op.count + 1, i + 1)
            <4>1. /\ op.fn # "next_key"
                  /\ op.fn = "with_key" => op.count + 1 # op.nth
                  /\ op.fn = "twin" => i # op.nth
                BY <2>2 DEF IsTheOne
            <4>2. QED
                BY <1>2, <1>3, <1>5, <1>9, <4>1, SearchParts, PastTwin
        <3>2. "tail" \in {"mark", "tail"} /\ op.count + 1 \in Int
            BY <1>5
        <3>3. GoOn(op.count + 1, "tail")
            BY <1>9, <2>2
        <3> DEFINE n == op.count + 1
        <3> HIDE DEF n
        <3>4. SoFar(n, i + 1) /\ n \in Int /\ GoOn(n, "tail")
            BY <3>1, <3>2, <3>3 DEF n
        <3>5. QED
            BY <1>1, <1>9, <3>2, <3>4, GoOnGoes
    <2>3. QED
        BY <2>1, <2>2
<1>10. ASSUME op.to # -1, i >= op.to, KeyRead, ToTail
       PROVE  SearchGoes
    <2>1. arr' = arr
        BY <1>10 DEF ToTail, Continue
    <2>2. last' = last \/ last' = last + 1
        BY <1>1, <1>10, <2>1, KeyReadKeeps
    <2>3. last' \in Int /\ last <= last'
        BY <1>5, <2>2
    <2>4. i <= last'
        BY <1>2, <1>3, <1>5, <1>10, <2>3 DEF KeyRead, CacheOnPass, AddItem
    <2>5. \A j \in Twins : j < op.to
        BY <1>10 DEF Twins
    <2>6. \A j \in Twins : j < i <=> j < last' + 1
        BY <1>3, <1>4, <1>5, <1>10, <2>3, <2>4, <2>5
    <2>7. SoFar(op.count, last' + 1)
        BY <1>2, <1>3, <1>5, <2>3, <2>6, NoneBetween
    <2>8. QED
        BY <1>10, <2>3, <2>7, ToTailGoes
<1>11. i # ScanEnd => MarkOf(i) = m
    <2>1. i # ScanEnd => i < MarkStart(m + 1)
        BY <1>3 DEF ScanEnd
    <2> HIDE DEF i, m
    <2>2. QED
        BY <1>3, <2>1, Marks
<1>12. ASSUME i # ScanEnd, TwinInScan PROVE Key(i) = op.key /\ op.from <= i
    <2>1. CASE m = MarkOf(op.from)
        BY <1>12, <2>1 DEF TwinInScan
    <2>2. CASE m # MarkOf(op.from)
        <3>1. op.from \in {-1} \cup Nat /\ i \in {-1} \cup Nat /\ MarkOf(op.from) \in Nat
            BY <1>3, SearchParts, Marks
        <3>2. ~(MarkOf(i) <= MarkOf(op.from))
            <4> HIDE DEF m
            <4>1. QED
                BY <1>2, <1>3, <1>11, <1>12, <2>2, <3>1
        <3>3. ~(i <= op.from)
            BY <3>1, <3>2, MarksGrow
        <3>4. QED
            BY <1>12, <3>1, <3>3, SearchParts DEF TwinInScan
    <2>3. QED
        BY <2>1, <2>2
<1>13. ASSUME i # ScanEnd PROVE i \in Twins <=> TwinInScan /\ (op.to # -1 => i < op.to)
    <2>1. i \in 0 .. (N - 1)
        BY <1>2, <1>3, SearchParts
    <2>2. i \in Twins <=> /\ Key(i) = op.key /\ i >= op.from
                          /\ op.to # -1 => i < op.to
        BY <2>1, Zenon DEF Twins
    <2>3. TwinInScan => Key(i) = op.key /\ i >= op.from
        BY <1>3, <1>12, <1>13, SearchParts
    <2>4. Key(i) = op.key /\ i >= op.from => TwinInScan
        BY DEF TwinInScan
    <2>5. QED
        BY <2>2, <2>3, <2>4, Zenon
<1>14. \/ i = ScanEnd /\ Continue([op EXCEPT !.phase = "mark"], xtk) /\ UNCHANGED cacheVars
       \/ KeyFailed
       \/ /\ i # ScanEnd /\ KeyRead
          /\ \/ ~TwinInScan /\ GoOn(op.count, "mark")
             \/ TwinInScan /\ op.to # -1 /\ i >= op.to /\ ToTail
             \/ /\ TwinInScan /\ (op.to # -1 => i < op.to)
                /\ IF IsTheOne(op.count + 1) THEN Found(op.count + 1)
                   ELSE GoOn(op.count + 1, "tail")
    BY DEF Scan
<1> HIDE DEF i, m
<1>15. QED
    BY <1>6, <1>7, <1>8, <1>9, <1>10, <1>13, <1>14, Zenon

(* The lookup ends, with none left.                                        *)
LEMMA NoItemGoes ==
    ASSUME IInv, Searching, NEW p \in Int, SoFar(op.count, p),
           \A i \in Twins : i < p, Return(tk, "no_item")
    PROVE  SearchGoes
<1>1. ret' = "no_item" /\ op' = NoOp
    BY DEF Return
<1>2. Answered
    BY <1>1, SearchParts, NoneIsLeft
<1>3. QED
    BY <1>1, <1>2 DEF SearchGoes

(* The lookup goes past the cached items.                                  *)
LEMMA OpenTailGoes ==
    ASSUME IInv, Searching, OpenTail
    PROVE  SearchGoes
<1> DEFINE x == Onward(LastCached)
<1>1. /\ op.phase = "tail" /\ last' = last
      /\ SoFar(op.count, last + 1)
    BY DEF OpenTail, Searching, SearchNow, cacheVars
<1>2. /\ \A i \in Twins : i \in Nat /\ i < N
      /\ last + 1 \in Int /\ last \in Int /\ N \in Nat /\ op.to \in Int
    BY TwinsAreItems, SearchParts
<1>3. IF last + 1 = N THEN x.at = "end" ELSE x.at # "end" /\ x.index = last + 1
    <2>1. CASE last = -1
        <3>1. LastCached = [Rewound EXCEPT !.need = TRUE]
            BY <2>1 DEF LastCached
        <3>2. LastCached.at = "nil"
            BY <3>1 DEF Rewound
        <3>3. x = FirstItem(LastCached)
            BY <3>2 DEF Onward
        <3> HIDE DEF x
        <3>4. QED
            BY <2>1, <3>3, SearchParts, FirstPlaced DEF Placed
    <2>2. CASE last # -1
        <3>1. Placed(LastCached) /\ LastCached \in Tracker /\ LastCached.index = last /\ last < N
            BY <2>2, SearchParts, LastPlaced
        <3>2. x = NextItem(LastCached)
            BY <3>1 DEF Onward, Placed
        <3> HIDE DEF x
        <3>3. /\ x.index = last + 1
              /\ x.at = "item" => last + 1 < N
              /\ x.at # "item" => x.at = "end" /\ last + 1 = N
            BY <3>1, <3>2, SearchParts, NextPlaced
        <3>4. QED
            BY <1>2, <3>3
    <2>3. QED
        BY <2>1, <2>2
<1> HIDE DEF x
<1>4. CASE op.to # -1 /\ last >= op.to /\ Return(tk, "no_item")
    <2>1. \A i \in Twins : i < op.to
        BY <1>4 DEF Twins
    <2>2. \A i \in Twins : i < last + 1
        BY <1>2, <1>4, <2>1
    <2>3. QED
        BY <1>1, <1>2, <1>4, <2>2, NoItemGoes
<1>5. CASE x.at = "end" /\ Return(tk, "no_item")
    <2>1. \A i \in Twins : i < last + 1
        BY <1>2, <1>3, <1>5
    <2>2. QED
        BY <1>1, <1>2, <1>5, <2>1, NoItemGoes
<1>6. CASE /\ op.to # -1 => last < op.to
           /\ x.at # "end" /\ Continue([op EXCEPT !.phase = "tailscan"], x)
    <2> DEFINE h == "tailscan"
    <2>1. InTail(op.count, x.index)
        <3>1. ASSUME op.fn = "next_key" PROVE op.from <= last + 1
            <4>1. op.from - 1 <= op.known
                BY <3>1 DEF Searching, InReach
            <4>2. QED
                BY <4>1, SearchParts
        <3>2. op.to # -1 => last + 1 <= op.to
            BY <1>2, <1>6
        <3>3. QED
            BY <1>1, <1>3, <1>6, <3>1, <3>2 DEF InTail
    <2>2. h = "tailscan" /\ h \notin {"tail", "scan", "mark", "over", "start"}
        OBVIOUS
    <2>3. Continue([op EXCEPT !.phase = h], x)
        BY <1>6
    <2> HIDE DEF h
    <2>4. [op EXCEPT !.phase = h]
            = [op EXCEPT !.count = op.count, !.phase = h, !.cookie = op.cookie]
        BY CallsGoOn, SearchParts
    <2>5. op.known <= last'
        BY <1>1, SearchParts
    <2>6. QED
        BY <2>1, <2>2, <2>3, <2>4, <2>5, SearchParts, GoesOn
<1>7. QED
    BY <1>4, <1>5, <1>6 DEF OpenTail, x

(* A step past the cached items.                                           *)
LEMMA TailScanGoes ==
    ASSUME IInv, Searching, TailScan
    PROVE  SearchGoes
<1> DEFINE i == xtk.index
<1>1. op.phase = "tailscan"
    BY DEF TailScan
<1>2. /\ op.fn = "next_key" => op.from <= i
      /\ op.to # -1 => i <= op.to
      /\ SoFar(op.count, i)
    BY <1>1 DEF Searching, SearchNow, InTail
<1>3. i \in Nat /\ i < N /\ i \in 0 .. (N - 1)
    BY <1>1, SearchParts, Parts DEF LookupInv, Placed
<1>4. op.count \in Int /\ arr \in Arrays /\ op.nth \in Int /\ op.to \in Int /\ op.from \in Nat
    BY SearchParts
<1>5. CASE i = op.to /\ Return(tk, "no_item")
    <2>1. \A j \in Twins : j < i
        BY <1>3, <1>5 DEF Twins
    <2>2. QED
        BY <1>2, <1>3, <1>5, <2>1, NoItemGoes
<1>6. CASE KeyFailed
    BY <1>3, <1>6, KeyFailedGoes
<1>7. i # op.to => (i \in Twins <=> Key(i) = op.key /\ op.from <= i)
    BY <1>2, <1>3, <1>4 DEF Twins
<1>8. ASSUME i # op.to, KeyRead, NEW n \in Int, SoFar(n, i + 1), GoOn(n, "over")
      PROVE  SearchGoes
    BY <1>1, <1>8, GoOnGoes
<1>9. CASE i # op.to /\ KeyRead /\ Key(i) # op.key /\ GoOn(op.count, "over")
    <2>1. SoFar(op.count, i + 1)
        BY <1>2, <1>3, <1>4, <1>7, <1>9, PastOther
    <2>2. QED
        BY <1>4, <1>8, <1>9, <2>1
<1>10. CASE i # op.to /\ KeyRead /\ i \in Twins
            /\ IF IsTheOne(op.count + 1) THEN Found(op.count + 1)
               ELSE GoOn(op.count + 1, "over")
    <2>1. CASE IsTheOne(op.count + 1)
        BY <1>2, <1>10, <2>1, FoundGoes
    <2>2. CASE ~IsTheOne(op.count + 1)
        <3>1. /\ op.fn # "next_key"
              /\ op.fn = "with_key" => op.count + 1 # op.nth
              /\ op.fn = "twin" => i # op.nth
            BY <2>2 DEF IsTheOne
        <3>2. SoFar(op.count + 1, i + 1)
            BY <1>2, <1>3, <1>4, <1>10, <3>1, SearchParts, PastTwin
        <3>3. op.count + 1 \in Int /\ GoOn(op.count + 1, "over")
            BY <1>4, <1>10, <2>2
        <3>4. QED
            BY <1>8, <1>10, <3>2, <3>3
    <2>3. QED
        BY <2>1, <2>2
<1>11. CASE i # op.to /\ KeyRead /\ i \notin Twins /\ ~(op.from <= i)
            /\ IF IsTheOne(op.count) THEN Found(op.count)
               ELSE GoOn(op.count, "over")
    <2>1. CASE IsTheOne(op.count)
        <3>1. op.fn = "twin" /\ op.nth \notin Twins
            BY <1>2, <1>4, <1>11, <2>1 DEF IsTheOne, SoFar
        <3>2. op' = NoOp
            BY <1>11, <2>1, <3>1 DEF Found
        <3>3. Answered
            BY <3>1 DEF Answered
        <3>4. QED
            BY <3>2, <3>3 DEF SearchGoes
    <2>2. CASE ~IsTheOne(op.count)
        <3>1. SoFar(op.count, i + 1)
            BY <1>2, <1>3, <1>4, <1>11, PastOther
        <3>2. QED
            BY <1>4, <1>8, <1>11, <2>2, <3>1
    <2>3. QED
        BY <2>1, <2>2
<1>12. TwinsSoFar = IF op.from <= i THEN op.count + 1 ELSE op.count
    BY <1>3, <1>4 DEF TwinsSoFar
<1>13. CASE /\ i # op.to /\ KeyRead /\ Key(i) = op.key
            /\ IF IsTheOne(TwinsSoFar) THEN Found(TwinsSoFar)
               ELSE GoOn(TwinsSoFar, "over")
    <2>1. CASE op.from <= i
        <3>1. TwinsSoFar = op.count + 1 /\ i \in Twins
            BY <1>7, <1>12, <1>13, <2>1
        <3>2. QED
            BY <1>10, <1>13, <3>1
    <2>2. CASE ~(op.from <= i)
        <3>1. TwinsSoFar = op.count /\ i \notin Twins
            BY <1>7, <1>12, <1>13, <2>2
        <3>2. QED
            BY <1>11, <1>13, <2>2, <3>1
    <2>3. QED
        BY <2>1, <2>2
<1>14. QED
    BY <1>5, <1>6, <1>9, <1>13 DEF TailScan

(* The end of the array.                                                   *)
LEMMA OverGoes ==
    ASSUME IInv, Searching, Over
    PROVE  SearchGoes
<1>1. SoFar(op.count, N) /\ Return(tk, "no_item")
    BY DEF Over, Searching, SearchNow
<1>2. N \in Int /\ \A i \in Twins : i < N
    BY TwinsAreItems, SearchParts
<1>3. QED
    BY <1>1, <1>2, NoItemGoes

(* A call that begins has found nothing yet, and neither has one that is   *)
(* no lookup.                                                              *)
Fresh ==
    /\ op'.count = -1
    /\ op'.fn \in Lookups =>
         /\ op'.phase = "start" /\ op'.known <= last'
         /\ op'.fn = "with_key" => op'.nth \in Nat

\* Such a call has got as far as it says.
LEMMA FreshSearch ==
    ASSUME Fresh
    PROVE  SearchInv'
BY DEF Fresh, SearchInv, SearchNow

\* No call is one.
LEMMA NoOpIsFresh ==
    ASSUME op' = NoOp
    PROVE  Fresh
BY DEF Fresh, NoOp, Lookups

(* No call is in progress, or one that goes to the n-th item.              *)
NotLooking == op.fn \in {"none", "nth"} /\ op.count = -1

\* A call that is no lookup has counted nothing.
LEMMA NotLookingParts ==
    ASSUME IInv, SearchInv, op.fn \notin Lookups
    PROVE  NotLooking
<1>1. op.fn \in {"none", "nth"}
    BY Parts DEF Calls
<1>2. op.fn = "none" => op = NoOp
    BY DEF IInv, StateInv, CallInv
<1>3. op.count = -1
    BY <1>1, <1>2 DEF SearchInv, NoOp
<1>4. QED
    BY <1>1, <1>3 DEF NotLooking

\* Nor has the lookup of the twins of an item that begins.
LEMMA TwinsFresh ==
    ASSUME IInv, NotLooking, last <= last', NEW t, TwinsAt(t)
    PROVE  Fresh
<1>1. CASE Return(tk, "error")
    BY <1>1, NoOpIsFresh DEF Return
<1>2. ASSUME NEW r, Continue(TwinCall(r), xtk) PROVE Fresh
    <2>1. op \in Calls /\ op.count = -1
        BY Parts DEF NotLooking
    <2>2. /\ op'.count = -1 /\ op'.fn = "twin" /\ op'.phase = "start" /\ op'.known = last
        BY <1>2, <2>1 DEF Continue, TwinCall, Calls
    <2>3. QED
        BY <2>2 DEF Fresh
<1>3. QED
    BY <1>1, <1>2 DEF TwinsAt

\* Nor has a call that goes to the n-th item.
LEMMA NthFresh ==
    ASSUME NEW i, NEW then, NEW t, CallNth(i, then, t)
    PROVE  Fresh
BY DEF CallNth, Begin, NoOp, Fresh, Lookups

\* A call that ends leaves none.
LEMMA GiveFresh ==
    ASSUME NEW t, Give(t) \/ \E s : Return(t, s)
    PROVE  Fresh
BY NoOpIsFresh DEF Give, Return

\* Going to the first item ends at once, or goes to the n-th item.
LEMMA FirstFresh ==
    ASSUME NEW t, First(t)
    PROVE  Fresh
BY NthFresh, GiveFresh DEF First

\* A lookup of the n-th item with a key begins.
LEMMA WithKeyFresh ==
    ASSUME last \in Int, NEW k, NEW n \in Nat, GotoNthWithKey(k, n)
    PROVE  Fresh
<1>1. /\ op'.count = -1 /\ op'.fn = "with_key" /\ op'.phase = "start" /\ op'.nth = n
      /\ op'.known = last
    BY DEF GotoNthWithKey, Begin, NoOp
<1>2. last' = last
    BY DEF GotoNthWithKey, Begin, cacheVars
<1>3. QED
    BY <1>1, <1>2 DEF Fresh

\* A lookup of the next item with a key begins.
LEMMA NextKeyFresh ==
    ASSUME last \in Int, NEW k, GotoNextWithKey(k)
    PROVE  Fresh
<1>1. CASE GotoNthWithKey(k, 0)
    BY <1>1, WithKeyFresh
<1>2. CASE Begin([NoOp EXCEPT !.fn = "next_key", !.key = k,
                             !.from = tk.index + 1, !.to = win.to], tk, tk)
    <2>1. /\ op'.count = -1 /\ op'.fn = "next_key" /\ op'.phase = "start"
          /\ op'.known = last
        BY <1>2 DEF Begin, NoOp
    <2>2. last' = last
        BY <1>2 DEF Begin, cacheVars
    <2>3. QED
        BY <2>1, <2>2 DEF Fresh
<1>3. QED
    BY <1>1, <1>2 DEF GotoNextWithKey

(* The calls of the client.                                                *)
LEMMA CallFresh ==
    ASSUME IInv, SearchInv, Call
    PROVE  Fresh
<1>1. last \in Int /\ last <= last'
    <2>1. last \in Int /\ UNCHANGED cacheVars
        BY CallKeeps, Parts
    <2>2. QED
        BY <2>1 DEF cacheVars
<1>2. op.fn = "none" /\ op = NoOp
    BY CallsAreFree DEF IInv, StateInv, CallInv
<1>3. NotLooking
    BY <1>2 DEF NotLooking, NoOp
<1>4. CASE GotoFirst
    BY <1>4, FirstFresh DEF GotoFirst
<1>5. CASE GotoNext
    BY <1>5, FirstFresh, NthFresh, GiveFresh DEF GotoNext
<1>6. CASE ItemOffset
    BY <1>6, NthFresh, GiveFresh DEF ItemOffset
<1>7. CASE Rewind
    BY <1>7, GiveFresh DEF Rewind
<1>8. ASSUME NEW i, GotoNth(i) PROVE Fresh
    BY <1>8, NthFresh, GiveFresh DEF GotoNth
<1>9. ASSUME NEW i, EnterSlice(i) PROVE Fresh
    <2>1. CASE \E t : EnterAt(t, i)
        BY <2>1, NoOpIsFresh DEF EnterAt
    <2>2. CASE Begin([NoOp EXCEPT !.fn = "nth", !.nth = tk.index, !.to = i,
                                 !.then = "slice"],
                     [tk EXCEPT !.need = TRUE], [tk EXCEPT !.need = TRUE])
        BY <2>2 DEF Begin, NoOp, Fresh, Lookups
    <2>3. QED
        BY <1>9, <2>1, <2>2 DEF EnterSlice
<1>10. CASE ReturnFromSlice
    BY <1>2, <1>10, NoOpIsFresh DEF ReturnFromSlice
<1>11. CASE \E k \in Word : GotoNextWithKey(k) \/ \E n \in 0 .. MaxTwin : GotoNthWithKey(k, n)
    <2>1. ASSUME NEW k \in Word, NEW n \in 0 .. MaxTwin, GotoNthWithKey(k, n) PROVE Fresh
        BY <1>1, <2>1, WithKeyFresh, ArraysAssumption
    <2>2. QED
        BY <1>1, <1>11, <2>1, NextKeyFresh
<1>12. CASE GetTwin
    <2>1. CASE TwinsAt(tk)
        BY <1>1, <1>3, <2>1, TwinsFresh
    <2>2. CASE Begin([NoOp EXCEPT !.fn = "nth", !.nth = tk.index, !.then = "twin"],
                     tk, [tk EXCEPT !.need = TRUE])
        BY <2>2 DEF Begin, NoOp, Fresh, Lookups
    <2>3. QED
        BY <1>12, <2>1, <2>2 DEF GetTwin
<1>13. QED
    BY <1>4, <1>5, <1>6, <1>7, <1>8, <1>9, <1>10, <1>11, <1>12 DEF Call

(* Going to the n-th item, after which its twins may be looked up.         *)
LEMMA NthStepFresh ==
    ASSUME IInv, SearchInv, StartNth \/ WalkNth
    PROVE  Fresh
<1>1. op.fn = "nth" /\ op.fn \notin Lookups
    BY DEF StartNth, WalkNth, Lookups
<1>2. NotLooking /\ op \in Calls
    BY <1>1, NotLookingParts, Parts
<1>3. last \in Int /\ last <= last'
    <2>1. last \in Int
        BY Parts
    <2>2. CASE StartNth
        BY <2>1, <2>2, StartNthKeeps DEF cacheVars
    <2>3. CASE WalkNth /\ UNCHANGED cacheVars
        BY <2>1, <2>3 DEF cacheVars
    <2>4. CASE WalkNth /\ CacheOnPass(xtk)
        <3>1. xtk.index = last + 1 => last' = last + 1
            BY <2>4 DEF CacheOnPass, AddItem
        <3>2. xtk.index # last + 1 => last' = last
            BY <2>4 DEF CacheOnPass, cacheVars
        <3>3. QED
            BY <2>1, <3>1, <3>2
    <2>5. QED
        BY <2>2, <2>3, <2>4 DEF WalkNth
<1>4. ASSUME NEW t, Reach(t) PROVE Fresh
    <2>1. CASE TwinsAt(t)
        BY <1>2, <1>3, <2>1, TwinsFresh
    <2>2. CASE EnterAt(t, op.to)
        BY <2>2, NoOpIsFresh DEF EnterAt
    <2>3. CASE \E u : Give(u) \/ \E s : Return(u, s)
        BY <2>3, GiveFresh
    <2>4. QED
        BY <1>4, <2>1, <2>2, <2>3 DEF Reach
<1>5. ASSUME op'.fn = "nth", op'.count = op.count PROVE Fresh
    BY <1>2, <1>5 DEF Fresh, NotLooking, Lookups
<1>6. CASE StartNth
    <2>1. CASE \E t : Continue([op EXCEPT !.phase = "walk"], t)
        <3>1. op'.fn = "nth" /\ op'.count = op.count
            BY <1>1, <1>2, <2>1 DEF Continue, Calls
        <3>2. QED
            BY <1>5, <3>1
    <2>2. QED
        BY <1>4, <1>6, <2>1, GiveFresh DEF StartNth
<1>7. CASE WalkNth
    <2>1. CASE \E t : Continue(op, t)
        BY <1>1, <1>5, <2>1 DEF Continue
    <2>2. QED
        BY <1>4, <1>7, <2>1, GiveFresh DEF WalkNth
<1>8. QED
    BY <1>6, <1>7

(* A step of a lookup ends it, or it is the same call that goes on.        *)
LEMMA LookupStays ==
    ASSUME IInv, op.fn \in Lookups, Next
    PROVE  op' = NoOp \/ SameCall
<1>1. ~Call /\ ~StartNth /\ ~WalkNth
    BY CallsAreFree DEF StartNth, WalkNth, Lookups
<1>2. op \in Calls
    BY Parts
<1>3. ASSUME NEW t, NEW s, Return(t, s) PROVE op' = NoOp
    BY <1>3 DEF Return
<1>4. ASSUME NEW n, NEW h, NEW c, NEW x,
             Continue([op EXCEPT !.count = n, !.phase = h, !.cookie = c], x)
      PROVE  SameCall
    BY <1>2, <1>4 DEF Continue, SameCall, Calls
<1>5. ASSUME NEW h, NEW x, Continue([op EXCEPT !.phase = h], x) PROVE SameCall
    <2>1. Continue([op EXCEPT !.count = op.count, !.phase = h, !.cookie = op.cookie], x)
        BY <1>2, <1>5, CallsGoOn
    <2>2. QED
        BY <1>4, <2>1, Zenon
<1>6. ASSUME NEW h, NEW c, NEW x, Continue([op EXCEPT !.phase = h, !.cookie = c], x)
      PROVE  SameCall
    <2>1. Continue([op EXCEPT !.count = op.count, !.phase = h, !.cookie = c], x)
        BY <1>2, <1>6, CallsGoOn
    <2>2. QED
        BY <1>4, <2>1, Zenon
<1>7. ASSUME NEW n, NEW h, GoOn(n, h) PROVE SameCall
    <2> DEFINE x == NextItem(xtk)
    <2> HIDE DEF x
    <2>1. CASE Continue([op EXCEPT !.count = n, !.phase = h], x)
        <3>1. Continue([op EXCEPT !.count = n, !.phase = h, !.cookie = op.cookie], x)
            BY <1>2, <2>1, CallsGoOn
        <3>2. QED
            BY <1>4, <3>1, Zenon
    <2>2. CASE Continue([op EXCEPT !.count = n], x)
        <3>1. Continue([op EXCEPT !.count = n, !.phase = op.phase, !.cookie = op.cookie], x)
            BY <1>2, <2>2, CallsGoOn
        <3>2. QED
            BY <1>4, <3>1, Zenon
    <2>3. QED
        BY <1>7, <2>1, <2>2 DEF GoOn, x
<1>8. ASSUME NEW n, Found(n) PROVE op' = NoOp
    BY <1>8 DEF Found, Return
<1>9. CASE OpenLookup
    BY <1>5, <1>6, <1>9 DEF OpenLookup, ToTail
<1>10. CASE NextMark
    BY <1>3, <1>5, <1>6, <1>10 DEF NextMark, ToTail
<1>11. CASE Scan
    <2>1. CASE \/ Continue([op EXCEPT !.phase = "mark"], xtk)
               \/ ToTail
               \/ GoOn(op.count, "mark")
               \/ GoOn(op.count + 1, "tail")
        BY <1>5, <1>7, <2>1 DEF ToTail
    <2>2. CASE KeyFailed \/ Found(op.count + 1)
        BY <1>3, <1>8, <2>2 DEF KeyFailed
    <2>3. QED
        BY <1>11, <2>1, <2>2 DEF Scan
<1>12. CASE OpenTail
    BY <1>3, <1>5, <1>12 DEF OpenTail
<1>13. CASE TailScan
    BY <1>3, <1>7, <1>8, <1>13 DEF TailScan, KeyFailed
<1>14. CASE Over
    BY <1>3, <1>14 DEF Over
<1>15. QED
    BY <1>1, <1>9, <1>10, <1>11, <1>12, <1>13, <1>14 DEF Next, Step

(* A step of a lookup that the property is about.                          *)
LEMMA StepGoes ==
    ASSUME IInv, Searching, Next
    PROVE  SearchGoes
<1>1. ~Call /\ ~StartNth /\ ~WalkNth
    BY CallsAreFree DEF StartNth, WalkNth, Lookups, Searching
<1>2. QED
    BY <1>1, OpenLookupGoes, NextMarkGoes, ScanGoes, OpenTailGoes, TailScanGoes, OverGoes
       DEF Next, Step

(* Nothing happens.                                                        *)
LEMMA SearchRests ==
    ASSUME SearchInv, UNCHANGED vars
    PROVE  SearchInv'
<1>1. op' = op /\ xtk' = xtk /\ last' = last /\ SameCall
    BY DEF vars, SameCall
<1>2. SearchNow => SearchNow'
    BY <1>1, SameSearch DEF SearchNow, ScannedMark
<1>3. InReach <=> InReach'
    BY <1>1, SameSearch
<1>4. QED
    BY <1>1, <1>2, <1>3 DEF SearchInv

(* Every step keeps track of the twins that have been passed.              *)
LEMMA SearchHolds ==
    ASSUME IInv, SearchInv, [Next]_vars
    PROVE  SearchInv'
<1>1. CASE op' = NoOp
    BY <1>1, NoOpIsFresh, FreshSearch
<1>2. CASE UNCHANGED vars
    BY <1>2, SearchRests
<1>3. CASE Next /\ op.fn \notin Lookups
    <2>1. Call \/ StartNth \/ WalkNth
        BY <1>3, LooksUp
           DEF Next, Step, OpenLookup, NextMark, Scan, OpenTail, TailScan, Over, Lookups
    <2>2. QED
        BY <2>1, CallFresh, NthStepFresh, FreshSearch
<1>4. CASE Next /\ op.fn \in Lookups /\ op' # NoOp
    <2>1. SameCall
        BY <1>4, LookupStays
    <2>2. op'.fn # "nth" /\ (InReach <=> InReach')
        BY <1>4, <2>1, SameSearch DEF SameCall, Lookups
    <2>3. InReach => SearchNow'
        BY <1>4, StepGoes DEF Searching, SearchInv, SearchGoes
    <2>4. QED
        BY <2>2, <2>3 DEF SearchInv
<1>5. QED
    BY <1>1, <1>2, <1>3, <1>4

(* A lookup that ends returns what is right.                               *)
LEMMA LookupReturns ==
    ASSUME IInv, SearchInv, Next, op.fn \in Lookups, InReach, op'.fn = "none"
    PROVE  Answered
<1>1. Searching
    BY DEF Searching, SearchInv
<1>2. SearchGoes
    BY <1>1, StepGoes
<1>3. ~SameCall
    BY DEF SameCall, Lookups
<1>4. QED
    BY <1>2, <1>3 DEF SearchGoes

(* However much of the array was cached when the call began, and whatever  *)
(* other keys the book confuses with the key: the n-th item with a key is  *)
(* the n-th, or there is none; the next item with a key is the first after *)
(* the item; and an item has the rank it is said to have among those with  *)
(* its key (index_cache_iterator_next_twin(),                              *)
(* box_index_cache_lookup_key_twins(), tracker_get_item_key_multi()): of   *)
(* every array, for every number of items per mark and of marks per page,  *)
(* whatever the hash function, in the array or in a slice of it.           *)
THEOREM LookupIsRightAlways == Spec => LookupIsRight
<1>1. Init => IInv /\ SearchInv
    <2>1. ASSUME Init PROVE op.count = -1 /\ op.fn \notin Lookups
        BY <2>1 DEF Init, NoOp, Lookups
    <2>2. QED
        BY <2>1, InitHolds DEF SearchInv
<1>2. IInv /\ SearchInv /\ [Next]_vars => (IInv /\ SearchInv)'
    BY StepHolds, SearchHolds
<1>3. IInv /\ SearchInv /\ [Next]_vars =>
        [/\ LET rank == IF op.fn = "with_key" THEN op.nth ELSE 0 IN
            \/ Returns("with_key") /\ WithinReach
            \/ Returns("next_key") /\ op.from - 1 <= op.known
            => \/ ret' = "ok" /\ tk'.index \in Twins /\ Rank(tk'.index) = rank
               \/ ret' = "no_item" /\ Cardinality(Twins) <= rank
               \/ ret' = "error" /\ arr.bad # -1
         /\ Returns("twin") /\ WithinReach /\ op.nth \in Twins
            => \/ ret' = "ok" /\ twin' = Rank(op.nth)
               \/ ret' = "error" /\ arr.bad # -1]_vars
    <2>1. ASSUME IInv, SearchInv, Next,
                 \/ Returns("with_key") /\ WithinReach
                 \/ Returns("next_key") /\ op.from - 1 <= op.known
                 \/ Returns("twin") /\ WithinReach
          PROVE  Answered
        <3>1. op.fn \in Lookups /\ InReach /\ op'.fn = "none"
            BY <2>1 DEF Returns, Lookups, InReach
        <3>2. QED
            BY <2>1, <3>1, LookupReturns
    <2>2. QED
        BY <2>1 DEF Returns, Answered
<1>4. QED
    BY <1>1, <1>2, <1>3, PTL DEF Spec, LookupIsRight
=============================================================================
