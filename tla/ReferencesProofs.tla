-------------------------- MODULE ReferencesProofs --------------------------
(***************************************************************************)
(* Theorems about References, for every number of boxes, data sources and  *)
(* objects of the client, every set of filter chains and every depth: the  *)
(* counts are right, the bytes that are held stay, and nothing is left.    *)
(***************************************************************************)
EXTENDS References, TLAPS, FiniteSetTheorems, FunctionTheorems, SequenceTheorems,
    WellFoundedInduction

(***************************************************************************)
(* A state of a call: who refers to what.  E and V are the references on   *)
(* each box and each data source from outside the boxes, K the sources     *)
(* that the board has, and W what is watched: the bytes of a source, held  *)
(* through a box or not.                                                   *)
(***************************************************************************)
BoxRecord ==
    [kind : Filters \cup {"free"}, use : Nat, parent : Box \cup {None},
     scope : Box \cup {None}, item : Chains \cup {Nowhere}, ds : Source \cup {None},
     owns : BOOLEAN, applied : BOOLEAN, depth : 0 .. MaxDepth, from : Source \cup Path \cup {None}]

State ==
    [boxes : [Box -> BoxRecord], src : [Source -> SourceRecord], cache : Seq(Source),
     opened : [ds : Source \cup {None}, path : Path \cup {Lost}]]

Children(bs, x) == {c \in Box : bs[c].parent = x}
Scoped(bs, x)   == {c \in Box : bs[c].scope = x}
Owners(bs, s)   == {c \in Box : bs[c].owns /\ bs[c].ds = s}
Inside(bs, x)   == Cardinality(Children(bs, x)) + Cardinality(Scoped(bs, x))

(* Where a box is: in another one, unless its filter has no input.         *)
Placed(bs, x) ==
    LET y == bs[x] IN
    /\ y.kind = "free" <=> y = NoBox
    /\ y.kind # "free" => (y.parent = None <=> y.kind \in {"source", "file"})
    /\ y.parent = None => y.depth = 0
    /\ y.parent # None => bs[y.parent].kind # "free" /\ y.depth = bs[y.parent].depth + 1
    /\ y.scope # None => bs[y.scope].kind # "free" /\ bs[y.scope].depth < y.depth

(* What a box gives: its own data source, or that of the box it is in.     *)
Filled(bs, x) ==
    LET y == bs[x] IN
    IF y.applied
    THEN /\ y.kind # "free" /\ y.ds # None
         /\ y.parent # None => bs[y.parent].applied
         /\ y.owns \/ (y.parent # None /\ y.ds = bs[y.parent].ds)
    ELSE y.ds = None /\ (y.owns <=> y.kind \in {"source", "file"})

Structure(bs) == \A x \in Box : Placed(bs, x) /\ Filled(bs, x)

BoxCounts(bs, E) ==
    \A x \in Box : bs[x].use = E[x] + Inside(bs, x) /\ (bs[x].use = 0 <=> bs[x].kind = "free")

SourceCounts(bs, src_, V) ==
    \A s \in Source :
        /\ src_[s].use = V[s] + Cardinality(Owners(bs, s))
        /\ src_[s].kind = "free" <=> src_[s] = NoSource
        /\ src_[s].kind = "memory" => src_[s].use # 0

Cached(st) == \A i \in DOMAIN st.cache : st.src[st.cache[i]].kind = "file"

Sourced(bs, V, K) ==
    /\ \A s \in K : s \in Source /\ V[s] # 0
    /\ \A x \in Box : /\ bs[x].kind = "source" => bs[x].from \in K
                      /\ bs[x].kind = "file" => bs[x].from \in Path

Watched(st, E, V, w) ==
    /\ w.ds \in Source /\ st.src[w.ds].data = w.data
    /\ IF w.box = None THEN V[w.ds] # 0
       ELSE w.box \in Box /\ E[w.box] # 0 /\ st.boxes[w.box].applied /\ st.boxes[w.box].ds = w.ds

Good(st, E, V, K, W) ==
    /\ st \in State /\ E \in [Box -> Nat] /\ V \in [Source -> Nat]
    /\ Structure(st.boxes)
    /\ BoxCounts(st.boxes, E)
    /\ SourceCounts(st.boxes, st.src, V)
    /\ Cached(st)
    /\ Sourced(st.boxes, V, K)
    /\ \A w \in W : Watched(st, E, V, w)

-----------------------------------------------------------------------------
(***************************************************************************)
(* The objects of the client, and what they hold.                          *)
(***************************************************************************)
InBox(hs, b)   == {h \in Handle : hs[h].box = b}
InValue(hs, b) == {h \in Handle : hs[h].value.box = b}
Filtering(hs, b) == {h \in Handle : hs[h].filtered = b}
InSource(hs, s) == {h \in Handle : hs[h].value.ds = s}
Held(hs, b) ==
    Cardinality(InBox(hs, b)) + Cardinality(InValue(hs, b)) + Cardinality(Filtering(hs, b))
HeldBoxes(hs) == [b \in Box |-> Held(hs, b)]

InBoard(s) == Cardinality({i \in DOMAIN board : board[i] = s})
HeldSources(hs) ==
    [s \in Source |-> InBoard(s) + Cardinality(InSource(hs, s))]
OnBoard == {board[i] : i \in DOMAIN board}

ValueRecord == [box : Box \cup {None}, ds : Source \cup {None}, data : Int]
HandleRecord ==
    [kind : {"none", "tracker", "item", "box"}, box : Box \cup {None},
     item : Chains \cup {Nowhere}, value : ValueRecord, filtered : Box \cup {None}]

IsHandle(x) ==
    /\ x \in HandleRecord
    /\ x.kind = "none" => x = NoHandle
    /\ x.kind # "none" => x.box # None
    /\ x.kind = "item" => x.item # Nowhere
    /\ x.kind = "tracker" => x.value = NoValue /\ x.filtered = None
    /\ x.value = NoValue \/ (x.value.box = None <=> x.value.ds # None)

(* The box that keeps the bytes of a view.                                 *)
Keeper(x) == IF x.kind = "tracker" THEN x.box ELSE x.filtered
SafeClient == Risky \cap {"rebuffer", "notify", "move_viewed"} = {}

ViewRecord == [of : Handle, ds : Source, data : Int]
WatchOfView(hs, v) == [box |-> Keeper(hs[v.of]), ds |-> v.ds, data |-> v.data]
WatchOfValue(bs, x) ==
    [box |-> x.value.box, data |-> x.value.data,
     ds |-> IF x.value.box # None THEN bs[x.value.box].ds ELSE x.value.ds]
Watches(bs, hs, vs) ==
    {w \in {WatchOfView(hs, v) : v \in vs} : SafeClient}
    \cup {w \in {WatchOfValue(bs, hs[h]) : h \in {k \in Handle : hs[k].value # NoValue}} : SafeClient}

ClientOK ==
    /\ handles \in [Handle -> HandleRecord] /\ \A h \in Handle : IsHandle(handles[h])
    /\ views \subseteq ViewRecord
    /\ SafeClient => \A v \in views : Keeper(handles[v.of]) # None
    /\ board \in Seq(Source)
    /\ file \in [Path -> Nat]

IInv ==
    /\ ClientOK
    /\ Good([Now EXCEPT !.opened = opened], HeldBoxes(handles), HeldSources(handles), OnBoard,
            Watches(boxes, handles, views))
-----------------------------------------------------------------------------
(***************************************************************************)
(* Numbers, and what is computed step by step.                             *)
(***************************************************************************)
(* A non-empty set of naturals has a least one.                            *)
LEMMA LeastNat ==
    ASSUME NEW S \in SUBSET Nat, S # {}
    PROVE  \E l \in S : \A m \in S : l <= m
<1> DEFINE R == OpToRel(<, Nat)
<1>1. IsWellFoundedOn(R, Nat)
    BY NatLessThanWellFounded, Zenon
<1>2. \A x, y \in Nat : x < y => <<x, y>> \in R
    BY Zenon DEF OpToRel
<1> HIDE DEF R
<1>3. PICK l \in S : \A m \in S : ~(<<m, l>> \in R)
    BY <1>1, WFMin, Zenon
<1>4. \A m \in S : ~(m < l)
    BY <1>2, <1>3, Zenon
<1>5. QED
    BY <1>4

(* The least of a set of naturals is one of them.                          *)
LEMMA MinIsIn ==
    ASSUME NEW S \in SUBSET Nat, S # {}
    PROVE  Min(S) \in S
<1>1. \E l \in S : \A m \in S : l <= m
    BY LeastNat
<1>2. QED
    BY <1>1, Zenon DEF Min

(* What holds at the start, and after each step, holds up to the end.      *)
LEMMA UpTo ==
    ASSUME NEW N \in Nat, NEW P, 0 \in P, \A n \in 1 .. N : n - 1 \in P => n \in P
    PROVE  \A n \in 0 .. N : n \in P
<1> DEFINE S == {n \in 0 .. N : n \notin P}
<1>1. SUFFICES ASSUME S # {} PROVE FALSE
    OBVIOUS
<1>2. PICK l \in S : \A m \in S : l <= m
    <2>1. S \in SUBSET Nat
        OBVIOUS
    <2> HIDE DEF S
    <2>2. QED
        BY <1>1, <2>1, LeastNat
<1>3. l \in 1 .. N /\ l - 1 \in 0 .. N /\ ~(l <= l - 1)
    OBVIOUS
<1>4. l - 1 \in P
    BY <1>2, <1>3
<1>5. QED
    BY <1>3, <1>4

(* What is computed in steps, from a value of a first type, each step from *)
(* a type to the next one, is computed.                                    *)
Steps(g, N, a, F) == g = [n \in 0 .. N |-> IF n = 0 THEN a ELSE F[n][g[n - 1]]]
Typed(g, N, X)    == \A n \in 0 .. N : g[n] \in X[n]

LEMMA Iterated ==
    ASSUME NEW N \in Nat, NEW X, NEW F, NEW a, a \in X[0],
           \A n \in 1 .. N : \A x \in X[n - 1] : F[n][x] \in X[n]
    PROVE  \E g : Steps(g, N, a, F) /\ Typed(g, N, X)
<1> DEFINE Made(g, m) ==
             /\ g = [n \in 0 .. m |-> IF n = 0 THEN a ELSE F[n][g[n - 1]]]
             /\ \A n \in 0 .. m : g[n] \in X[n]
           P == {m \in 0 .. N : \E g : Made(g, m)}
<1>1. 0 \in P
    <2> DEFINE g == [n \in 0 .. 0 |-> a]
    <2>1. g = [n \in 0 .. 0 |-> IF n = 0 THEN a ELSE F[n][g[n - 1]]]
        OBVIOUS
    <2>2. \A n \in 0 .. 0 : g[n] \in X[n]
        OBVIOUS
    <2>3. Made(g, 0)
        BY <2>1, <2>2, Zenon
    <2>4. 0 \in 0 .. N
        OBVIOUS
    <2>5. QED
        BY <2>3, <2>4, Zenon
<1>2. ASSUME NEW m \in 1 .. N, m - 1 \in P PROVE m \in P
    <2>1. PICK g : Made(g, m - 1)
        BY <1>2
    <2> DEFINE h == [n \in 0 .. m |-> IF n = m THEN F[m][g[m - 1]] ELSE g[n]]
    <2>2. m - 1 \in 0 .. (m - 1) /\ m \in Nat /\ m # 0
        OBVIOUS
    <2>3. \A n \in 0 .. (m - 1) : n \in 0 .. m /\ n # m /\ (n # 0 => n - 1 \in 0 .. (m - 1))
        OBVIOUS
    <2>4. \A n \in 0 .. m : n = m \/ n \in 0 .. (m - 1)
        OBVIOUS
    <2>5. h[m] = F[m][g[m - 1]] /\ \A n \in 0 .. (m - 1) : h[n] = g[n]
        BY <2>2, <2>3
    <2>6. \A n \in 0 .. m : h[n] = IF n = 0 THEN a ELSE F[n][h[n - 1]]
        <3>1. \A n \in 0 .. (m - 1) : g[n] = IF n = 0 THEN a ELSE F[n][g[n - 1]]
            BY <2>1, Zenon
        <3> HIDE DEF h
        <3>2. QED
            BY <2>2, <2>3, <2>4, <2>5, <3>1, Zenon
    <2>7. \A n \in 0 .. m : h[n] \in X[n]
        <3> HIDE DEF h
        <3>1. \A n \in 0 .. (m - 1) : g[n] \in X[n]
            BY <2>1
        <3>2. QED
            BY <2>2, <2>4, <2>5, <3>1, Zenon
    <2>8. h = [n \in 0 .. m |-> IF n = 0 THEN a ELSE F[n][h[n - 1]]]
        <3>1. h = [n \in 0 .. m |-> h[n]]
            BY Zenon
        <3> HIDE DEF h
        <3>2. QED
            BY <2>6, <3>1, Zenon
    <2>9. Made(h, m)
        <3> HIDE DEF h
        <3> QED
            BY <2>7, <2>8, Zenon
    <2>10. m \in 0 .. N
        OBVIOUS
    <2>11. QED
        BY <2>9, <2>10, Zenon
<1>3. N \in P
    <2> HIDE DEF P
    <2>1. \A n \in 0 .. N : n \in P
        BY <1>1, <1>2, UpTo, Zenon
    <2>2. QED
        BY <2>1
<1>4. QED
    BY <1>3, Zenon DEF Steps, Typed

One(p) == IF p THEN 1 ELSE 0

(* Two sets that differ in one element only.                               *)
LEMMA CountDiffers ==
    ASSUME NEW D, IsFiniteSet(D), NEW d \in D, NEW S \in SUBSET D, NEW T \in SUBSET D,
           S \ {d} = T \ {d}
    PROVE  /\ Cardinality(S) \in Nat /\ Cardinality(T) \in Nat
           /\ Cardinality(T) + One(d \in S) = Cardinality(S) + One(d \in T)
<1>1. IsFiniteSet(S) /\ IsFiniteSet(T)
    BY FS_Subset
<1>2. Cardinality(S) \in Nat /\ Cardinality(T) \in Nat
    BY <1>1, FS_CardinalityType
<1>3. CASE (d \in S) <=> (d \in T)
    <2>1. S = T
        BY <1>3
    <2>2. QED
        BY <1>2, <2>1
<1>4. CASE d \in S /\ d \notin T
    <2>1. T = S \ {d}
        BY <1>4
    <2>2. Cardinality(T) = Cardinality(S) - 1
        BY <1>1, <1>4, <2>1, FS_RemoveElement
    <2>3. QED
        BY <1>2, <1>4, <2>2 DEF One
<1>5. CASE d \notin S /\ d \in T
    <2>1. S = T \ {d}
        BY <1>5
    <2>2. Cardinality(S) = Cardinality(T) - 1
        BY <1>1, <1>5, <2>1, FS_RemoveElement
    <2>3. QED
        BY <1>2, <1>5, <2>2 DEF One
<1>6. QED
    BY <1>3, <1>4, <1>5

-----------------------------------------------------------------------------
(***************************************************************************)
(* Who refers to a box and to a source.                                    *)
(***************************************************************************)
LEMMA BoxFinite ==
    /\ IsFiniteSet(Box) /\ None \notin Box /\ Box \subseteq Nat
    /\ IsFiniteSet(Source) /\ None \notin Source /\ Source \subseteq Nat
BY ReferenceAssumption, SourceAssumption, FS_CardinalityType DEF None

LEMMA InsideType ==
    ASSUME NEW bs, NEW x
    PROVE  /\ IsFiniteSet(Children(bs, x)) /\ IsFiniteSet(Scoped(bs, x))
           /\ IsFiniteSet(Owners(bs, x))
           /\ Cardinality(Children(bs, x)) \in Nat /\ Cardinality(Scoped(bs, x)) \in Nat
           /\ Cardinality(Owners(bs, x)) \in Nat
           /\ Inside(bs, x) \in Nat
           /\ Cardinality(Children(bs, x)) = 0 <=> Children(bs, x) = {}
           /\ Cardinality(Scoped(bs, x)) = 0 <=> Scoped(bs, x) = {}
           /\ Cardinality(Owners(bs, x)) = 0 <=> Owners(bs, x) = {}
<1>1. /\ Children(bs, x) \in SUBSET Box /\ Scoped(bs, x) \in SUBSET Box
      /\ Owners(bs, x) \in SUBSET Box
    BY DEF Children, Scoped, Owners
<1>2. /\ IsFiniteSet(Children(bs, x)) /\ IsFiniteSet(Scoped(bs, x))
      /\ IsFiniteSet(Owners(bs, x))
    BY <1>1, BoxFinite, FS_Subset
<1>3. /\ Cardinality(Children(bs, x)) \in Nat /\ Cardinality(Scoped(bs, x)) \in Nat
      /\ Cardinality(Owners(bs, x)) \in Nat
    BY <1>2, FS_CardinalityType
<1>4. QED
    BY <1>2, <1>3, FS_EmptySet DEF Inside

(* A box that another one is in, or is scoped by, has one inside.          *)
LEMMA InsideNone ==
    ASSUME NEW bs, NEW x
    PROVE  Inside(bs, x) = 0 <=> Children(bs, x) = {} /\ Scoped(bs, x) = {}
BY InsideType DEF Inside

(* When one box changes who it refers to.                                  *)
LEMMA InsideUpdate ==
    ASSUME NEW bs, NEW cs, NEW b \in Box, NEW x,
           \A c \in Box \ {b} : cs[c].parent = bs[c].parent /\ cs[c].scope = bs[c].scope
    PROVE  Inside(cs, x) + One(bs[b].parent = x) + One(bs[b].scope = x)
           = Inside(bs, x) + One(cs[b].parent = x) + One(cs[b].scope = x)
<1>1. Children(bs, x) \ {b} = Children(cs, x) \ {b} /\ Scoped(bs, x) \ {b} = Scoped(cs, x) \ {b}
    BY DEF Children, Scoped
<1>2. /\ Children(bs, x) \in SUBSET Box /\ Scoped(bs, x) \in SUBSET Box
      /\ Children(cs, x) \in SUBSET Box /\ Scoped(cs, x) \in SUBSET Box
    BY DEF Children, Scoped
<1>3. Cardinality(Children(cs, x)) + One(b \in Children(bs, x))
      = Cardinality(Children(bs, x)) + One(b \in Children(cs, x))
    BY <1>1, <1>2, BoxFinite, CountDiffers
<1>4. Cardinality(Scoped(cs, x)) + One(b \in Scoped(bs, x))
      = Cardinality(Scoped(bs, x)) + One(b \in Scoped(cs, x))
    BY <1>1, <1>2, BoxFinite, CountDiffers
<1>5. /\ (b \in Children(bs, x)) <=> (bs[b].parent = x)
      /\ (b \in Children(cs, x)) <=> (cs[b].parent = x)
      /\ (b \in Scoped(bs, x)) <=> (bs[b].scope = x)
      /\ (b \in Scoped(cs, x)) <=> (cs[b].scope = x)
    BY DEF Children, Scoped
<1>6. QED
    BY <1>3, <1>4, <1>5, InsideType DEF One, Inside

LEMMA OwnersUpdate ==
    ASSUME NEW bs, NEW cs, NEW b \in Box, NEW s,
           \A c \in Box \ {b} : cs[c].owns = bs[c].owns /\ cs[c].ds = bs[c].ds
    PROVE  Cardinality(Owners(cs, s)) + One(bs[b].owns /\ bs[b].ds = s)
           = Cardinality(Owners(bs, s)) + One(cs[b].owns /\ cs[b].ds = s)
<1>1. Owners(bs, s) \ {b} = Owners(cs, s) \ {b}
    BY DEF Owners
<1>2. Owners(bs, s) \in SUBSET Box /\ Owners(cs, s) \in SUBSET Box
    BY DEF Owners
<1>3. Cardinality(Owners(cs, s)) + One(b \in Owners(bs, s))
      = Cardinality(Owners(bs, s)) + One(b \in Owners(cs, s))
    BY <1>1, <1>2, BoxFinite, CountDiffers
<1>4. /\ (b \in Owners(bs, s)) <=> (bs[b].owns /\ bs[b].ds = s)
      /\ (b \in Owners(cs, s)) <=> (cs[b].owns /\ cs[b].ds = s)
    BY DEF Owners
<1>5. QED
    BY <1>3, <1>4, InsideType DEF One

(* Nobody else's references change when the boxes keep theirs.             *)
LEMMA SameInside ==
    ASSUME NEW bs, NEW cs, NEW x,
           \A c \in Box : cs[c].parent = bs[c].parent /\ cs[c].scope = bs[c].scope
    PROVE  Inside(cs, x) = Inside(bs, x)
<1>1. Children(cs, x) = Children(bs, x) /\ Scoped(cs, x) = Scoped(bs, x)
    BY DEF Children, Scoped
<1>2. QED
    BY <1>1 DEF Inside

LEMMA SameOwners ==
    ASSUME NEW bs, NEW cs, NEW s,
           \A c \in Box : cs[c].owns = bs[c].owns /\ cs[c].ds = bs[c].ds
    PROVE  Owners(cs, s) = Owners(bs, s)
BY DEF Owners

(* The data that a box gives is that of a box that owns it.                *)
LEMMA HasOwner ==
    ASSUME NEW bs \in [Box -> BoxRecord], Structure(bs), NEW x \in Box, bs[x].applied
    PROVE  bs[x].ds \in Source /\ Owners(bs, bs[x].ds) # {}
<1> DEFINE Y == {y \in Box : bs[y].applied /\ bs[y].ds = bs[x].ds}
           D == {bs[y].depth : y \in Y}
<1>1. x \in Y /\ Y \subseteq Box
    OBVIOUS
<1>2. D \in SUBSET Nat /\ D # {}
    <2>1. \A y \in Box : bs[y].depth \in Nat
        BY ReferenceAssumption DEF BoxRecord
    <2>2. QED
        BY <1>1, <2>1
<1>3. PICK d \in D : \A e \in D : d <= e
    <2> HIDE DEF D
    <2>1. QED
        BY <1>2, LeastNat
<1>4. PICK y \in Y : bs[y].depth = d
    OBVIOUS
<1>5. Placed(bs, y) /\ Filled(bs, y) /\ y \in Box /\ bs[y] \in BoxRecord
    BY <1>1 DEF Structure
<1>6. CASE bs[y].owns
    <2>1. y \in Owners(bs, bs[x].ds)
        BY <1>5, <1>6 DEF Owners
    <2>2. bs[y].ds \in Source
        BY <1>5, <1>6 DEF Filled, BoxRecord
    <2>3. QED
        BY <2>1, <2>2
<1>7. CASE ~bs[y].owns
    <2> DEFINE q == bs[y].parent
    <2>1. q # None /\ bs[q].applied /\ bs[q].ds = bs[y].ds /\ bs[y].depth = bs[q].depth + 1
        BY <1>5, <1>7, Zenon DEF Filled, Placed
    <2>2. q \in Box
        BY <1>5, <2>1 DEF BoxRecord
    <2>3. q \in Y /\ bs[q].depth \in Nat
        BY <2>1, <2>2, ReferenceAssumption DEF BoxRecord
    <2>4. d <= bs[q].depth
        BY <1>3, <2>3
    <2>5. QED
        BY <1>4, <2>1, <2>3, <2>4
<1>8. QED
    BY <1>6, <1>7, Zenon

-----------------------------------------------------------------------------
(***************************************************************************)
(* One more reference on a box, or one less that is not the last.          *)
(***************************************************************************)
WithUses(bs, u) == [x \in Box |-> [bs[x] EXCEPT !.use = u[x]]]

(* All that is known of a box but how often it is used.                    *)
SameBox(y, z) ==
    /\ y.kind = z.kind /\ y.parent = z.parent /\ y.scope = z.scope /\ y.item = z.item
    /\ y.ds = z.ds /\ (y.owns <=> z.owns) /\ (y.applied <=> z.applied) /\ y.depth = z.depth
    /\ y.from = z.from

LEMMA WithUsesFields ==
    ASSUME NEW bs \in [Box -> BoxRecord], NEW u \in [Box -> Nat]
    PROVE  /\ WithUses(bs, u) \in [Box -> BoxRecord]
           /\ \A x \in Box : /\ WithUses(bs, u)[x].use = u[x]
                             /\ SameBox(WithUses(bs, u)[x], bs[x])
                             /\ WithUses(bs, u)[x] = [bs[x] EXCEPT !.use = u[x]]
<1>1. \A x \in Box : WithUses(bs, u)[x] = [bs[x] EXCEPT !.use = u[x]]
    BY DEF WithUses
<1>2. ASSUME NEW x \in Box
      PROVE  /\ [bs[x] EXCEPT !.use = u[x]] \in BoxRecord
             /\ [bs[x] EXCEPT !.use = u[x]].use = u[x]
             /\ SameBox([bs[x] EXCEPT !.use = u[x]], bs[x])
    <2> DEFINE y == bs[x]
               n == u[x]
    <2>1. y \in BoxRecord /\ n \in Nat
        OBVIOUS
    <2> HIDE DEF y, n
    <2>2. [y EXCEPT !.use = n] \in BoxRecord /\ [y EXCEPT !.use = n].use = n
        BY <2>1 DEF BoxRecord
    <2>3. SameBox([y EXCEPT !.use = n], y)
        BY <2>1 DEF BoxRecord, SameBox
    <2>4. QED
        BY <2>2, <2>3 DEF y, n
<1>3. WithUses(bs, u) \in [Box -> BoxRecord]
    BY <1>2 DEF WithUses
<1>4. QED
    BY <1>1, <1>2, <1>3

LEMMA Recounted ==
    ASSUME NEW st, NEW E, NEW V, NEW K, NEW W, Good(st, E, V, K, W),
           NEW F \in [Box -> Nat], NEW u \in [Box -> Nat],
           \A x \in Box : u[x] = F[x] + Inside(st.boxes, x),
           \A x \in Box : u[x] = 0 <=> st.boxes[x].kind = "free",
           \A w \in W : w.box # None => F[w.box] # 0
    PROVE  Good([st EXCEPT !.boxes = WithUses(@, u)], F, V, K, W)
<1> DEFINE bs == st.boxes
           cs == WithUses(bs, u)
           t  == [st EXCEPT !.boxes = WithUses(@, u)]
<1>1. bs \in [Box -> BoxRecord] /\ V \in [Source -> Nat] /\ st \in State
    BY DEF Good, State
<1>2. /\ cs \in [Box -> BoxRecord]
      /\ \A x \in Box : cs[x].use = u[x] /\ SameBox(cs[x], bs[x])
                        /\ cs[x] = [bs[x] EXCEPT !.use = u[x]]
    BY <1>1, WithUsesFields
<1>3. t.boxes = cs /\ t.src = st.src /\ t.cache = st.cache /\ t \in State
    BY <1>1, <1>2 DEF State
<1> HIDE DEF t, cs
<1>4. Structure(cs)
    <2> SUFFICES ASSUME NEW x \in Box PROVE Placed(cs, x) /\ Filled(cs, x)
        BY DEF Structure
    <2>1. Placed(bs, x) /\ Filled(bs, x)
        BY DEF Good, Structure
    <2>2. /\ bs[x].parent \in Box \cup {None} /\ bs[x].scope \in Box \cup {None}
          /\ SameBox(cs[x], bs[x])
          /\ bs[x].parent # None => SameBox(cs[bs[x].parent], bs[bs[x].parent])
          /\ bs[x].scope # None => SameBox(cs[bs[x].scope], bs[bs[x].scope])
        <3>1. bs[x].parent \in Box \cup {None} /\ bs[x].scope \in Box \cup {None}
            BY <1>1 DEF BoxRecord
        <3>2. QED
            BY <1>2, <3>1
    <2>3. Filled(cs, x)
        <3> DEFINE p == bs[x].parent
        <3>1. /\ cs[x].kind = bs[x].kind /\ cs[x].parent = p /\ cs[x].ds = bs[x].ds
              /\ (cs[x].owns <=> bs[x].owns) /\ (cs[x].applied <=> bs[x].applied)
            BY <2>2, Zenon DEF SameBox
        <3>2. p # None => cs[p].ds = bs[p].ds /\ (cs[p].applied <=> bs[p].applied)
            BY <2>2, Zenon DEF SameBox
        <3>3. CASE bs[x].applied
            BY <2>1, <3>1, <3>2, <3>3, Zenon DEF Filled
        <3>4. CASE ~bs[x].applied
            BY <2>1, <3>1, <3>4, Zenon DEF Filled
        <3>5. QED
            BY <3>3, <3>4
    <2>4. cs[x].kind = "free" <=> cs[x] = NoBox
        <3>1. CASE bs[x].kind = "free"
            <4>1. bs[x] = NoBox /\ u[x] = 0
                BY <2>1, <3>1 DEF Placed
            <4>2. cs[x] = [NoBox EXCEPT !.use = 0]
                BY <1>2, <4>1
            <4>3. cs[x] = NoBox
                BY <4>2 DEF NoBox
            <4>4. QED
                BY <4>3 DEF NoBox
        <3>2. CASE bs[x].kind # "free"
            <4>1. cs[x].kind # "free"
                BY <2>2, <3>2, Zenon DEF SameBox
            <4>2. NoBox.kind = "free"
                BY DEF NoBox
            <4>3. QED
                BY <4>1, <4>2, Zenon
        <3>3. QED
            BY <3>1, <3>2
    <2>5. Placed(cs, x)
        <3>1. /\ cs[x].kind = bs[x].kind /\ cs[x].parent = bs[x].parent /\ cs[x].scope = bs[x].scope
              /\ cs[x].depth = bs[x].depth
            BY <2>2, Zenon DEF SameBox
        <3>2. bs[x].parent # None =>
                 /\ cs[bs[x].parent].kind = bs[bs[x].parent].kind
                 /\ cs[bs[x].parent].depth = bs[bs[x].parent].depth
            BY <2>2, Zenon DEF SameBox
        <3>3. bs[x].scope # None =>
                 /\ cs[bs[x].scope].kind = bs[bs[x].scope].kind
                 /\ cs[bs[x].scope].depth = bs[bs[x].scope].depth
            BY <2>2, Zenon DEF SameBox
        <3>4. QED
            BY <2>1, <2>4, <3>1, <3>2, <3>3, Zenon DEF Placed
    <2>6. QED
        BY <2>3, <2>5
<1>5. BoxCounts(cs, F)
    <2> SUFFICES ASSUME NEW x \in Box
                 PROVE  cs[x].use = F[x] + Inside(cs, x) /\ (cs[x].use = 0 <=> cs[x].kind = "free")
        BY DEF BoxCounts
    <2>1. Inside(cs, x) = Inside(bs, x)
        BY <1>2, SameInside DEF SameBox
    <2>2. QED
        BY <1>2, <2>1 DEF SameBox
<1>6. SourceCounts(cs, st.src, V)
    <2>1. \A s \in Source : Owners(cs, s) = Owners(bs, s)
        BY <1>2 DEF Owners, SameBox
    <2>2. QED
        BY <2>1 DEF Good, SourceCounts
<1>7. Sourced(cs, V, K)
    BY <1>2 DEF Good, Sourced, SameBox
<1>8. \A w \in W : Watched(t, F, V, w)
    BY <1>2, <1>3 DEF Good, Watched, SameBox
<1>9. QED
    BY <1>3, <1>4, <1>5, <1>6, <1>7, <1>8 DEF Good, Cached, t

LEMMA GoodType ==
    ASSUME NEW st, NEW E, NEW V, NEW K, NEW W, Good(st, E, V, K, W)
    PROVE  /\ st \in State /\ st.boxes \in [Box -> BoxRecord] /\ st.src \in [Source -> SourceRecord]
           /\ st.cache \in Seq(Source)
           /\ E \in [Box -> Nat] /\ V \in [Source -> Nat]
           /\ \A x \in Box : /\ st.boxes[x].use \in Nat /\ Inside(st.boxes, x) \in Nat
                             /\ st.boxes[x].use = E[x] + Inside(st.boxes, x)
                             /\ st.boxes[x].use = 0 <=> st.boxes[x].kind = "free"
<1>1. /\ st \in State /\ st.boxes \in [Box -> BoxRecord] /\ st.src \in [Source -> SourceRecord]
      /\ st.cache \in Seq(Source)
      /\ E \in [Box -> Nat] /\ V \in [Source -> Nat]
    BY DEF Good, State
<1>2. \A x \in Box : st.boxes[x].use \in Nat
    BY <1>1 DEF BoxRecord
<1>3. QED
    BY <1>1, <1>2, InsideType DEF Good, BoxCounts

LEMMA Acquired ==
    ASSUME NEW st, NEW E, NEW V, NEW K, NEW W, Good(st, E, V, K, W),
           NEW b \in Box \cup {None}, b # None => st.boxes[b].kind # "free",
           NEW F \in [Box -> Nat], \A x \in Box : F[x] = E[x] + One(x = b)
    PROVE  /\ Good(AcquireBox(st, b), F, V, K, W)
           /\ AcquireBox(st, b).boxes \in [Box -> BoxRecord]
           /\ \A x \in Box : SameBox(AcquireBox(st, b).boxes[x], st.boxes[x])
           /\ AcquireBox(st, b).src = st.src /\ AcquireBox(st, b).cache = st.cache
<1>0. /\ st \in State /\ st.boxes \in [Box -> BoxRecord] /\ E \in [Box -> Nat]
      /\ \A x \in Box : /\ st.boxes[x].use \in Nat /\ Inside(st.boxes, x) \in Nat
                        /\ st.boxes[x].use = E[x] + Inside(st.boxes, x)
                        /\ st.boxes[x].use = 0 <=> st.boxes[x].kind = "free"
    BY GoodType
<1>1. CASE b = None
    <2>1. AcquireBox(st, b) = st
        BY <1>1 DEF AcquireBox
    <2>2. F = E
        <3>1. \A x \in Box : F[x] = E[x]
            BY <1>0, <1>1, BoxFinite DEF One
        <3>2. QED
            BY <1>0, <3>1
    <2>3. QED
        BY <2>1, <2>2, GoodType DEF SameBox
<1>2. CASE b # None
    <2> DEFINE u == [x \in Box |-> st.boxes[x].use + One(x = b)]
    <2>1. b \in Box
        BY <1>2
    <2>2. u \in [Box -> Nat] /\ \A x \in Box : u[x] = st.boxes[x].use + One(x = b)
        BY GoodType DEF One
    <2> HIDE DEF u
    <2>3. /\ \A x \in Box : u[x] = F[x] + Inside(st.boxes, x)
          /\ \A x \in Box : u[x] = 0 <=> st.boxes[x].kind = "free"
        <3> SUFFICES ASSUME NEW x \in Box
                     PROVE  u[x] = F[x] + Inside(st.boxes, x)
                            /\ (u[x] = 0 <=> st.boxes[x].kind = "free")
            OBVIOUS
        <3>0. /\ st.boxes[x].use \in Nat /\ Inside(st.boxes, x) \in Nat /\ E[x] \in Nat
              /\ st.boxes[x].use = E[x] + Inside(st.boxes, x)
              /\ st.boxes[x].use = 0 <=> st.boxes[x].kind = "free"
              /\ F[x] = E[x] + One(x = b) /\ u[x] = st.boxes[x].use + One(x = b)
              /\ x = b => st.boxes[x].kind # "free"
            BY <1>0, <1>2, <2>2
        <3>1. CASE x = b
            BY <3>0, <3>1 DEF One
        <3>2. CASE x # b
            BY <3>0, <3>2 DEF One
        <3>3. QED
            BY <3>1, <3>2
    <2>4. \A w \in W : w.box # None => F[w.box] # 0
        <3>1. \A w \in W : w.box # None => w.box \in Box /\ E[w.box] # 0
            BY Zenon DEF Good, Watched
        <3>2. \A x \in Box : E[x] # 0 => F[x] # 0
            BY <1>0 DEF One
        <3>3. QED
            BY <3>1, <3>2, Zenon
    <2>5. [st.boxes EXCEPT ![b].use = @ + 1] = WithUses(st.boxes, u)
        <3> DEFINE bs == st.boxes
        <3>1. bs \in [Box -> BoxRecord]
            BY GoodType
        <3>2. ASSUME NEW x \in Box
              PROVE  [bs EXCEPT ![b].use = @ + 1][x] = [bs[x] EXCEPT !.use = u[x]]
            <4>1. CASE x = b
                BY <2>1, <2>2, <3>1, <4>1 DEF One
            <4>2. CASE x # b
                <5>1. bs[x] = [bs[x] EXCEPT !.use = bs[x].use]
                    BY <3>1 DEF BoxRecord
                <5>2. u[x] = bs[x].use
                    BY <2>2, <4>2, <3>1 DEF One, BoxRecord
                <5>3. QED
                    BY <2>1, <3>1, <4>2, <5>1, <5>2
            <4>3. QED
                BY <4>1, <4>2
        <3>3. QED
            BY <3>1, <3>2 DEF WithUses
    <2>6. AcquireBox(st, b) = [st EXCEPT !.boxes = WithUses(@, u)]
        <3>1. AcquireBox(st, b)
              = [st EXCEPT !.boxes = [st.boxes EXCEPT ![b].use = st.boxes[b].use + 1]]
            BY <1>2 DEF AcquireBox
        <3>2. QED
            BY <2>5, <3>1
    <2>7. Good([st EXCEPT !.boxes = WithUses(@, u)], F, V, K, W)
        BY <2>2, <2>3, <2>4, Recounted
    <2>8. /\ AcquireBox(st, b).boxes = WithUses(st.boxes, u)
          /\ AcquireBox(st, b).src = st.src /\ AcquireBox(st, b).cache = st.cache
        BY <2>6, GoodType DEF State
    <2>9. QED
        <3>1. Good(AcquireBox(st, b), F, V, K, W)
            BY <2>6, <2>7, Zenon
        <3>2. /\ WithUses(st.boxes, u) \in [Box -> BoxRecord]
              /\ \A x \in Box : SameBox(WithUses(st.boxes, u)[x], st.boxes[x])
            BY <1>0, <2>2, WithUsesFields
        <3>3. QED
            BY <2>8, <3>1, <3>2, Zenon
<1>3. QED
    BY <1>1, <1>2

(* One count that is set, the others as they are.                          *)
LEMMA OneUse ==
    ASSUME NEW bs \in [Box -> BoxRecord], NEW b \in Box, NEW u \in [Box -> Nat],
           \A x \in Box : x # b => u[x] = bs[x].use
    PROVE  [bs EXCEPT ![b].use = u[b]] = WithUses(bs, u)
<1>1. ASSUME NEW x \in Box
      PROVE  [bs EXCEPT ![b].use = u[b]][x] = [bs[x] EXCEPT !.use = u[x]]
    <2>1. CASE x = b
        BY <2>1
    <2>2. CASE x # b
        <3>1. bs[x] = [bs[x] EXCEPT !.use = bs[x].use]
            BY DEF BoxRecord
        <3>2. QED
            BY <2>2, <3>1
    <2>3. QED
        BY <2>1, <2>2
<1>2. QED
    BY <1>1 DEF WithUses

LEMMA Lowered ==
    ASSUME NEW st, NEW E, NEW V, NEW K, NEW W, Good(st, E, V, K, W),
           NEW b \in Box, st.boxes[b].use # 1, E[b] # 0,
           NEW F \in [Box -> Nat], \A x \in Box : E[x] = F[x] + One(x = b),
           \A w \in W : w.box # None => F[w.box] # 0
    PROVE  Good([st EXCEPT !.boxes = [st.boxes EXCEPT ![b].use = st.boxes[b].use - 1]],
                F, V, K, W)
<1>0. /\ st \in State /\ st.boxes \in [Box -> BoxRecord] /\ E \in [Box -> Nat]
      /\ \A x \in Box : /\ st.boxes[x].use \in Nat /\ Inside(st.boxes, x) \in Nat
                        /\ st.boxes[x].use = E[x] + Inside(st.boxes, x)
                        /\ st.boxes[x].use = 0 <=> st.boxes[x].kind = "free"
    BY GoodType
<1> DEFINE u == [x \in Box |-> st.boxes[x].use - One(x = b)]
<1>1. ASSUME NEW x \in Box
      PROVE  /\ u[x] \in Nat /\ u[x] = F[x] + Inside(st.boxes, x)
             /\ u[x] = 0 <=> st.boxes[x].kind = "free"
             /\ u[x] = st.boxes[x].use - One(x = b)
    <2>1. /\ st.boxes[x].use \in Nat /\ Inside(st.boxes, x) \in Nat
          /\ F[x] \in Nat /\ E[x] \in Nat
          /\ st.boxes[x].use = E[x] + Inside(st.boxes, x)
          /\ st.boxes[x].use = 0 <=> st.boxes[x].kind = "free"
          /\ E[x] = F[x] + One(x = b) /\ u[x] = st.boxes[x].use - One(x = b)
          /\ x = b => st.boxes[x].use # 1 /\ E[x] # 0
        BY <1>0
    <2> HIDE DEF u
    <2>2. QED
        BY <2>1 DEF One
<1>2. u \in [Box -> Nat]
    BY <1>1
<1> HIDE DEF u
<1>3. u[b] = st.boxes[b].use - 1 /\ \A x \in Box : x # b => u[x] = st.boxes[x].use
    BY <1>0, <1>1 DEF One
<1>4. [st.boxes EXCEPT ![b].use = st.boxes[b].use - 1] = WithUses(st.boxes, u)
    <2> DEFINE bs == st.boxes
    <2>1. /\ bs \in [Box -> BoxRecord] /\ \A x \in Box : x # b => u[x] = bs[x].use
          /\ u[b] = bs[b].use - 1
        BY <1>0, <1>3
    <2> HIDE DEF bs
    <2>2. [bs EXCEPT ![b].use = u[b]] = WithUses(bs, u)
        BY <1>2, <2>1, OneUse
    <2>3. [bs EXCEPT ![b].use = bs[b].use - 1] = WithUses(bs, u)
        BY <2>1, <2>2
    <2>4. QED
        BY <2>3 DEF bs
<1>5. Good([st EXCEPT !.boxes = WithUses(@, u)], F, V, K, W)
    BY <1>1, <1>2, Recounted
<1>6. QED
    BY <1>4, <1>5

-----------------------------------------------------------------------------
(***************************************************************************)
(* The data sources and how often they are used.                           *)
(***************************************************************************)
UsedAs(ss, T) ==
    \A s \in Source :
        /\ ss[s].use = T[s]
        /\ ss[s].kind = "free" <=> ss[s] = NoSource
        /\ ss[s].kind = "memory" => ss[s].use # 0

(* What a release keeps: the files, and what is still used.                *)
LEMMA ReleasedSource ==
    ASSUME NEW ss \in [Source -> SourceRecord], NEW s \in Source \cup {None},
           NEW T \in [Source -> Nat], NEW U \in [Source -> Nat], UsedAs(ss, T),
           \A x \in Source : T[x] = U[x] + One(x = s)
    PROVE  /\ ReleaseSource(ss, s) \in [Source -> SourceRecord]
           /\ UsedAs(ReleaseSource(ss, s), U)
           /\ \A x \in Source : U[x] # 0 => ReleaseSource(ss, s)[x].data = ss[x].data
           /\ \A x \in Source : ss[x].kind = "file" => ReleaseSource(ss, s)[x].kind = "file"
<1> DEFINE rs == ReleaseSource(ss, s)
<1>0. \A x \in Source : /\ ss[x] \in SourceRecord /\ ss[x].use \in Nat /\ ss[x].use = T[x]
                        /\ T[x] = U[x] + One(x = s) /\ U[x] \in Nat
                        /\ ss[x].kind = "free" <=> ss[x] = NoSource
                        /\ ss[x].kind = "memory" => ss[x].use # 0
    BY DEF UsedAs, SourceRecord
<1>1. CASE s = None
    <2>1. rs = ss
        BY <1>1 DEF ReleaseSource
    <2>2. \A x \in Source : U[x] = T[x]
        BY <1>0, <1>1, BoxFinite DEF One
    <2>3. QED
        BY <1>0, <2>1, <2>2 DEF UsedAs
<1>2. CASE s # None /\ ss[s].use = 1 /\ ss[s].kind = "memory"
    <2>1. s \in Source /\ rs = [ss EXCEPT ![s] = NoSource]
        BY <1>2 DEF ReleaseSource
    <2>2. NoSource \in SourceRecord /\ NoSource.kind = "free" /\ NoSource.use = 0
        BY DEF NoSource, SourceRecord, Gone
    <2>3. U[s] = 0 /\ \A x \in Source : x # s => U[x] = T[x]
        BY <1>0, <1>2, <2>1 DEF One
    <2> HIDE DEF rs
    <2>4. rs[s] = NoSource /\ \A x \in Source : x # s => rs[x] = ss[x]
        BY <2>1
    <2>5. rs \in [Source -> SourceRecord]
        BY <2>1, <2>2
    <2>6. UsedAs(rs, U)
        BY <1>0, <2>2, <2>3, <2>4 DEF UsedAs
    <2>7. /\ \A x \in Source : U[x] # 0 => rs[x].data = ss[x].data
          /\ \A x \in Source : ss[x].kind = "file" => rs[x].kind = "file"
        BY <1>2, <2>3, <2>4
    <2>8. QED
        BY <2>5, <2>6, <2>7 DEF rs
<1>3. CASE s # None /\ ~(ss[s].use = 1 /\ ss[s].kind = "memory")
    <2>1. s \in Source /\ rs = [ss EXCEPT ![s].use = ss[s].use - 1]
        BY <1>3 DEF ReleaseSource
    <2>2. T[s] = U[s] + 1 /\ \A x \in Source : x # s => U[x] = T[x]
        BY <1>0, <2>1 DEF One
    <2>3. ss[s].use - 1 = U[s] /\ ss[s].kind # "free"
        BY <1>0, <2>1, <2>2 DEF NoSource
    <2> HIDE DEF rs
    <2>4. /\ rs[s] \in SourceRecord /\ rs[s].use = U[s] /\ rs[s].kind = ss[s].kind
          /\ rs[s].data = ss[s].data
        <3> DEFINE y == ss[s]
                   n == U[s]
        <3>1. y \in SourceRecord /\ n \in Nat /\ rs[s] = [y EXCEPT !.use = n]
            BY <1>0, <2>1, <2>3
        <3> HIDE DEF y, n
        <3>2. /\ rs[s] \in SourceRecord /\ rs[s].use = n /\ rs[s].kind = y.kind
              /\ rs[s].data = y.data
            BY <3>1 DEF SourceRecord
        <3>3. QED
            BY <3>2 DEF y, n
    <2>5. \A x \in Source : x # s => rs[x] = ss[x]
        BY <2>1
    <2>6. rs \in [Source -> SourceRecord]
        <3>1. \A x \in Source : rs[x] \in SourceRecord
            BY <1>0, <2>4, <2>5
        <3>2. rs = [x \in Source |-> rs[x]]
            BY <2>1
        <3>3. QED
            BY <3>1, <3>2
    <2>7. UsedAs(rs, U)
        <3> SUFFICES ASSUME NEW x \in Source
                     PROVE  /\ rs[x].use = U[x] /\ (rs[x].kind = "free" <=> rs[x] = NoSource)
                            /\ rs[x].kind = "memory" => rs[x].use # 0
            BY DEF UsedAs
        <3>1. CASE x = s
            <4>1. rs[s].kind # "free" /\ rs[s] # NoSource
                BY <2>3, <2>4 DEF NoSource
            <4>2. ss[s].kind = "memory" => U[s] # 0
                BY <1>0, <1>3, <2>1, <2>2
            <4>3. QED
                BY <2>4, <3>1, <4>1, <4>2
        <3>2. CASE x # s
            BY <1>0, <2>2, <2>5, <3>2
        <3>3. QED
            BY <3>1, <3>2
    <2>8. QED
        BY <1>0, <2>4, <2>5, <2>6, <2>7 DEF rs
<1>4. QED
    BY <1>1, <1>2, <1>3

LEMMA AcquiredSource ==
    ASSUME NEW ss \in [Source -> SourceRecord], NEW s \in Source, ss[s].kind # "free",
           NEW T \in [Source -> Nat], NEW U \in [Source -> Nat], UsedAs(ss, T),
           \A x \in Source : U[x] = T[x] + One(x = s)
    PROVE  /\ AcquireSource(ss, s) \in [Source -> SourceRecord]
           /\ UsedAs(AcquireSource(ss, s), U)
           /\ \A x \in Source : /\ AcquireSource(ss, s)[x].data = ss[x].data
                                /\ AcquireSource(ss, s)[x].kind = ss[x].kind
<1> DEFINE rs == AcquireSource(ss, s)
<1>0. \A x \in Source : /\ ss[x] \in SourceRecord /\ ss[x].use \in Nat /\ ss[x].use = T[x]
                        /\ U[x] = T[x] + One(x = s) /\ U[x] \in Nat
                        /\ ss[x].kind = "free" <=> ss[x] = NoSource
                        /\ ss[x].kind = "memory" => ss[x].use # 0
    BY DEF UsedAs, SourceRecord
<1>1. rs = [ss EXCEPT ![s].use = ss[s].use + 1]
    BY DEF AcquireSource
<1>2. U[s] = T[s] + 1 /\ \A x \in Source : x # s => U[x] = T[x]
    BY <1>0 DEF One
<1>3. ss[s].use + 1 = U[s]
    BY <1>0, <1>2
<1> HIDE DEF rs
<1>4. /\ rs[s] \in SourceRecord /\ rs[s].use = U[s] /\ rs[s].kind = ss[s].kind
      /\ rs[s].data = ss[s].data
    <2> DEFINE y == ss[s]
               n == U[s]
    <2>1. y \in SourceRecord /\ n \in Nat /\ rs[s] = [y EXCEPT !.use = n]
        BY <1>0, <1>1, <1>3
    <2> HIDE DEF y, n
    <2>2. /\ rs[s] \in SourceRecord /\ rs[s].use = n /\ rs[s].kind = y.kind
          /\ rs[s].data = y.data
        BY <2>1 DEF SourceRecord
    <2>3. QED
        BY <2>2 DEF y, n
<1>5. \A x \in Source : x # s => rs[x] = ss[x]
    BY <1>1
<1>6. rs \in [Source -> SourceRecord]
    <2>1. \A x \in Source : rs[x] \in SourceRecord
        BY <1>0, <1>4, <1>5
    <2>2. rs = [x \in Source |-> rs[x]]
        BY <1>1
    <2>3. QED
        BY <2>1, <2>2
<1>7. UsedAs(rs, U)
    <2> SUFFICES ASSUME NEW x \in Source
                 PROVE  /\ rs[x].use = U[x] /\ (rs[x].kind = "free" <=> rs[x] = NoSource)
                        /\ rs[x].kind = "memory" => rs[x].use # 0
        BY DEF UsedAs
    <2>1. CASE x = s
        <3>1. rs[s].kind # "free" /\ rs[s] # NoSource
            BY <1>4 DEF NoSource
        <3>2. U[s] # 0
            BY <1>0, <1>2
        <3>3. QED
            BY <1>4, <2>1, <3>1, <3>2
    <2>2. CASE x # s
        BY <1>0, <1>2, <1>5, <2>2
    <2>3. QED
        BY <2>1, <2>2
<1>8. QED
    BY <1>4, <1>5, <1>6, <1>7 DEF rs

OneMore(ss, T, U) ==
    /\ ss \in [Source -> SourceRecord] /\ Fresh(ss) # {}
    /\ T \in [Source -> Nat] /\ U \in [Source -> Nat] /\ UsedAs(ss, T)
    /\ \A x \in Source : U[x] = T[x] + One(x = Min(Fresh(ss)))

LEMMA CreatedSource ==
    ASSUME NEW ss, NEW T, NEW U, OneMore(ss, T, U),
           NEW kind \in {"file", "external", "memory"}, NEW path \in Path \cup {Lost},
           NEW data \in Int
    PROVE  LET rs == NewSource(ss, kind, path, data) IN
           /\ Min(Fresh(ss)) \in Source /\ rs[Min(Fresh(ss))].kind = kind
           /\ T[Min(Fresh(ss))] = 0
           /\ rs \in [Source -> SourceRecord]
           /\ UsedAs(rs, U)
           /\ \A x \in Source : T[x] # 0 => rs[x].data = ss[x].data
           /\ \A x \in Source : ss[x].kind # "free" => rs[x].kind = ss[x].kind
<1> DEFINE rs == NewSource(ss, kind, path, data)
           s  == Min(Fresh(ss))
           n  == [kind |-> kind, use |-> 1, path |-> path, data |-> data]
<1>0. \A x \in Source : /\ ss[x] \in SourceRecord /\ ss[x].use \in Nat /\ ss[x].use = T[x]
                        /\ U[x] = T[x] + One(x = s) /\ U[x] \in Nat
                        /\ ss[x].kind = "free" <=> ss[x] = NoSource
                        /\ ss[x].kind = "memory" => ss[x].use # 0
    BY DEF OneMore, UsedAs, SourceRecord
<1>1. s \in Fresh(ss) /\ ss \in [Source -> SourceRecord]
    <2>1. Fresh(ss) \in SUBSET Nat /\ Fresh(ss) # {} /\ ss \in [Source -> SourceRecord]
        BY BoxFinite DEF Fresh, OneMore
    <2>2. QED
        BY <2>1, MinIsIn
<1>2. s \in Source /\ ss[s].kind = "free"
    BY <1>1 DEF Fresh
<1>3. rs = [ss EXCEPT ![s] = n]
    BY DEF NewSource
<1>4. n \in SourceRecord /\ n.kind = kind /\ n.use = 1 /\ n # NoSource
    BY DEF SourceRecord, NoSource
<1> HIDE DEF rs, s, n
<1>5. T[s] = 0
    BY <1>0, <1>2 DEF NoSource
<1>6. U[s] = 1 /\ \A x \in Source : x # s => U[x] = T[x]
    BY <1>0, <1>2, <1>5 DEF One
<1>7. rs[s] = n /\ \A x \in Source : x # s => rs[x] = ss[x]
    BY <1>1, <1>2, <1>3
<1>8. rs \in [Source -> SourceRecord]
    BY <1>1, <1>3, <1>4
<1>9. UsedAs(rs, U)
    <2> SUFFICES ASSUME NEW x \in Source
                 PROVE  /\ rs[x].use = U[x] /\ (rs[x].kind = "free" <=> rs[x] = NoSource)
                        /\ rs[x].kind = "memory" => rs[x].use # 0
        BY DEF UsedAs
    <2>1. CASE x = s
        BY <1>4, <1>6, <1>7, <2>1
    <2>2. CASE x # s
        BY <1>0, <1>6, <1>7, <2>2
    <2>3. QED
        BY <2>1, <2>2
<1>10. QED
    BY <1>2, <1>4, <1>5, <1>7, <1>8, <1>9 DEF rs, s

-----------------------------------------------------------------------------
(***************************************************************************)
(* The last reference on a box is released.                                *)
(***************************************************************************)
Uses(bs, V) == [s \in Source |-> V[s] + Cardinality(Owners(bs, s))]

LEMMA UsesType ==
    ASSUME NEW bs, NEW V \in [Source -> Nat]
    PROVE  /\ Uses(bs, V) \in [Source -> Nat]
           /\ \A s \in Source : Uses(bs, V)[s] = V[s] + Cardinality(Owners(bs, s))
BY InsideType DEF Uses

LEMMA SourcesAreUsed ==
    ASSUME NEW bs, NEW ss, NEW V \in [Source -> Nat]
    PROVE  SourceCounts(bs, ss, V) <=> UsedAs(ss, Uses(bs, V))
BY DEF SourceCounts, UsedAs, Uses

(* A box that nothing is in is emptied: the others are where they were.    *)
LEMMA FreedStructure ==
    ASSUME NEW bs \in [Box -> BoxRecord], Structure(bs), NEW b \in Box, Inside(bs, b) = 0
    PROVE  /\ [bs EXCEPT ![b] = NoBox] \in [Box -> BoxRecord]
           /\ Structure([bs EXCEPT ![b] = NoBox])
<1> DEFINE cs == [bs EXCEPT ![b] = NoBox]
<1>1. NoBox \in BoxRecord
    BY ReferenceAssumption DEF NoBox, BoxRecord, Nowhere
<1>2. cs[b] = NoBox /\ (\A x \in Box : x # b => cs[x] = bs[x]) /\ cs \in [Box -> BoxRecord]
    BY <1>1
<1> HIDE DEF cs
<1>3. \A x \in Box : bs[x].parent # b /\ bs[x].scope # b
    BY InsideNone DEF Children, Scoped
<1>4. ASSUME NEW x \in Box PROVE Placed(cs, x) /\ Filled(cs, x)
    <2>1. CASE x = b
        BY <1>2, <2>1 DEF Placed, Filled, NoBox, None
    <2>2. CASE x # b
        <3>1. Placed(bs, x) /\ Filled(bs, x)
            BY DEF Structure
        <3>2. /\ bs[x].parent \in Box \cup {None} /\ bs[x].scope \in Box \cup {None}
              /\ cs[x] = bs[x]
            BY <1>2, <2>2 DEF BoxRecord
        <3>3. /\ bs[x].parent # None => cs[bs[x].parent] = bs[bs[x].parent]
              /\ bs[x].scope # None => cs[bs[x].scope] = bs[bs[x].scope]
            BY <1>2, <1>3, <3>2
        <3>4. QED
            BY <3>1, <3>2, <3>3 DEF Placed, Filled
    <2>3. QED
        BY <2>1, <2>2
<1>5. QED
    BY <1>2, <1>4 DEF Structure, cs

Freed(st, b) ==
    [st EXCEPT !.boxes = [st.boxes EXCEPT ![b] = NoBox],
               !.src = IF st.boxes[b].owns THEN ReleaseSource(st.src, st.boxes[b].ds)
                       ELSE st.src]

LEMMA FreedIsGood ==
    ASSUME NEW st, NEW E, NEW V, NEW K, NEW W, Good(st, E, V, K, W),
           NEW b \in Box, st.boxes[b].use = 1, E[b] # 0,
           NEW F \in [Box -> Nat],
           \A x \in Box : F[x] + One(x = b)
                          = E[x] + One(x = st.boxes[b].parent) + One(x = st.boxes[b].scope),
           \A w \in W : w.box # b
    PROVE  Good(Freed(st, b), F, V, K, W) /\ st.boxes[b].kind # "free"
<1> DEFINE bs == st.boxes
           cs == [bs EXCEPT ![b] = NoBox]
           ss == st.src
           rs == IF bs[b].owns THEN ReleaseSource(ss, bs[b].ds) ELSE ss
<1>0. /\ st \in State /\ bs \in [Box -> BoxRecord] /\ E \in [Box -> Nat]
      /\ V \in [Source -> Nat] /\ ss \in [Source -> SourceRecord]
      /\ \A x \in Box : /\ bs[x].use \in Nat /\ Inside(bs, x) \in Nat
                        /\ bs[x].use = E[x] + Inside(bs, x)
                        /\ bs[x].use = 0 <=> bs[x].kind = "free"
    BY GoodType
<1>1. E[b] = 1 /\ Inside(bs, b) = 0 /\ bs[b].kind # "free" /\ bs[b].use = 1
    BY <1>0
<1>2. cs \in [Box -> BoxRecord] /\ Structure(cs) /\ Structure(bs)
    BY <1>0, <1>1, FreedStructure DEF Good
<1>3. cs[b] = NoBox /\ \A x \in Box : x # b => cs[x] = bs[x]
    BY <1>0
<1>4. bs[b].parent # b /\ bs[b].scope # b
    BY <1>1, InsideNone DEF Children, Scoped
<1> HIDE DEF cs
<1>5. BoxCounts(cs, F)
    <2> SUFFICES ASSUME NEW x \in Box
                 PROVE  cs[x].use = F[x] + Inside(cs, x) /\ (cs[x].use = 0 <=> cs[x].kind = "free")
        BY DEF BoxCounts
    <2>1. Inside(cs, x) + One(bs[b].parent = x) + One(bs[b].scope = x)
          = Inside(bs, x) + One(cs[b].parent = x) + One(cs[b].scope = x)
        <3>1. \A c \in Box \ {b} : cs[c].parent = bs[c].parent /\ cs[c].scope = bs[c].scope
            BY <1>3
        <3> HIDE DEF bs
        <3>2. QED
            BY <3>1, InsideUpdate, SMT DEF One
    <2>2. One(cs[b].parent = x) = 0 /\ One(cs[b].scope = x) = 0
        BY <1>3, BoxFinite DEF NoBox, One
    <2>3. /\ Inside(cs, x) \in Nat /\ Inside(bs, x) \in Nat /\ F[x] \in Nat /\ E[x] \in Nat
          /\ bs[x].use \in Nat /\ bs[x].use = E[x] + Inside(bs, x)
          /\ bs[x].use = 0 <=> bs[x].kind = "free"
        BY <1>0, InsideType
    <2>4. F[x] + One(x = b) = E[x] + One(x = bs[b].parent) + One(x = bs[b].scope)
        OBVIOUS
    <2>5. /\ One(x = bs[b].parent) = One(bs[b].parent = x)
          /\ One(x = bs[b].scope) = One(bs[b].scope = x)
          /\ One(bs[b].parent = x) \in Nat /\ One(bs[b].scope = x) \in Nat
        BY DEF One
    <2> HIDE DEF bs
    <2>6. CASE x = b
        <3>1. F[x] = 0 /\ Inside(cs, x) = 0
            BY <1>1, <1>4, <2>1, <2>2, <2>3, <2>4, <2>5, <2>6 DEF One
        <3>2. QED
            BY <1>3, <2>6, <3>1 DEF NoBox
    <2>7. CASE x # b
        <3>1. F[x] + Inside(cs, x) = E[x] + Inside(bs, x)
            BY <2>1, <2>2, <2>3, <2>4, <2>5, <2>7 DEF One
        <3>2. QED
            BY <1>3, <2>3, <2>7, <3>1
    <2>8. QED
        BY <2>6, <2>7
<1>6. /\ rs \in [Source -> SourceRecord] /\ UsedAs(rs, Uses(cs, V))
      /\ \A x \in Source : Uses(cs, V)[x] # 0 => rs[x].data = ss[x].data
      /\ \A x \in Source : ss[x].kind = "file" => rs[x].kind = "file"
    <2> DEFINE T == Uses(bs, V)
               U == Uses(cs, V)
    <2>1. T \in [Source -> Nat] /\ U \in [Source -> Nat] /\ UsedAs(ss, T)
        BY <1>0, UsesType, SourcesAreUsed DEF Good
    <2>2. ASSUME NEW s \in Source PROVE T[s] = U[s] + One(bs[b].owns /\ bs[b].ds = s)
        <3>1. Cardinality(Owners(cs, s)) + One(bs[b].owns /\ bs[b].ds = s)
              = Cardinality(Owners(bs, s)) + One(cs[b].owns /\ cs[b].ds = s)
            <4>1. \A c \in Box \ {b} : cs[c].owns = bs[c].owns /\ cs[c].ds = bs[c].ds
                BY <1>3
            <4> HIDE DEF bs
            <4>2. QED
                BY <4>1, OwnersUpdate
        <3>2. One(cs[b].owns /\ cs[b].ds = s) = 0
            BY <1>3 DEF NoBox, One
        <3>3. /\ T[s] = V[s] + Cardinality(Owners(bs, s)) /\ U[s] = V[s] + Cardinality(Owners(cs, s))
              /\ V[s] \in Nat /\ Cardinality(Owners(bs, s)) \in Nat
              /\ Cardinality(Owners(cs, s)) \in Nat
            BY <1>0, UsesType, InsideType
        <3> HIDE DEF T, U, bs
        <3>4. QED
            BY <3>1, <3>2, <3>3 DEF One
    <2> HIDE DEF T, U
    <2>3. CASE bs[b].owns
        <3>1. rs = ReleaseSource(ss, bs[b].ds) /\ bs[b].ds \in Source \cup {None}
            BY <1>0, <2>3 DEF BoxRecord
        <3>2. \A s \in Source : T[s] = U[s] + One(s = bs[b].ds)
            BY <2>2, <2>3 DEF One
        <3> HIDE DEF rs, bs, ss
        <3>3. /\ rs \in [Source -> SourceRecord] /\ UsedAs(rs, U)
              /\ \A x \in Source : U[x] # 0 => rs[x].data = ss[x].data
              /\ \A x \in Source : ss[x].kind = "file" => rs[x].kind = "file"
            <4>1. ss \in [Source -> SourceRecord]
                BY <1>0
            <4>2. QED
                BY <2>1, <3>1, <3>2, <4>1, ReleasedSource
        <3>4. QED
            BY <3>3 DEF U
    <2>4. CASE ~bs[b].owns
        <3>1. rs = ss /\ \A s \in Source : T[s] = U[s]
            BY <2>1, <2>2, <2>4 DEF One
        <3>2. UsedAs(rs, U)
            BY <2>1, <3>1 DEF UsedAs
        <3> HIDE DEF rs
        <3>3. QED
            BY <1>0, <3>1, <3>2 DEF U
    <2>5. QED
        BY <2>3, <2>4
<1> HIDE DEF rs
<1>7. ASSUME NEW w \in W
      PROVE  /\ w.ds \in Source /\ rs[w.ds].data = w.data
             /\ w.box = None => V[w.ds] # 0
             /\ w.box # None => /\ w.box \in Box /\ F[w.box] # 0
                                /\ cs[w.box].applied /\ cs[w.box].ds = w.ds
    <2>1. Watched(st, E, V, w) /\ w.box # b
        BY DEF Good
    <2>2. CASE w.box = None
        <3>1. V[w.ds] # 0 /\ w.ds \in Source /\ ss[w.ds].data = w.data
            BY <2>1, <2>2 DEF Watched
        <3>2. Uses(cs, V)[w.ds] # 0
            BY <1>0, <3>1, UsesType, InsideType
        <3>3. QED
            BY <1>6, <2>2, <3>1, <3>2
    <2>3. CASE w.box # None
        <3>1. /\ w.box \in Box /\ w.box # b /\ E[w.box] # 0 /\ bs[w.box].applied
              /\ bs[w.box].ds = w.ds /\ w.ds \in Source /\ ss[w.ds].data = w.data
            BY <2>1, <2>3 DEF Watched
        <3>2. F[w.box] # 0
            <4> DEFINE x == w.box
            <4>1. /\ F[x] + One(x = b) = E[x] + One(x = bs[b].parent) + One(x = bs[b].scope)
                  /\ F[x] \in Nat /\ E[x] \in Nat /\ x # b /\ E[x] # 0
                BY <1>0, <3>1
            <4> HIDE DEF x, bs
            <4>2. F[x] # 0
                BY <4>1 DEF One
            <4>3. QED
                BY <4>2 DEF x
        <3>3. cs[w.box].applied /\ cs[w.box].ds = w.ds
            BY <1>3, <3>1
        <3>4. Owners(cs, w.ds) # {}
            BY <1>2, <3>1, <3>3, HasOwner
        <3>5. Uses(cs, V)[w.ds] # 0
            BY <1>0, <3>1, <3>4, UsesType, InsideType
        <3>6. QED
            BY <1>6, <2>3, <3>1, <3>2, <3>3, <3>5
    <2>4. QED
        BY <2>2, <2>3
<1>8. /\ Freed(st, b).boxes = cs /\ Freed(st, b).src = rs
      /\ Freed(st, b).cache = st.cache /\ Freed(st, b) \in State
    BY <1>0, <1>2, <1>6 DEF Freed, State, cs, rs
<1>9. Cached(Freed(st, b))
    <2>1. \A i \in DOMAIN st.cache : st.cache[i] \in Source /\ ss[st.cache[i]].kind = "file"
        BY <1>0 DEF Good, Cached, State
    <2>2. QED
        BY <1>6, <1>8, <2>1 DEF Cached
<1>10. Sourced(cs, V, K)
    <2>1. Sourced(bs, V, K)
        BY DEF Good
    <2>2. \A x \in Box : cs[x] = bs[x] \/ cs[x].kind = "free"
        BY <1>3 DEF NoBox
    <2>3. QED
        BY <2>1, <2>2 DEF Sourced
<1>11. SourceCounts(cs, rs, V)
    BY <1>0, <1>6, SourcesAreUsed
<1>12. \A w \in W : Watched(Freed(st, b), F, V, w)
    BY <1>7, <1>8 DEF Watched
<1>13. QED
    BY <1>0, <1>1, <1>2, <1>5, <1>8, <1>9, <1>10, <1>11, <1>12 DEF Good

-----------------------------------------------------------------------------
(***************************************************************************)
(* The references that are still to be released: how often a box is one.   *)
(***************************************************************************)
Owed(t, x) == Cardinality({i \in 1 .. Len(t) : t[i] = x})

LEMMA OwedType ==
    ASSUME NEW t \in Seq(Box \cup {None}), NEW x
    PROVE  /\ IsFiniteSet({i \in 1 .. Len(t) : t[i] = x})
           /\ Owed(t, x) \in Nat
<1>1. IsFiniteSet(1 .. Len(t))
    BY FS_Interval
<1>2. IsFiniteSet({i \in 1 .. Len(t) : t[i] = x})
    BY <1>1, FS_Subset
<1>3. QED
    BY <1>2, FS_CardinalityType DEF Owed

LEMMA OwedNone ==
    ASSUME NEW t, t = <<>>, NEW x
    PROVE  Owed(t, x) = 0
<1>1. {i \in 1 .. Len(t) : t[i] = x} = {}
    OBVIOUS
<1>2. QED
    BY <1>1, FS_EmptySet DEF Owed

LEMMA OwedTail ==
    ASSUME NEW t \in Seq(Box \cup {None}), t # <<>>, NEW x
    PROVE  /\ Head(t) \in Box \cup {None} /\ Tail(t) \in Seq(Box \cup {None})
           /\ Len(Tail(t)) = Len(t) - 1 /\ Len(t) \in Nat \ {0}
           /\ Owed(t, x) = One(Head(t) = x) + Owed(Tail(t), x)
<1> DEFINE n == Len(t)
           r == Tail(t)
           S == {i \in 1 .. n : t[i] = x}
           R == {i \in 1 .. Len(r) : r[i] = x}
           S1 == S \ {1}
           f == [i \in R |-> i + 1]
<1>1. n \in Nat \ {0} /\ Len(r) = n - 1 /\ r \in Seq(Box \cup {None})
    OBVIOUS
<1>2. \A i \in 1 .. (n - 1) : r[i] = t[i + 1]
    OBVIOUS
<1>3. Head(t) = t[1] /\ Head(t) \in Box \cup {None}
    OBVIOUS
<1>4. IsFiniteSet(S) /\ IsFiniteSet(R)
    BY <1>1, OwedType
<1> HIDE DEF n, r
<1>5. f \in Bijection(R, S1)
    <2>1. \A i \in R : i \in Nat /\ i + 1 \in S1
        BY <1>1, <1>2
    <2>2. f \in [R -> S1]
        BY <2>1
    <2>3. \A i, j \in R : f[i] = f[j] => i = j
        BY <2>1
    <2>4. ASSUME NEW j \in S1 PROVE \E i \in R : f[i] = j
        <3>1. j - 1 \in R
            BY <1>1, <1>2
        <3>2. f[j - 1] = j
            BY <3>1
        <3>3. QED
            BY <3>1, <3>2
    <2> HIDE DEF f, R, S1
    <2>5. f \in Injection(R, S1)
        BY <2>2, <2>3, Fun_IsInj
    <2>6. f \in Surjection(R, S1)
        BY <2>2, <2>4, Fun_IsSurj
    <2>7. QED
        BY <2>5, <2>6 DEF Bijection
<1>6. Cardinality(R) = Cardinality(S1)
    <2>1. ExistsBijection(R, S1)
        BY <1>5 DEF ExistsBijection
    <2> HIDE DEF R, S1
    <2>2. QED
        BY <1>4, <2>1, FS_Bijection
<1>7. Cardinality(S) = One(t[1] = x) + Cardinality(S1)
    <2>1. (1 \in S) <=> (t[1] = x)
        BY <1>1
    <2>2. Cardinality(S) \in Nat
        BY <1>4, FS_CardinalityType
    <2>3. CASE t[1] = x
        <3>1. Cardinality(S1) = Cardinality(S) - 1
            BY <1>4, <2>1, <2>3, FS_RemoveElement
        <3>2. QED
            BY <2>2, <2>3, <3>1 DEF One
    <2>4. CASE t[1] # x
        <3>1. S1 = S
            BY <2>1, <2>4
        <3> HIDE DEF S, S1
        <3>2. QED
            BY <2>2, <2>4, <3>1 DEF One
    <2>5. QED
        BY <2>3, <2>4
<1>8. Owed(t, x) = Cardinality(S) /\ Owed(r, x) = Cardinality(R)
    BY DEF Owed, n
<1>9. QED
    BY <1>1, <1>3, <1>6, <1>7, <1>8 DEF n, r

(* A pair put before a sequence, or one element after the other.           *)
LEMMA PairThen ==
    ASSUME NEW D, NEW t \in Seq(D), NEW p \in D, NEW s \in D
    PROVE  <<p, s>> \o t = <<p>> \o (<<s>> \o t)
<1> DEFINE l == <<p, s>> \o t
           r == <<s>> \o t
           q == <<p>> \o r
           n == Len(t)
<1>1. n \in Nat
    OBVIOUS
<1>2. /\ l \in Seq(D) /\ Len(l) = n + 2
      /\ \A i \in 1 .. n + 2 : l[i] = IF i <= 2 THEN <<p, s>>[i] ELSE t[i - 2]
    OBVIOUS
<1>3. r \in Seq(D) /\ Len(r) = n + 1 /\ \A i \in 1 .. n + 1 : r[i] = IF i <= 1 THEN s ELSE t[i - 1]
    OBVIOUS
<1> HIDE DEF r
<1>4. q \in Seq(D) /\ Len(q) = n + 2 /\ \A i \in 1 .. n + 2 : q[i] = IF i <= 1 THEN p ELSE r[i - 1]
    BY <1>3
<1> HIDE DEF l, q, n
<1>5. ASSUME NEW i \in 1 .. n + 2 PROVE l[i] = q[i]
    <2>1. CASE i = 1
        BY <1>1, <1>2, <1>4, <2>1
    <2>2. CASE i = 2
        BY <1>1, <1>2, <1>3, <1>4, <2>2
    <2>3. CASE i > 2
        <3>1. l[i] = t[i - 2]
            <4>1. i \in 1 .. n + 2 /\ ~(i <= 2)
                BY <1>1, <2>3
            <4>2. QED
                BY <1>2, <4>1, Zenon
        <3>2. i - 1 \in 1 .. n + 1 /\ ~(i <= 1) /\ ~(i - 1 <= 1) /\ (i - 1) - 1 = i - 2
            BY <1>1, <2>3
        <3>3. q[i] = r[i - 1]
            BY <1>4, <3>2
        <3>4. r[i - 1] = t[(i - 1) - 1]
            BY <1>3, <3>2, Zenon
        <3>5. QED
            BY <3>1, <3>2, <3>3, <3>4
    <2>4. QED
        BY <1>1, <2>1, <2>2, <2>3
<1>6. l = q
    BY <1>2, <1>4, <1>5, SeqEqual
<1>7. QED
    BY <1>6 DEF l, q, r

LEMMA OwedCons ==
    ASSUME NEW t \in Seq(Box \cup {None}), NEW p \in Box \cup {None}, NEW q, q = <<p>> \o t
    PROVE  /\ q \in Seq(Box \cup {None}) /\ Len(q) = Len(t) + 1 /\ q # <<>>
           /\ Head(q) = p /\ Tail(q) = t
OBVIOUS

-----------------------------------------------------------------------------
(***************************************************************************)
(* box_delete(): the references of a work list are released one by one.    *)
(***************************************************************************)
Fewer(bs, cs) == \A x \in Box : cs[x].kind = "free" \/ SameBox(cs[x], bs[x])
Taken(bs)     == {x \in Box : bs[x].kind # "free"}
Pending(w, E) == [x \in Box |-> E[x] + Owed(w.todo, x)]
WorkRecord    == [st : State, todo : Seq(Box \cup {None})]

Going(w, E, V, K, W, bs) ==
    /\ w \in WorkRecord
    /\ Good(w.st, Pending(w, E), V, K, W)
    /\ Fewer(bs, w.st.boxes)
Left(w) == Len(w.todo) + 2 * Cardinality(Taken(w.st.boxes))

LEMMA FewerTwice ==
    ASSUME NEW bs, NEW cs, NEW ds, Fewer(bs, cs), Fewer(cs, ds)
    PROVE  Fewer(bs, ds)
BY DEF Fewer, SameBox

LEMMA TakenType ==
    ASSUME NEW bs
    PROVE  /\ IsFiniteSet(Taken(bs)) /\ Cardinality(Taken(bs)) \in Nat
           /\ Cardinality(Taken(bs)) <= Cardinality(Box)
<1>1. Taken(bs) \subseteq Box
    BY Zenon DEF Taken
<1>2. QED
    BY <1>1, BoxFinite, FS_Subset, FS_CardinalityType

(* What is released next, in each case.                                    *)
LEMMA ReleaseNextIs ==
    ASSUME NEW w \in WorkRecord
    PROVE  LET b == Head(w.todo)
           IN  /\ w.todo = <<>> => ReleaseNext(w) = w
               /\ w.todo # <<>> /\ b = None =>
                    ReleaseNext(w) = [st |-> w.st, todo |-> Tail(w.todo)]
               /\ w.todo # <<>> /\ b # None /\ w.st.boxes[b].use # 1 =>
                    ReleaseNext(w) =
                        [st   |-> [w.st EXCEPT !.boxes =
                                        [w.st.boxes EXCEPT ![b].use = w.st.boxes[b].use - 1]],
                         todo |-> Tail(w.todo)]
               /\ w.todo # <<>> /\ b # None /\ w.st.boxes[b].use = 1 =>
                    ReleaseNext(w) =
                        [st   |-> Freed(w.st, b),
                         todo |-> <<w.st.boxes[b].parent, w.st.boxes[b].scope>> \o Tail(w.todo)]
<1> DEFINE b == Head(w.todo)
           x == w.st.boxes[b]
<1>1. w = [st |-> w.st, todo |-> w.todo]
    BY DEF WorkRecord
<1>2. CASE w.todo = <<>>
    BY <1>2 DEF ReleaseNext
<1>3. CASE w.todo # <<>> /\ b = None
    <2>1. ReleaseNext(w) = [w EXCEPT !.todo = Tail(w.todo)]
        BY <1>3 DEF ReleaseNext
    <2>2. QED
        BY <1>1, <1>3, <2>1
<1>4. CASE w.todo # <<>> /\ b # None /\ x.use # 1
    <2>1. ReleaseNext(w) = [w EXCEPT !.todo = Tail(w.todo),
                                     !.st = [w.st EXCEPT !.boxes =
                                                [w.st.boxes EXCEPT ![b].use = x.use - 1]]]
        BY <1>4 DEF ReleaseNext
    <2>2. QED
        BY <1>1, <1>4, <2>1
<1>5. CASE w.todo # <<>> /\ b # None /\ x.use = 1
    BY <1>5 DEF ReleaseNext, Freed
<1>6. QED
    BY <1>2, <1>3, <1>4, <1>5

LEMMA ReleasedNext ==
    ASSUME NEW w, NEW E \in [Box -> Nat], NEW V, NEW K, NEW W, NEW bs,
           Going(w, E, V, K, W, bs),
           \A y \in W : y.box # None => y.box \in Box /\ E[y.box] # 0
    PROVE  /\ Going(ReleaseNext(w), E, V, K, W, bs)
           /\ w.todo = <<>> => ReleaseNext(w).todo = <<>>
           /\ w.todo # <<>> => Left(ReleaseNext(w)) + 1 <= Left(w)
<1> DEFINE b == Head(w.todo)
           t == Tail(w.todo)
           P == Pending(w, E)
           x == w.st.boxes[b]
           r == ReleaseNext(w)
<1>1. w \in WorkRecord /\ Good(w.st, P, V, K, W) /\ Fewer(bs, w.st.boxes)
    BY DEF Going
<1>2. w.todo \in Seq(Box \cup {None}) /\ w.st \in State /\ w.st.boxes \in [Box -> BoxRecord]
    BY <1>1 DEF WorkRecord, State
<1>3. CASE w.todo = <<>>
    <2>1. r = w
        BY <1>1, <1>3, ReleaseNextIs
    <2>2. QED
        BY <1>3, <2>1
<1>4. CASE w.todo # <<>>
    <2>1. /\ b \in Box \cup {None} /\ t \in Seq(Box \cup {None})
          /\ Len(t) = Len(w.todo) - 1 /\ Len(w.todo) \in Nat \ {0}
          /\ \A y \in Box : Owed(w.todo, y) = One(b = y) + Owed(t, y)
        BY <1>2, <1>4, OwedTail
    <2>2. \A y \in Box : Owed(t, y) \in Nat
        BY <2>1, OwedType
    <2> DEFINE Q == [y \in Box |-> E[y] + Owed(t, y)]
    <2>3. /\ Q \in [Box -> Nat]
          /\ \A y \in Box : P[y] = Q[y] + One(y = b) /\ Q[y] = E[y] + Owed(t, y)
        BY <2>1, <2>2 DEF Pending, One
    <2>4. \A y \in W : y.box # None => y.box \in Box /\ Q[y.box] # 0
        BY <2>2, <2>3
    <2>5. Cardinality(Taken(w.st.boxes)) \in Nat
        BY TakenType
    <2>6. CASE b = None
        <3>1. r = [st |-> w.st, todo |-> t]
            BY <1>1, <1>4, <2>6, ReleaseNextIs
        <3>2. P = Q
            <4>1. P = [y \in Box |-> E[y] + Owed(w.todo, y)]
                BY DEF Pending
            <4>2. \A y \in Box : Owed(w.todo, y) = Owed(t, y)
                BY <2>1, <2>2, <2>6, BoxFinite DEF One
            <4>3. QED
                BY <4>1, <4>2
        <3>3. Going(r, E, V, K, W, bs)
            BY <1>1, <1>2, <2>1, <3>1, <3>2 DEF Going, Pending, WorkRecord
        <3>4. Left(r) + 1 <= Left(w)
            BY <2>1, <2>5, <3>1, SMTT(60) DEF Left
        <3>5. QED
            BY <1>4, <3>3, <3>4
    <2>7. CASE b # None /\ x.use # 1
        <3> DEFINE cs == [w.st.boxes EXCEPT ![b].use = x.use - 1]
                   st2 == [w.st EXCEPT !.boxes = cs]
        <3>1. r = [st |-> st2, todo |-> t] /\ b \in Box
            BY <1>1, <1>4, <2>1, <2>7, ReleaseNextIs
        <3>2. Good(st2, Q, V, K, W)
            <4>1. P[b] # 0
                BY <2>3, <3>1 DEF One
            <4>2. b \in Box /\ w.st.boxes[b].use # 1 /\ Good(w.st, P, V, K, W)
                BY <1>1, <2>7, <3>1
            <4> HIDE DEF Q, P, b
            <4>3. Good([w.st EXCEPT !.boxes = [w.st.boxes EXCEPT ![b].use = w.st.boxes[b].use - 1]],
                       Q, V, K, W)
                BY <2>3, <2>4, <4>1, <4>2, Lowered, SMTT(60)
            <4>4. QED
                BY <4>3
        <3>3. st2 \in State /\ st2.boxes = cs
            BY <1>2, <3>2 DEF Good, State
        <3>4. \A y \in Box : SameBox(cs[y], w.st.boxes[y])
            <4> SUFFICES ASSUME NEW y \in Box PROVE SameBox(cs[y], w.st.boxes[y])
                OBVIOUS
            <4>1. CASE y = b
                <5> DEFINE z == w.st.boxes[b]
                           k == x.use - 1
                <5>1. z \in BoxRecord /\ cs[y] = [z EXCEPT !.use = k]
                    BY <1>2, <3>1, <4>1
                <5> HIDE DEF z, k, cs
                <5>2. SameBox(cs[y], z)
                    BY <5>1 DEF SameBox, BoxRecord
                <5>3. QED
                    BY <4>1, <5>2 DEF z
            <4>2. CASE y # b
                BY <1>2, <3>1, <4>2 DEF SameBox
            <4>3. QED
                BY <4>1, <4>2
        <3> HIDE DEF cs, st2, r
        <3>5. Fewer(bs, r.st.boxes)
            BY <1>1, <3>1, <3>3, <3>4 DEF Fewer, SameBox
        <3>6. Going(r, E, V, K, W, bs)
            BY <1>1, <2>1, <3>1, <3>2, <3>3, <3>5 DEF Going, Pending, WorkRecord
        <3>7. Taken(r.st.boxes) = Taken(w.st.boxes)
            BY <3>1, <3>3, <3>4 DEF Taken, SameBox
        <3>8. Left(r) + 1 <= Left(w)
            BY <2>1, <2>5, <3>1, <3>7 DEF Left
        <3>9. QED
            BY <1>4, <3>6, <3>8 DEF r
    <2>8. CASE b # None /\ x.use = 1
        <3> DEFINE p == x.parent
                   s == x.scope
                   u == <<s>> \o t
                   todo == <<p, s>> \o t
                   F == [y \in Box |-> E[y] + Owed(todo, y)]
                   st2 == Freed(w.st, b)
        <3>1. r = [st |-> st2, todo |-> todo] /\ b \in Box
            BY <1>1, <1>4, <2>1, <2>8, ReleaseNextIs
        <3>2. p \in Box \cup {None} /\ s \in Box \cup {None}
            BY <1>2, <3>1 DEF BoxRecord
        <3>3. /\ todo \in Seq(Box \cup {None}) /\ Len(todo) = Len(t) + 2
              /\ \A y \in Box : Owed(todo, y) = One(p = y) + (One(s = y) + Owed(t, y))
            <4>1. /\ u \in Seq(Box \cup {None}) /\ Len(u) = Len(t) + 1
                  /\ \A y \in Box : Owed(u, y) = One(s = y) + Owed(t, y)
                <5>1. u = <<s>> \o t /\ t \in Seq(Box \cup {None}) /\ s \in Box \cup {None}
                    BY <2>1, <3>2
                <5> HIDE DEF s, t, u
                <5>2. u \in Seq(Box \cup {None}) /\ Len(u) = Len(t) + 1
                    BY <5>1, OwedCons
                <5>3. \A y \in Box : Owed(u, y) = One(s = y) + Owed(t, y)
                    <6>1. u # <<>> /\ Head(u) = s /\ Tail(u) = t
                        BY <5>1, OwedCons
                    <6>2. \A y \in Box : Owed(u, y) = One(Head(u) = y) + Owed(Tail(u), y)
                        BY <5>2, <6>1, OwedTail
                    <6>3. QED
                        BY <6>1, <6>2, Zenon
                <5>4. QED
                    BY <5>2, <5>3
            <4>2. todo = <<p>> \o u
                <5>1. /\ t \in Seq(Box \cup {None})
                      /\ p \in Box \cup {None} /\ s \in Box \cup {None}
                      /\ todo = <<p, s>> \o t /\ u = <<s>> \o t
                    BY <2>1, <3>2
                <5> HIDE DEF p, s, t, u, todo
                <5>2. <<p, s>> \o t = <<p>> \o (<<s>> \o t)
                    BY <5>1, PairThen
                <5>3. QED
                    BY <5>1, <5>2
            <4>3. Len(t) \in Nat
                BY <2>1
            <4> HIDE DEF u, todo, p, s, t
            <4>4. /\ todo \in Seq(Box \cup {None}) /\ Len(todo) = Len(u) + 1
                  /\ \A y \in Box : Owed(todo, y) = One(p = y) + Owed(u, y)
                <5>1. /\ todo \in Seq(Box \cup {None}) /\ Len(todo) = Len(u) + 1
                      /\ todo # <<>> /\ Head(todo) = p /\ Tail(todo) = u
                    BY <3>2, <4>1, <4>2, OwedCons
                <5>2. \A y \in Box : Owed(todo, y) = One(Head(todo) = y) + Owed(Tail(todo), y)
                    BY <5>1, OwedTail
                <5>3. QED
                    BY <5>1, <5>2
            <4>5. QED
                BY <4>1, <4>3, <4>4
        <3>4. /\ F \in [Box -> Nat]
              /\ \A y \in Box : /\ F[y] + One(y = b) = P[y] + One(y = p) + One(y = s)
                                /\ F[y] = E[y] + Owed(todo, y)
            <4> HIDE DEF p, s, todo
            <4>1. \A y \in Box : F[y] = E[y] + Owed(todo, y) /\ F[y] \in Nat
                BY <2>2, <3>3 DEF One
            <4>2. \A y \in Box : One(p = y) = One(y = p) /\ One(s = y) = One(y = s)
                                 /\ One(y = b) \in Nat /\ One(y = p) \in Nat /\ One(y = s) \in Nat
                BY DEF One
            <4>3. F \in [Box -> Nat]
                BY <4>1
            <4> HIDE DEF F, P, Q
            <4>4. ASSUME NEW y \in Box
                  PROVE  F[y] + One(y = b) = P[y] + One(y = p) + One(y = s)
                <5>1. F[y] = E[y] + (One(y = p) + (One(y = s) + Owed(t, y)))
                    BY <3>3, <4>1, <4>2
                <5>2. P[y] = E[y] + Owed(t, y) + One(y = b) /\ E[y] \in Nat /\ Owed(t, y) \in Nat
                    BY <2>2, <2>3
                <5>3. QED
                    BY <4>2, <5>1, <5>2
            <4>5. QED
                BY <4>1, <4>3, <4>4
        <3>5. P[b] # 0 /\ \A y \in W : y.box # b
            <4>1. P[b] = Q[b] + 1 /\ Q[b] \in Nat
                BY <2>3, <3>1 DEF One
            <4>2. P[b] + Inside(w.st.boxes, b) = 1 /\ Inside(w.st.boxes, b) \in Nat
                <5> HIDE DEF P, Q
                <5>1. QED
                    BY <1>1, <2>8, <3>1, GoodType, SMTT(60)
            <4>3. Q[b] = 0
                BY <4>1, <4>2
            <4>4. QED
                BY <2>4, <2>8, <4>1, <4>3
        <3>6. Good(st2, F, V, K, W) /\ x.kind # "free"
            <4>1. /\ b \in Box /\ w.st.boxes[b].use = 1 /\ Good(w.st, P, V, K, W)
                  /\ P[b] # 0 /\ \A y \in W : y.box # b
                  /\ F \in [Box -> Nat]
                  /\ \A y \in Box :
                        F[y] + One(y = b)
                        = P[y] + One(y = w.st.boxes[b].parent) + One(y = w.st.boxes[b].scope)
                BY <1>1, <2>8, <3>1, <3>4, <3>5
            <4> HIDE DEF F, P, Q, b
            <4>2. Good(Freed(w.st, b), F, V, K, W) /\ w.st.boxes[b].kind # "free"
                BY <4>1, FreedIsGood
            <4>3. QED
                BY <4>2
        <3>7. st2.boxes = [w.st.boxes EXCEPT ![b] = NoBox] /\ st2 \in State
            BY <1>2, <3>6 DEF Freed, State, Good
        <3> HIDE DEF st2, F, todo
        <3>8. Going(r, E, V, K, W, bs)
            <4>1. F = Pending(r, E)
                BY <3>1 DEF F, Pending
            <4>2. Fewer(bs, r.st.boxes)
                BY <1>1, <1>2, <3>1, <3>7 DEF Fewer, NoBox
            <4>3. r \in WorkRecord
                BY <3>1, <3>3, <3>7 DEF WorkRecord
            <4>4. QED
                BY <3>1, <3>6, <4>1, <4>2, <4>3 DEF Going
        <3>9. Taken(st2.boxes) = Taken(w.st.boxes) \ {b} /\ b \in Taken(w.st.boxes)
            BY <1>2, <3>1, <3>6, <3>7 DEF Taken, NoBox
        <3>10. Cardinality(Taken(st2.boxes)) = Cardinality(Taken(w.st.boxes)) - 1
            <4> DEFINE A == Taken(st2.boxes)
                       B == Taken(w.st.boxes)
            <4>1. A = B \ {b} /\ b \in B /\ IsFiniteSet(B)
                BY <3>9, TakenType
            <4> HIDE DEF A, B, b
            <4>2. Cardinality(A) = Cardinality(B) - 1
                BY <4>1, FS_RemoveElement
            <4>3. QED
                BY <4>2 DEF A, B
        <3>11. Left(r) + 1 <= Left(w)
            BY <2>1, <2>5, <3>1, <3>3, <3>10 DEF Left
        <3>12. QED
            BY <1>4, <3>8, <3>11
    <2>9. QED
        BY <2>6, <2>7, <2>8
<1>5. QED
    BY <1>3, <1>4

(* A reference is released, and those that the boxes it frees have.        *)
LEMMA Deleted ==
    ASSUME NEW st, NEW E, NEW V, NEW K, NEW W, Good(st, E, V, K, W),
           NEW b \in Box \cup {None},
           NEW F \in [Box -> Nat], \A x \in Box : E[x] = F[x] + One(x = b),
           \A y \in W : y.box # None => F[y.box] # 0
    PROVE  /\ Good(DeleteBox(st, b), F, V, K, W)
           /\ Fewer(st.boxes, DeleteBox(st, b).boxes)
<1> DEFINE M == MaxReleases
           bs == st.boxes
           w0 == [st |-> st, todo |-> <<b>>]
           X == [n \in 0 .. M |->
                    {w \in WorkRecord : /\ Going(w, F, V, K, W, bs)
                                        /\ w.todo = <<>> \/ Left(w) + n <= M}]
           R == [w \in WorkRecord |-> ReleaseNext(w)]
           S == [n \in 1 .. M |-> R]
           Is(g) == g = [n \in 0 .. M |-> IF n = 0 THEN w0 ELSE ReleaseNext(g[n - 1])]
           g0 == CHOOSE g : Is(g)
<1>0. st \in State /\ E \in [Box -> Nat] /\ Cardinality(Box) \in Nat
    BY GoodType, BoxFinite, FS_CardinalityType
<1>1. M \in Nat /\ M = 2 * Cardinality(Box) + 1
    BY <1>0 DEF MaxReleases
<1>2. w0 \in X[0]
    <2>1. w0 \in WorkRecord /\ w0.st = st /\ w0.todo = <<b>>
        BY <1>0 DEF WorkRecord
    <2>2. Pending(w0, F) = E
        <3>1. \A x \in Box : Owed(<<b>>, x) = One(x = b)
            <4>1. ASSUME NEW x \in Box PROVE Owed(<<b>>, x) = One(b = x)
                <5> DEFINE q == <<b>>
                <5>1. q \in Seq(Box \cup {None}) /\ q # <<>> /\ Head(q) = b /\ Tail(q) = <<>>
                    OBVIOUS
                <5> HIDE DEF q
                <5>2. Owed(q, x) = One(Head(q) = x) + Owed(Tail(q), x)
                    BY <5>1, OwedTail
                <5>3. Owed(Tail(q), x) = 0
                    BY <5>1, OwedNone
                <5>4. Owed(q, x) = One(b = x)
                    BY <5>1, <5>2, <5>3 DEF One
                <5>5. QED
                    BY <5>4 DEF q
            <4>2. QED
                BY <4>1 DEF One
        <3>2. \A x \in Box : F[x] + Owed(<<b>>, x) = E[x]
            BY <3>1
        <3>3. QED
            BY <1>0, <2>1, <3>2 DEF Pending
    <2>3. Fewer(bs, w0.st.boxes)
        BY <2>1 DEF Fewer, SameBox
    <2> HIDE DEF w0, M
    <2>4. Going(w0, F, V, K, W, bs)
        BY <2>1, <2>2, <2>3 DEF Going
    <2>5. Left(w0) + 0 <= M
        <3>1. Left(w0) = 1 + 2 * Cardinality(Taken(bs))
            BY <2>1 DEF Left
        <3>2. QED
            BY <1>0, <1>1, <3>1, TakenType
    <2>6. QED
        BY <1>1, <2>1, <2>4, <2>5
<1>3. \A y \in W : y.box # None => y.box \in Box /\ F[y.box] # 0
    BY DEF Good, Watched
<1>4. \A n \in 1 .. M : \A w \in X[n - 1] : w \in WorkRecord /\ ReleaseNext(w) \in X[n]
    <2> SUFFICES ASSUME NEW n \in 1 .. M, NEW w \in X[n - 1]
                 PROVE  w \in WorkRecord /\ ReleaseNext(w) \in X[n]
        OBVIOUS
    <2>1. n \in 0 .. M /\ n - 1 \in 0 .. M
        BY <1>1
    <2>2. w \in WorkRecord /\ Going(w, F, V, K, W, bs) /\ (w.todo = <<>> \/ Left(w) + (n - 1) <= M)
        BY <2>1
    <2> DEFINE r == ReleaseNext(w)
    <2>3. /\ Going(r, F, V, K, W, bs)
          /\ w.todo = <<>> => r.todo = <<>>
          /\ w.todo # <<>> => Left(r) + 1 <= Left(w)
        BY <1>3, <2>2, ReleasedNext
    <2> HIDE DEF r, M
    <2>4. r \in WorkRecord
        BY <2>3 DEF Going
    <2>5. r.todo = <<>> \/ Left(r) + n <= M
        <3>1. Left(w) \in Int /\ Left(r) \in Int /\ n \in Int /\ M \in Int
            BY <1>1, <2>2, <2>4, TakenType DEF Left, WorkRecord
        <3>2. QED
            BY <2>2, <2>3, <3>1
    <2>6. QED
        BY <2>1, <2>2, <2>3, <2>4, <2>5 DEF r
<1>5. \E g : Is(g)
    <2>1. \A n \in 1 .. M : \A w \in X[n - 1] : S[n][w] \in X[n]
        BY <1>4
    <2> HIDE DEF X, M, S, w0
    <2>2. PICK g : /\ g = [n \in 0 .. M |-> IF n = 0 THEN w0 ELSE S[n][g[n - 1]]]
                   /\ \A n \in 0 .. M : g[n] \in X[n]
        <3>1. M \in Nat /\ w0 \in X[0]
            BY <1>1, <1>2
        <3>2. \E g : Steps(g, M, w0, S) /\ Typed(g, M, X)
            BY <2>1, <3>1, Iterated
        <3>3. QED
            BY <3>2, Zenon DEF Steps, Typed
    <2>3. \A n \in 1 .. M : n - 1 \in 0 .. M /\ n # 0
        BY <1>1
    <2>4. \A n \in 1 .. M : S[n][g[n - 1]] = ReleaseNext(g[n - 1])
        <3>1. \A n \in 1 .. M : g[n - 1] \in WorkRecord
            BY <1>4, <2>2, <2>3, Zenon
        <3>2. QED
            BY <3>1 DEF S
    <2>5. \A n \in 0 .. M : n = 0 \/ n \in 1 .. M
        BY <1>1
    <2>6. [n \in 0 .. M |-> IF n = 0 THEN w0 ELSE S[n][g[n - 1]]]
          = [n \in 0 .. M |-> IF n = 0 THEN w0 ELSE ReleaseNext(g[n - 1])]
        BY <2>4, <2>5, Zenon
    <2>7. Is(g)
        BY <2>2, <2>6, Zenon
    <2>8. QED
        BY <2>7, Zenon
<1>6. Is(g0)
    <2> HIDE DEF Is
    <2>1. QED
        BY <1>5, Zenon
<1> HIDE DEF g0, X
<1>7. g0[0] = w0 /\ \A n \in 1 .. M : g0[n] = ReleaseNext(g0[n - 1])
    <2> HIDE DEF w0, M
    <2>1. \A n \in 1 .. M : n # 0 /\ n \in 0 .. M
        BY <1>1
    <2>2. 0 \in 0 .. M
        BY <1>1
    <2>3. QED
        BY <1>6, <2>1, <2>2
<1>8. \A n \in 0 .. M : g0[n] \in X[n]
    <2> DEFINE P == {n \in 0 .. M : g0[n] \in X[n]}
    <2> HIDE DEF w0, M
    <2>1. 0 \in P
        BY <1>1, <1>2, <1>7
    <2>2. \A n \in 1 .. M : n - 1 \in P => n \in P
        <3>1. \A n \in 1 .. M : n \in 0 .. M
            BY <1>1
        <3>2. QED
            BY <1>4, <1>7, <3>1, Zenon
    <2> HIDE DEF P
    <2>3. \A n \in 0 .. M : n \in P
        BY <1>1, <2>1, <2>2, UpTo
    <2>4. QED
        BY <2>3 DEF P
<1>9. /\ Going(g0[M], F, V, K, W, bs)
      /\ g0[M].todo = <<>> \/ Left(g0[M]) + M <= M
    <2> HIDE DEF M
    <2>1. QED
        BY <1>1, <1>8 DEF X
<1>10. DeleteBox(st, b) = g0[M].st
    BY DEF DeleteBox, g0
<1> DEFINE w == g0[M]
<1>11. w.todo = <<>>
    <2> HIDE DEF w, M
    <2>1. w \in WorkRecord /\ w.todo \in Seq(Box \cup {None})
        BY <1>9 DEF Going, WorkRecord, w
    <2>2. Left(w) + M <= M => Len(w.todo) = 0
        BY <1>1, <2>1, TakenType DEF Left
    <2>3. QED
        BY <1>9, <2>1, <2>2 DEF w
<1>12. Pending(w, F) = F
    <2> HIDE DEF w
    <2>1. \A x \in Box : F[x] + Owed(w.todo, x) = F[x]
        BY <1>11, OwedNone
    <2>2. QED
        BY <2>1 DEF Pending
<1>13. QED
    BY <1>9, <1>10, <1>12 DEF Going

-----------------------------------------------------------------------------
(***************************************************************************)
(* box_construct(): a box is placed in another one.                        *)
(***************************************************************************)
Put(st, b, x) == [st EXCEPT !.boxes = [st.boxes EXCEPT ![b] = x]]

LEMMA AcquiredThenPut ==
    ASSUME NEW st \in State, NEW b \in Box, NEW x \in BoxRecord, NEW p \in Box \cup {None}, p # b
    PROVE  AcquireBox(Put(st, b, x), p) = Put(AcquireBox(st, p), b, x)
<1> DEFINE bs == st.boxes
<1>1. bs \in [Box -> BoxRecord]
    BY DEF State
<1>2. CASE p = None
    BY <1>2 DEF AcquireBox
<1>3. CASE p # None
    <2> DEFINE cs == [bs EXCEPT ![b] = x]
               ds == [bs EXCEPT ![p].use = bs[p].use + 1]
    <2>1. p \in Box
        BY <1>3
    <2>2. cs[p] = bs[p]
        BY <1>1, <2>1
    <2>3. [cs EXCEPT ![p].use = cs[p].use + 1] = [ds EXCEPT ![b] = x]
        <3> DEFINE l == [cs EXCEPT ![p].use = cs[p].use + 1]
                   r == [ds EXCEPT ![b] = x]
        <3>1. /\ l = [y \in Box |-> l[y]]
              /\ r = [y \in Box |-> r[y]]
            BY <1>1
        <3>2. ASSUME NEW y \in Box PROVE l[y] = r[y]
            BY <1>1, <2>1, <2>2
        <3> HIDE DEF l, r
        <3>3. QED
            BY <3>1, <3>2
    <2>4. AcquireBox(st, p) = [st EXCEPT !.boxes = ds]
        BY <1>3 DEF AcquireBox
    <2>5. Put(st, b, x).boxes = cs
        BY DEF Put, State
    <2>6. AcquireBox(Put(st, b, x), p)
          = [Put(st, b, x) EXCEPT !.boxes = [cs EXCEPT ![p].use = cs[p].use + 1]]
        BY <1>3, <2>5 DEF AcquireBox
    <2>7. AcquireBox(st, p).boxes = ds
        BY <2>4 DEF State
    <2> HIDE DEF cs, ds
    <2>8. QED
        BY <2>3, <2>4, <2>5, <2>6, <2>7 DEF Put, State
<1>4. QED
    BY <1>2, <1>3

(* A box that is not filled in yet, with its references on those around.   *)
Empty(bs, K, x) ==
    /\ x \in BoxRecord /\ x.kind # "free" /\ x.use = 1 /\ ~x.applied /\ x.ds = None
    /\ x.owns <=> x.kind \in {"source", "file"}
    /\ x.parent = None <=> x.kind \in {"source", "file"}
    /\ x.parent = None => x.depth = 0
    /\ x.parent # None => bs[x.parent].kind # "free" /\ x.depth = bs[x.parent].depth + 1
    /\ x.scope # None => bs[x.scope].kind # "free" /\ bs[x.scope].depth < x.depth
    /\ x.kind = "source" => x.from \in K
    /\ x.kind = "file" => x.from \in Path

LEMMA PutIsGood ==
    ASSUME NEW st, NEW E, NEW V, NEW K, NEW W, Good(st, E, V, K, W),
           NEW b \in Box, st.boxes[b].kind = "free", NEW x, Empty(st.boxes, K, x),
           NEW F \in [Box -> Nat],
           \A y \in Box : F[y] + One(y = x.parent) + One(y = x.scope) = E[y] + One(y = b),
           \A w \in W : w.box # None => F[w.box] # 0
    PROVE  Good(Put(st, b, x), F, V, K, W)
<1> DEFINE bs == st.boxes
           cs == [bs EXCEPT ![b] = x]
           t  == Put(st, b, x)
<1>0. /\ st \in State /\ bs \in [Box -> BoxRecord] /\ E \in [Box -> Nat]
      /\ V \in [Source -> Nat]
      /\ \A y \in Box : /\ bs[y].use \in Nat /\ Inside(bs, y) \in Nat
                        /\ bs[y].use = E[y] + Inside(bs, y)
                        /\ bs[y].use = 0 <=> bs[y].kind = "free"
    BY GoodType
<1>1. E[b] = 0 /\ Inside(bs, b) = 0
    BY <1>0
<1>2. bs[b] = NoBox
    BY DEF Good, Structure, Placed
<1>3. x \in BoxRecord /\ x.parent \in Box \cup {None} /\ x.scope \in Box \cup {None}
    BY DEF Empty, BoxRecord
<1>4. cs \in [Box -> BoxRecord] /\ cs[b] = x /\ \A y \in Box : y # b => cs[y] = bs[y]
    BY <1>0, <1>3
<1>5. t.boxes = cs /\ t.src = st.src /\ t.cache = st.cache /\ t \in State
    BY <1>0, <1>4 DEF Put, State
<1>6. \A y \in Box : bs[y].parent # b /\ bs[y].scope # b
    BY <1>1, InsideNone DEF Children, Scoped
<1>7. x.parent # b /\ x.scope # b
    <2>1. bs[b].kind = "free" /\ b # None
        BY BoxFinite
    <2>2. QED
        BY <2>1 DEF Empty
<1> HIDE DEF cs, t
<1>8. Structure(cs)
    <2> SUFFICES ASSUME NEW y \in Box PROVE Placed(cs, y) /\ Filled(cs, y)
        BY DEF Structure
    <2>1. CASE y = b
        <3>1. /\ x.parent # None => cs[x.parent] = bs[x.parent]
              /\ x.scope # None => cs[x.scope] = bs[x.scope]
            BY <1>3, <1>4, <1>7
        <3>2. x # NoBox
            BY DEF Empty, NoBox
        <3>3. QED
            BY <1>4, <2>1, <3>1, <3>2 DEF Placed, Filled, Empty
    <2>2. CASE y # b
        <3>1. Placed(bs, y) /\ Filled(bs, y)
            BY DEF Good, Structure
        <3>2. /\ bs[y].parent \in Box \cup {None} /\ bs[y].scope \in Box \cup {None}
              /\ cs[y] = bs[y]
            BY <1>0, <1>4, <2>2 DEF BoxRecord
        <3>3. /\ bs[y].parent # None => cs[bs[y].parent] = bs[bs[y].parent]
              /\ bs[y].scope # None => cs[bs[y].scope] = bs[bs[y].scope]
            BY <1>4, <1>6, <3>2
        <3>4. QED
            BY <3>1, <3>2, <3>3 DEF Placed, Filled
    <2>3. QED
        BY <2>1, <2>2
<1>9. BoxCounts(cs, F)
    <2> SUFFICES ASSUME NEW y \in Box
                 PROVE  cs[y].use = F[y] + Inside(cs, y) /\ (cs[y].use = 0 <=> cs[y].kind = "free")
        BY DEF BoxCounts
    <2>1. Inside(cs, y) + One(bs[b].parent = y) + One(bs[b].scope = y)
          = Inside(bs, y) + One(cs[b].parent = y) + One(cs[b].scope = y)
        <3>1. \A c \in Box \ {b} : cs[c].parent = bs[c].parent /\ cs[c].scope = bs[c].scope
            BY <1>4
        <3> HIDE DEF bs
        <3>2. QED
            BY <3>1, InsideUpdate, SMT DEF One
    <2>2. One(bs[b].parent = y) = 0 /\ One(bs[b].scope = y) = 0
        BY <1>2, BoxFinite DEF NoBox, One
    <2>3. /\ Inside(cs, y) \in Nat /\ Inside(bs, y) \in Nat /\ F[y] \in Nat /\ E[y] \in Nat
          /\ bs[y].use \in Nat /\ bs[y].use = E[y] + Inside(bs, y)
          /\ bs[y].use = 0 <=> bs[y].kind = "free"
        BY <1>0, InsideType
    <2>4. F[y] + One(y = x.parent) + One(y = x.scope) = E[y] + One(y = b)
        OBVIOUS
    <2>5. /\ One(y = x.parent) = One(cs[b].parent = y)
          /\ One(y = x.scope) = One(cs[b].scope = y)
          /\ One(cs[b].parent = y) \in Nat /\ One(cs[b].scope = y) \in Nat
        BY <1>4 DEF One
    <2> HIDE DEF bs
    <2>6. F[y] + Inside(cs, y) = E[y] + Inside(bs, y) + One(y = b)
        <3>1. One(y = b) \in Nat
            BY DEF One
        <3> DEFINE p == One(cs[b].parent = y)
                   s == One(cs[b].scope = y)
                   i == Inside(cs, y)
                   j == Inside(bs, y)
                   o == One(y = b)
        <3>2. i = j + p + s /\ F[y] + p + s = E[y] + o
            BY <2>1, <2>2, <2>3, <2>4, <2>5
        <3>3. p \in Nat /\ s \in Nat /\ i \in Nat /\ j \in Nat /\ o \in Nat
            BY <2>3, <2>5, <3>1
        <3> HIDE DEF p, s, i, j, o
        <3>4. F[y] + i = E[y] + j + o
            BY <2>3, <3>2, <3>3
        <3>5. QED
            BY <3>4 DEF i, j, o
    <2>7. CASE y = b
        <3>1. F[y] + Inside(cs, y) = 1
            BY <1>1, <2>6, <2>7 DEF One
        <3>2. QED
            BY <1>4, <2>7, <3>1 DEF Empty
    <2>8. CASE y # b
        <3>1. F[y] + Inside(cs, y) = E[y] + Inside(bs, y)
            BY <2>3, <2>6, <2>8 DEF One
        <3>2. QED
            BY <1>4, <2>3, <2>8, <3>1
    <2>9. QED
        BY <2>7, <2>8
<1>10. SourceCounts(cs, st.src, V)
    <2>1. ASSUME NEW s \in Source PROVE Owners(cs, s) = Owners(bs, s)
        <3>1. bs[b].ds # s /\ cs[b].ds # s
            BY <1>2, <1>4, BoxFinite DEF NoBox, Empty
        <3>2. QED
            BY <1>4, <3>1 DEF Owners
    <2>2. QED
        BY <2>1 DEF Good, SourceCounts
<1>11. Sourced(cs, V, K)
    <2>1. Sourced(bs, V, K)
        BY DEF Good
    <2>2. /\ x.kind = "source" => x.from \in K
          /\ x.kind = "file" => x.from \in Path
        BY DEF Empty
    <2>3. QED
        BY <1>4, <2>1, <2>2 DEF Sourced
<1>12. ASSUME NEW w \in W PROVE Watched(t, F, V, w)
    <2>1. Watched(st, E, V, w)
        BY DEF Good
    <2>2. w.box # None => w.box # b
        BY <1>1, <2>1 DEF Watched
    <2>3. QED
        BY <1>4, <1>5, <2>1, <2>2 DEF Watched
<1>13. QED
    BY <1>0, <1>5, <1>8, <1>9, <1>10, <1>11, <1>12 DEF Good, Cached, t

-----------------------------------------------------------------------------
(***************************************************************************)
(* A reference more from outside.                                          *)
(***************************************************************************)
Plus(E, b) == [x \in Box |-> E[x] + One(x = b)]

LEMMA PlusType ==
    ASSUME NEW E \in [Box -> Nat], NEW b
    PROVE  /\ Plus(E, b) \in [Box -> Nat]
           /\ \A x \in Box : Plus(E, b)[x] = E[x] + One(x = b)
           /\ \A x \in Box : E[x] # 0 => Plus(E, b)[x] # 0
           /\ b \in Box => Plus(E, b)[b] # 0
           /\ Plus(E, None) = E
<1>1. \A x \in Box : /\ E[x] \in Nat /\ E[x] + One(x = b) \in Nat
                     /\ E[x] # 0 => E[x] + One(x = b) # 0
                     /\ x = b => E[x] + One(x = b) # 0
                     /\ E[x] + One(x = None) = E[x]
    BY BoxFinite DEF One
<1>2. Plus(E, None) = E
    BY <1>1 DEF Plus
<1>3. QED
    BY <1>1, <1>2 DEF Plus

LEMMA PlusSwaps ==
    ASSUME NEW E \in [Box -> Nat], NEW b, NEW c
    PROVE  Plus(Plus(E, b), c) = Plus(Plus(E, c), b)
<1>1. \A x \in Box : E[x] \in Nat /\ One(x = b) \in Nat /\ One(x = c) \in Nat
    BY DEF One
<1>2. \A x \in Box : E[x] + One(x = b) + One(x = c) = E[x] + One(x = c) + One(x = b)
    BY <1>1
<1>3. QED
    BY <1>2 DEF Plus

LEMMA AcquiredPlus ==
    ASSUME NEW st, NEW E, NEW V, NEW K, NEW W, Good(st, E, V, K, W),
           NEW b \in Box \cup {None}, b # None => st.boxes[b].kind # "free"
    PROVE  /\ Good(AcquireBox(st, b), Plus(E, b), V, K, W)
           /\ AcquireBox(st, b).boxes \in [Box -> BoxRecord]
           /\ \A x \in Box : SameBox(AcquireBox(st, b).boxes[x], st.boxes[x])
           /\ AcquireBox(st, b).src = st.src /\ AcquireBox(st, b).cache = st.cache
<1>1. E \in [Box -> Nat]
    BY GoodType
<1>2. Plus(E, b) \in [Box -> Nat] /\ \A x \in Box : Plus(E, b)[x] = E[x] + One(x = b)
    BY <1>1, PlusType
<1>3. QED
    BY <1>2, Acquired

LEMMA DeletedPlus ==
    ASSUME NEW st, NEW E \in [Box -> Nat], NEW b \in Box \cup {None}, NEW V, NEW K, NEW W,
           Good(st, Plus(E, b), V, K, W),
           \A y \in W : y.box # None => E[y.box] # 0
    PROVE  /\ Good(DeleteBox(st, b), E, V, K, W)
           /\ Fewer(st.boxes, DeleteBox(st, b).boxes)
<1>1. \A x \in Box : Plus(E, b)[x] = E[x] + One(x = b)
    BY PlusType
<1>2. QED
    BY <1>1, Deleted

(* A new box, unless it would be too deep.                                 *)
Deep(st, parent) == parent # None /\ st.boxes[parent].depth = MaxDepth

CanMake(st, K, kind, parent, scope, item, from) ==
    /\ kind \in Filters /\ parent \in Box \cup {None} /\ scope \in Box \cup {None}
    /\ item \in Chains \cup {Nowhere} /\ from \in Source \cup Path \cup {None}
    /\ parent = None <=> kind \in {"source", "file"}
    /\ parent # None => st.boxes[parent].kind # "free"
    /\ scope # None => /\ parent # None /\ st.boxes[scope].kind # "free"
                       /\ st.boxes[scope].depth <= st.boxes[parent].depth
    /\ kind = "source" => from \in K
    /\ kind = "file" => from \in Path

LEMMA Created ==
    ASSUME NEW st, NEW E, NEW V, NEW K, NEW W, Good(st, E, V, K, W), Free(st) # {},
           NEW kind, NEW parent, NEW scope, NEW item, NEW from,
           CanMake(st, K, kind, parent, scope, item, from), ~Deep(st, parent),
           NEW n, n = NewBox(st, kind, parent, scope, item, from)
    PROVE  /\ n.box \in Free(st) /\ n.box \in Box
           /\ Good(n.st, Plus(E, n.box), V, K, W)
           /\ \A x \in Box : x # n.box => SameBox(n.st.boxes[x], st.boxes[x])
           /\ n.st.boxes[n.box].kind = kind
           /\ n.st.boxes[n.box].depth = IF parent = None THEN 0 ELSE st.boxes[parent].depth + 1
           /\ n = [st |-> n.st, box |-> n.box]
<1> USE DEF CanMake
<1> DEFINE bs == st.boxes
           b == Min(Free(st))
           d == IF parent = None THEN 0 ELSE bs[parent].depth + 1
           o == kind \in {"source", "file"}
           x == [kind |-> kind, use |-> 1, parent |-> parent, scope |-> scope, item |-> item,
                 ds |-> None, owns |-> o, applied |-> FALSE, depth |-> d, from |-> from]
           s1 == AcquireBox(st, parent)
           s2 == AcquireBox(s1, scope)
           E1 == Plus(E, parent)
           E2 == Plus(E1, scope)
           F  == Plus(E, b)
<1>0. st \in State /\ bs \in [Box -> BoxRecord] /\ E \in [Box -> Nat]
    BY GoodType
<1>1. b \in Free(st)
    <2>1. Free(st) \in SUBSET Nat
        BY BoxFinite DEF Free
    <2>2. QED
        BY <2>1, MinIsIn
<1>2. b \in Box /\ bs[b].kind = "free"
    BY <1>1 DEF Free
<1>3. parent # b /\ scope # b
    BY <1>2, BoxFinite
<1>4. d \in 0 .. MaxDepth
    <2>1. parent # None => bs[parent].depth \in 0 .. MaxDepth
        BY <1>0 DEF BoxRecord
    <2>2. QED
        BY <2>1, ReferenceAssumption DEF Deep
<1> HIDE DEF b, d
<1>5. /\ x \in BoxRecord /\ x.kind = kind /\ x.use = 1 /\ x.parent = parent /\ x.scope = scope
      /\ x.item = item /\ x.from = from /\ x.depth = d /\ ~x.applied /\ x.ds = None
      /\ x.owns = (kind \in {"source", "file"})
    <2>1. o \in BOOLEAN
        OBVIOUS
    <2> HIDE DEF o
    <2>2. x \in BoxRecord
        BY <1>4, <2>1 DEF BoxRecord
    <2>3. x.owns = o
        OBVIOUS
    <2>4. QED
        BY <2>2, <2>3 DEF o
<1> HIDE DEF x
<1>6. n = [st |-> AcquireBox(AcquireBox(Put(st, b, x), parent), scope), box |-> b]
    <2>1. [st EXCEPT !.boxes[b] = x] = Put(st, b, x)
        BY DEF Put
    <2>2. ~(parent # None /\ (IF parent = None THEN 0 ELSE bs[parent].depth) = MaxDepth)
        BY DEF Deep
    <2>3. (IF parent = None THEN 0
           ELSE (IF parent = None THEN 0 ELSE bs[parent].depth) + 1) = d
        BY DEF d
    <2>4. n = [st |-> AcquireBox(AcquireBox([st EXCEPT !.boxes[b] = x], parent), scope),
               box |-> b]
        BY <2>2, <2>3, Zenon DEF NewBox, b, x
    <2>5. QED
        BY <2>1, <2>4
<1>7. /\ Good(s1, E1, V, K, W) /\ s1.boxes \in [Box -> BoxRecord] /\ s1 \in State
      /\ \A y \in Box : SameBox(s1.boxes[y], bs[y])
    BY AcquiredPlus, GoodType
<1>8. scope # None => s1.boxes[scope].kind # "free"
    BY <1>7 DEF SameBox
<1> HIDE DEF s1, E1
<1>9. /\ Good(s2, E2, V, K, W) /\ s2.boxes \in [Box -> BoxRecord] /\ s2 \in State
      /\ \A y \in Box : SameBox(s2.boxes[y], s1.boxes[y])
    BY <1>7, <1>8, AcquiredPlus, GoodType
<1>10. \A y \in Box : SameBox(s2.boxes[y], bs[y])
    BY <1>7, <1>9 DEF SameBox
<1>11. n.st = Put(s2, b, x) /\ n.box = b /\ n = [st |-> n.st, box |-> n.box]
    <2>1. AcquireBox(Put(st, b, x), parent) = Put(s1, b, x)
        BY <1>0, <1>2, <1>3, <1>5, AcquiredThenPut DEF s1
    <2>2. AcquireBox(Put(s1, b, x), scope) = Put(s2, b, x)
        BY <1>2, <1>3, <1>5, <1>7, AcquiredThenPut
    <2>3. QED
        BY <1>6, <2>1, <2>2
<1> HIDE DEF s2
<1>12. Empty(s2.boxes, K, x)
    <2>1. /\ parent # None => SameBox(s2.boxes[parent], bs[parent])
          /\ scope # None => SameBox(s2.boxes[scope], bs[scope])
        BY <1>10
    <2>2. parent # None => bs[parent].depth \in Nat
        BY <1>0 DEF BoxRecord
    <2>3. scope # None => bs[scope].depth \in Nat
        BY <1>0 DEF BoxRecord
    <2>4. scope # None => bs[scope].depth < d
        BY <2>2, <2>3 DEF d
    <2>5. parent = None => d = 0
        BY DEF d
    <2>6. parent # None => d = bs[parent].depth + 1
        BY DEF d
    <2>7. kind # "free"
        BY DEF Filters
    <2>8. QED
        BY <1>5, <2>1, <2>4, <2>5, <2>6, <2>7 DEF Empty, SameBox
<1>13. Good(Put(s2, b, x), F, V, K, W)
    <2>1. F \in [Box -> Nat] /\ E1 \in [Box -> Nat]
        BY <1>0, PlusType DEF E1
    <2>2. ASSUME NEW y \in Box
          PROVE  F[y] + One(y = x.parent) + One(y = x.scope) = E2[y] + One(y = b)
        <3>1. F[y] = E[y] + One(y = b)
            BY <1>0, PlusType
        <3>2. E2[y] = E1[y] + One(y = scope) /\ E1[y] = E[y] + One(y = parent)
            BY <1>0, <2>1, PlusType DEF E1
        <3>3. E[y] \in Nat /\ One(y = b) \in Nat /\ One(y = scope) \in Nat /\ One(y = parent) \in Nat
            BY <1>0 DEF One
        <3>4. One(y = x.parent) = One(y = parent) /\ One(y = x.scope) = One(y = scope)
            BY <1>5
        <3> HIDE DEF F, E2
        <3>5. QED
            BY <3>1, <3>2, <3>3, <3>4
    <2>3. \A w \in W : w.box # None => F[w.box] # 0
        <3>1. \A w \in W : w.box # None => w.box \in Box /\ E[w.box] # 0
            BY Zenon DEF Good, Watched
        <3>2. QED
            BY <1>0, <3>1, PlusType
    <2>4. s2.boxes[b].kind = "free"
        BY <1>2, <1>10 DEF SameBox
    <2> HIDE DEF F, E2
    <2>5. QED
        BY <1>2, <1>9, <1>12, <2>1, <2>2, <2>3, <2>4, PutIsGood
<1>14. n.st.boxes[b] = x /\ \A y \in Box : y # b => n.st.boxes[y] = s2.boxes[y]
    BY <1>2, <1>9, <1>11 DEF Put, State
<1>15. \A y \in Box : y # b => SameBox(n.st.boxes[y], bs[y])
    BY <1>10, <1>14 DEF SameBox
<1>16. QED
    BY <1>1, <1>2, <1>5, <1>11, <1>13, <1>14, <1>15 DEF d

LEMMA TooDeep ==
    ASSUME NEW st, NEW kind, NEW parent, NEW scope, NEW item, NEW from, Deep(st, parent)
    PROVE  NewBox(st, kind, parent, scope, item, from) = [st |-> st, box |-> None]
BY Zenon DEF NewBox, Deep

-----------------------------------------------------------------------------
(***************************************************************************)
(* bitpunch_data_source_create_from_file_path(): a file is opened.         *)
(***************************************************************************)
FilesOf(ss, files) ==
    files \in Seq(Source) /\ \A i \in DOMAIN files : ss[files[i]].kind = "file"

LEMMA MatchesType ==
    ASSUME NEW ss, NEW files \in Seq(Source), NEW p, NEW m \in Matches(ss, files, p)
    PROVE  m = None \/ \E i \in DOMAIN files : m = files[i]
<1> DEFINE I == {i \in 1 .. Len(files) : ss[files[i]].path = p}
           valid == IF I # {} THEN Min(I) ELSE 0
           last  == IF valid = 0 THEN Len(files) ELSE valid - 1
<1>1. Len(files) \in Nat /\ DOMAIN files = 1 .. Len(files)
    OBVIOUS
<1>2. valid = 0 \/ valid \in I
    <2>1. I \in SUBSET Nat
        BY <1>1
    <2> HIDE DEF I
    <2>2. I # {} => Min(I) \in I
        BY <2>1, MinIsIn
    <2>3. QED
        BY <2>2
<1>3. valid = 0 \/ valid \in 1 .. Len(files)
    BY <1>2
<1>4. m \in {files[i] : i \in {j \in 1 .. last : ss[files[j]].path = Lost}}
            \cup {IF valid = 0 THEN None ELSE files[valid]}
    BY DEF Matches, SelectInSeq
<1> HIDE DEF valid
<1>5. last \in Nat /\ last <= Len(files)
    BY <1>1, <1>3
<1> HIDE DEF last
<1>6. CASE m \in {files[i] : i \in {j \in 1 .. last : ss[files[j]].path = Lost}}
    <2>1. PICK i \in 1 .. last : m = files[i]
        BY <1>6
    <2>2. i \in 1 .. Len(files)
        BY <1>1, <1>5
    <2>3. QED
        BY <1>1, <2>1, <2>2, Zenon
<1>7. CASE m = IF valid = 0 THEN None ELSE files[valid]
    BY <1>1, <1>3, <1>7, Zenon
<1>8. QED
    BY <1>4, <1>6, <1>7, Zenon

LEMMA ToFrontType ==
    ASSUME NEW ss, NEW files, FilesOf(ss, files), NEW i \in DOMAIN files
    PROVE  FilesOf(ss, ToFront(files, files[i]))
<1> DEFINE m == files[i]
           k == CHOOSE j \in DOMAIN files : files[j] = m
           q == ToFront(files, m)
<1>1. /\ files \in Seq(Source) /\ Len(files) \in Nat /\ DOMAIN files = 1 .. Len(files)
      /\ \A j \in 1 .. Len(files) : files[j] \in Source /\ ss[files[j]].kind = "file"
    BY DEF FilesOf
<1>2. k \in 1 .. Len(files)
    BY <1>1
<1> HIDE DEF k
<1>3. q = [j \in 1 .. Len(files) |->
              IF j = 1 THEN m ELSE IF j <= k THEN files[j - 1] ELSE files[j]]
    BY <1>1 DEF ToFront, k
<1>4. ASSUME NEW j \in 1 .. Len(files) PROVE q[j] \in Source /\ ss[q[j]].kind = "file"
    <2>1. CASE j = 1
        BY <1>1, <1>3, <2>1
    <2>2. CASE j # 1 /\ j <= k
        <3>1. j - 1 \in 1 .. Len(files) /\ q[j] = files[j - 1]
            BY <1>1, <1>2, <1>3, <2>2
        <3> HIDE DEF q
        <3>2. QED
            BY <1>1, <3>1
    <2>3. CASE j # 1 /\ ~(j <= k)
        <3>1. q[j] = files[j]
            BY <1>3, <2>3
        <3> HIDE DEF q
        <3>2. QED
            BY <1>1, <3>1
    <2>4. QED
        BY <2>1, <2>2, <2>3
<1>5. q = [j \in 1 .. Len(files) |-> q[j]]
    BY <1>3
<1> HIDE DEF q
<1>6. q \in [1 .. Len(files) -> Source]
    BY <1>4, <1>5
<1>7. q \in Seq(Source) /\ DOMAIN q = 1 .. Len(files)
    BY <1>1, <1>6
<1>8. FilesOf(ss, q)
    BY <1>4, <1>7 DEF FilesOf
<1>9. QED
    BY <1>8 DEF q

LEMMA PushedType ==
    ASSUME NEW ss, NEW files, FilesOf(ss, files), NEW s \in Source, ss[s].kind = "file"
    PROVE  FilesOf(ss, <<s>> \o files)
<1> DEFINE q == <<s>> \o files
<1>1. files \in Seq(Source)
    BY DEF FilesOf
<1>2. /\ q \in Seq(Source) /\ Len(q) = Len(files) + 1 /\ q[1] = s
      /\ \A j \in 2 .. Len(q) : q[j] = files[j - 1]
    BY <1>1
<1> HIDE DEF q
<1>3. ASSUME NEW j \in DOMAIN q PROVE ss[q[j]].kind = "file"
    <2>1. Len(files) \in Nat /\ j \in 1 .. Len(q) /\ DOMAIN files = 1 .. Len(files)
        BY <1>1, <1>2
    <2>2. CASE j = 1
        BY <1>2, <2>2
    <2>3. CASE j # 1
        <3>1. j \in 2 .. Len(q) /\ j - 1 \in DOMAIN files
            BY <1>2, <2>1, <2>3
        <3>2. QED
            BY <1>2, <3>1 DEF FilesOf
    <2>4. QED
        BY <2>2, <2>3
<1>4. QED
    BY <1>2, <1>3 DEF FilesOf, q

LEMMA Opened ==
    ASSUME NEW ss \in [Source -> SourceRecord], NEW files, FilesOf(ss, files),
           NEW p \in Path, NEW m \in Matches(ss, files, p), file \in [Path -> Nat],
           NEW T \in [Source -> Nat], NEW U \in [Source -> Nat], UsedAs(ss, T),
           Opening(ss, files, p, m).ds # None,
           \A x \in Source : U[x] = T[x] + One(x = Opening(ss, files, p, m).ds)
    PROVE  LET o == Opening(ss, files, p, m) IN
           /\ o.ds \in Source
           /\ o.src \in [Source -> SourceRecord] /\ UsedAs(o.src, U)
           /\ FilesOf(o.src, o.cache)
           /\ \A x \in Source : T[x] # 0 => o.src[x].data = ss[x].data
<1> DEFINE o == Opening(ss, files, p, m)
<1>1. CASE m # None
    <2>1. o = [src |-> AcquireSource(ss, m), cache |-> ToFront(files, m), ds |-> m]
        BY <1>1 DEF Opening
    <2>2. PICK i \in DOMAIN files : m = files[i]
        BY <1>1, MatchesType DEF FilesOf
    <2>3. m \in Source /\ ss[m].kind = "file"
        BY <2>2 DEF FilesOf
    <2> DEFINE rs == AcquireSource(ss, m)
    <2>4. \A x \in Source : U[x] = T[x] + One(x = m)
        BY <2>1
    <2>5. /\ rs \in [Source -> SourceRecord] /\ UsedAs(rs, U)
          /\ \A x \in Source : rs[x].data = ss[x].data /\ rs[x].kind = ss[x].kind
        <3>1. ss[m].kind # "free"
            BY <2>3
        <3>2. QED
            BY <2>3, <2>4, <3>1, AcquiredSource
    <2> HIDE DEF rs
    <2>6. FilesOf(rs, files)
        BY <2>5, SMTT(60) DEF FilesOf
    <2>7. FilesOf(rs, ToFront(files, m))
        BY <2>2, <2>6, ToFrontType
    <2>8. QED
        BY <2>1, <2>3, <2>5, <2>7 DEF rs
<1>2. CASE m = None
    <2> DEFINE s == Min(Fresh(ss))
               rs == NewSource(ss, "file", p, file[p])
    <2>1. Fresh(ss) # {}
        BY <1>2 DEF Opening
    <2>2. o = [src |-> rs, cache |-> <<s>> \o files, ds |-> s]
        BY <1>2, <2>1 DEF Opening
    <2>3. \A x \in Source : U[x] = T[x] + One(x = s)
        BY <2>2
    <2>4. file[p] \in Int
        OBVIOUS
    <2>5. /\ s \in Source /\ rs[s].kind = "file" /\ rs \in [Source -> SourceRecord]
          /\ UsedAs(rs, U)
          /\ \A x \in Source : T[x] # 0 => rs[x].data = ss[x].data
          /\ \A x \in Source : ss[x].kind # "free" => rs[x].kind = ss[x].kind
        <3> DEFINE k == "file"
                   d == file[p]
        <3>1. k \in {"file", "external", "memory"} /\ p \in Path \cup {Lost} /\ d \in Int
            BY <2>4
        <3> HIDE DEF k, d
        <3>2. OneMore(ss, T, U)
            BY <2>1, <2>3 DEF OneMore
        <3> HIDE DEF s
        <3>3. LET r == NewSource(ss, k, p, d)
                  t == Min(Fresh(ss))
              IN
              /\ t \in Source /\ r[t].kind = k /\ r \in [Source -> SourceRecord] /\ UsedAs(r, U)
              /\ \A x \in Source : T[x] # 0 => r[x].data = ss[x].data
              /\ \A x \in Source : ss[x].kind # "free" => r[x].kind = ss[x].kind
            BY <3>1, <3>2, CreatedSource
        <3>4. QED
            BY <3>3 DEF k, d, s
    <2> HIDE DEF rs, s
    <2>6. FilesOf(rs, files)
        <3>1. /\ files \in Seq(Source)
              /\ \A i \in DOMAIN files : files[i] \in Source /\ ss[files[i]].kind = "file"
            BY DEF FilesOf
        <3>2. \A x \in Source : ss[x].kind = "file" => rs[x].kind = "file"
            BY <2>5
        <3>3. QED
            BY <3>1, <3>2 DEF FilesOf
    <2>7. FilesOf(rs, <<s>> \o files)
        BY <2>5, <2>6, PushedType
    <2>8. QED
        BY <2>2, <2>5, <2>7
<1>3. QED
    BY <1>1, <1>2

-----------------------------------------------------------------------------
(***************************************************************************)
(* box_apply_local_filter(): a box gives data.                             *)
(***************************************************************************)
Given(bs, b, ds, o) == [bs EXCEPT ![b] = [bs[b] EXCEPT !.ds = ds, !.owns = o, !.applied = TRUE]]

(* The boxes are where they were, and those that were filled in still are. *)
SameTree(bs, cs) ==
    \A x \in Box :
        /\ cs[x].kind = bs[x].kind /\ cs[x].parent = bs[x].parent /\ cs[x].scope = bs[x].scope
        /\ cs[x].item = bs[x].item /\ cs[x].depth = bs[x].depth
        /\ bs[x].applied => cs[x].applied /\ cs[x].ds = bs[x].ds

OpenedRecord == [ds : Source \cup {None}, path : Path \cup {Lost}]

(* A box that can be filled in, and what it is filled in with.             *)
CanFill(bs, b) ==
    /\ b \in Box /\ bs[b].kind # "free" /\ ~bs[b].applied
    /\ bs[b].parent # None => bs[bs[b].parent].applied

UsesWith(bs, V, ds, o) ==
    [s \in Source |-> Uses(bs, V)[s] + (IF o /\ s = ds THEN 1 ELSE 0)]

Supplied(st, V, b, ds, o, t) ==
    /\ ds \in Source /\ o \in BOOLEAN
    /\ o \/ (st.boxes[b].parent # None /\ ds = st.boxes[st.boxes[b].parent].ds)
    /\ t.src \in [Source -> SourceRecord] /\ FilesOf(t.src, t.cache)
    /\ UsedAs(t.src, UsesWith(st.boxes, V, ds, o))
    /\ \A s \in Source : Uses(st.boxes, V)[s] # 0 => t.src[s].data = st.src[s].data
    /\ t.opened \in OpenedRecord
    /\ t = [boxes |-> Given(st.boxes, b, ds, o), src |-> t.src, cache |-> t.cache,
            opened |-> t.opened]

LEMMA GivenIsGood ==
    ASSUME NEW st, NEW E, NEW V, NEW K, NEW W, Good(st, E, V, K, W),
           NEW b, CanFill(st.boxes, b), NEW ds, NEW o, NEW t, Supplied(st, V, b, ds, o, t)
    PROVE  /\ Good(t, E, V, K, W)
           /\ SameTree(st.boxes, t.boxes)
           /\ t.boxes[b].applied
<1> DEFINE bs == st.boxes
           y  == [bs[b] EXCEPT !.ds = ds, !.owns = o, !.applied = TRUE]
           cs == Given(bs, b, ds, o)
           ss == t.src
           files == t.cache
           op == t.opened
           U == UsesWith(bs, V, ds, o)
<1>21. /\ b \in Box /\ bs[b].kind # "free" /\ ~bs[b].applied
       /\ bs[b].parent # None => bs[bs[b].parent].applied
       /\ ds \in Source /\ o \in BOOLEAN
       /\ o \/ (bs[b].parent # None /\ ds = bs[bs[b].parent].ds)
       /\ ss \in [Source -> SourceRecord] /\ FilesOf(ss, files) /\ UsedAs(ss, U)
       /\ \A s \in Source : Uses(bs, V)[s] # 0 => ss[s].data = st.src[s].data
       /\ op \in OpenedRecord
       /\ t = [boxes |-> cs, src |-> ss, cache |-> files, opened |-> op]
    BY DEF CanFill, Supplied
<1> USE <1>21
<1>22. \A s \in Source : U[s] = Uses(bs, V)[s] + (IF o /\ s = ds THEN 1 ELSE 0)
    BY DEF UsesWith
<1> USE <1>22
<1> HIDE DEF U, ss, files, op
<1>0. /\ st \in State /\ bs \in [Box -> BoxRecord] /\ E \in [Box -> Nat]
      /\ V \in [Source -> Nat]
      /\ \A x \in Box : /\ bs[x].use \in Nat /\ Inside(bs, x) \in Nat
                        /\ bs[x].use = E[x] + Inside(bs, x)
                        /\ bs[x].use = 0 <=> bs[x].kind = "free"
    BY GoodType
<1>1. /\ y \in BoxRecord /\ y.ds = ds /\ y.owns = o /\ y.applied
      /\ y.kind = bs[b].kind /\ y.use = bs[b].use /\ y.parent = bs[b].parent
      /\ y.scope = bs[b].scope /\ y.item = bs[b].item /\ y.depth = bs[b].depth
      /\ y.from = bs[b].from
    <2> DEFINE z == bs[b]
    <2>1. z \in BoxRecord
        BY <1>0
    <2> HIDE DEF z
    <2>2. LET v == [z EXCEPT !.ds = ds, !.owns = o, !.applied = TRUE] IN
          /\ v \in BoxRecord /\ v.ds = ds /\ v.owns = o /\ v.applied
          /\ v.kind = z.kind /\ v.use = z.use /\ v.parent = z.parent
          /\ v.scope = z.scope /\ v.item = z.item /\ v.depth = z.depth /\ v.from = z.from
        BY <2>1 DEF BoxRecord
    <2>3. QED
        BY <2>2 DEF z
<1>2. cs \in [Box -> BoxRecord] /\ cs[b] = y /\ \A x \in Box : x # b => cs[x] = bs[x]
    BY <1>0, <1>1 DEF Given
<1> HIDE DEF y, cs
<1>3. /\ t \in State /\ t.boxes = cs /\ t.src = ss /\ t.cache = files
      /\ files \in Seq(Source)
    BY <1>2 DEF State, FilesOf, OpenedRecord
<1>4. ~bs[b].applied => bs[b].ds = None
    BY DEF Good, Structure, Filled
<1>5. SameTree(bs, cs)
    BY <1>1, <1>2 DEF SameTree
<1>6. \A x \in Box : cs[x].use = bs[x].use /\ cs[x].from = bs[x].from
    BY <1>1, <1>2
<1>7. Structure(cs)
    <2> SUFFICES ASSUME NEW x \in Box PROVE Placed(cs, x) /\ Filled(cs, x)
        BY DEF Structure
    <2>1. Placed(bs, x) /\ Filled(bs, x)
        BY DEF Good, Structure
    <2>2. bs[x].parent \in Box \cup {None} /\ bs[x].scope \in Box \cup {None}
        BY <1>0 DEF BoxRecord
    <2>3. /\ cs[x].kind = bs[x].kind /\ cs[x].parent = bs[x].parent /\ cs[x].scope = bs[x].scope
          /\ cs[x].depth = bs[x].depth
          /\ bs[x].parent # None => /\ cs[bs[x].parent].kind = bs[bs[x].parent].kind
                                    /\ cs[bs[x].parent].depth = bs[bs[x].parent].depth
          /\ bs[x].scope # None => /\ cs[bs[x].scope].kind = bs[bs[x].scope].kind
                                   /\ cs[bs[x].scope].depth = bs[bs[x].scope].depth
        BY <1>5, <2>2 DEF SameTree
    <2>4. cs[x].kind = "free" <=> cs[x] = NoBox
        <3>1. CASE x = b
            BY <1>1, <1>2, <3>1 DEF NoBox
        <3>2. CASE x # b
            BY <1>2, <2>1, <3>2 DEF Placed
        <3>3. QED
            BY <3>1, <3>2
    <2>5. Placed(cs, x)
        BY <2>1, <2>3, <2>4 DEF Placed
    <2>6. Filled(cs, x)
        <3>1. bs[x].parent # None /\ bs[bs[x].parent].applied =>
                /\ cs[bs[x].parent].applied /\ cs[bs[x].parent].ds = bs[bs[x].parent].ds
            BY <1>5, <2>2 DEF SameTree
        <3>2. CASE x = b
            BY <1>1, <1>2, <3>1, <3>2, BoxFinite DEF Filled
        <3>3. CASE x # b
            BY <1>2, <2>1, <3>1, <3>3 DEF Filled
        <3>4. QED
            BY <3>2, <3>3
    <2>7. QED
        BY <2>5, <2>6
<1>8. BoxCounts(cs, E)
    <2> SUFFICES ASSUME NEW x \in Box
                 PROVE  cs[x].use = E[x] + Inside(cs, x) /\ (cs[x].use = 0 <=> cs[x].kind = "free")
        BY DEF BoxCounts
    <2>1. Inside(cs, x) = Inside(bs, x)
        BY <1>5, SameInside DEF SameTree
    <2>2. cs[x].kind = bs[x].kind
        BY <1>5 DEF SameTree
    <2>3. QED
        BY <1>0, <1>6, <2>1, <2>2
<1>9. SourceCounts(cs, ss, V)
    <2>1. ASSUME NEW s \in Source PROVE Uses(cs, V)[s] = U[s]
        <3>1. Cardinality(Owners(cs, s)) + One(bs[b].owns /\ bs[b].ds = s)
              = Cardinality(Owners(bs, s)) + One(cs[b].owns /\ cs[b].ds = s)
            <4>1. \A c \in Box \ {b} : cs[c].owns = bs[c].owns /\ cs[c].ds = bs[c].ds
                BY <1>2
            <4> HIDE DEF bs
            <4>2. QED
                BY <4>1, OwnersUpdate
        <3>2. One(bs[b].owns /\ bs[b].ds = s) = 0
            BY <1>4, BoxFinite DEF One
        <3>3. One(cs[b].owns /\ cs[b].ds = s) = One(o /\ s = ds)
            BY <1>1, <1>2 DEF One
        <3>4. /\ Uses(bs, V)[s] = V[s] + Cardinality(Owners(bs, s))
              /\ Uses(cs, V)[s] = V[s] + Cardinality(Owners(cs, s))
              /\ V[s] \in Nat /\ Cardinality(Owners(bs, s)) \in Nat
              /\ Cardinality(Owners(cs, s)) \in Nat
            BY <1>0, UsesType, InsideType
        <3>5. U[s] = Uses(bs, V)[s] + One(o /\ s = ds) /\ One(o /\ s = ds) \in Nat
            BY DEF One
        <3> DEFINE k == One(o /\ s = ds)
                   j == Cardinality(Owners(cs, s))
                   i == Cardinality(Owners(bs, s))
        <3>6. j = i + k
            <4>1. One(cs[b].owns /\ cs[b].ds = s) = k
                BY <3>3
            <4>2. j + 0 = i + k
                BY <3>1, <3>2, <4>1
            <4> HIDE DEF i, j, k
            <4>3. QED
                BY <3>4, <3>5, <4>2 DEF i, j, k
        <3>7. /\ Uses(bs, V)[s] = V[s] + i /\ Uses(cs, V)[s] = V[s] + j
              /\ U[s] = Uses(bs, V)[s] + k
              /\ i \in Nat /\ j \in Nat /\ k \in Nat /\ V[s] \in Nat
            BY <3>4, <3>5
        <3> HIDE DEF i, j, k
        <3>8. QED
            BY <3>6, <3>7
    <2>2. UsedAs(ss, Uses(cs, V))
        BY <2>1 DEF UsedAs
    <2>3. QED
        BY <1>0, <2>2, SourcesAreUsed
<1>10. Cached(t)
    BY <1>3 DEF Cached, FilesOf
<1>11. Sourced(cs, V, K)
    <2>1. Sourced(bs, V, K)
        BY DEF Good
    <2>2. \A x \in Box : cs[x].kind = bs[x].kind
        BY <1>5 DEF SameTree
    <2>3. QED
        BY <1>6, <2>1, <2>2 DEF Sourced
<1>12. ASSUME NEW w \in W PROVE Watched(t, E, V, w)
    <2>1. Watched(st, E, V, w)
        BY DEF Good
    <2>2. w.ds \in Source
        BY <2>1 DEF Watched
    <2>3. Uses(bs, V)[w.ds] # 0
        <3>1. CASE w.box = None
            <4>1. V[w.ds] # 0
                BY <2>1, <3>1 DEF Watched
            <4>2. QED
                BY <1>0, <2>2, <4>1, UsesType, InsideType
        <3>2. CASE w.box # None
            <4>1. w.box \in Box /\ bs[w.box].applied /\ bs[w.box].ds = w.ds
                BY <2>1, <3>2 DEF Watched
            <4>2. Owners(bs, w.ds) # {}
                <5>1. Structure(bs)
                    BY DEF Good
                <5>2. QED
                    BY <1>0, <4>1, <5>1, HasOwner
            <4>3. Cardinality(Owners(bs, w.ds)) # 0 /\ Cardinality(Owners(bs, w.ds)) \in Nat
                BY <4>2, InsideType
            <4>4. Uses(bs, V)[w.ds] = V[w.ds] + Cardinality(Owners(bs, w.ds)) /\ V[w.ds] \in Nat
                BY <1>0, <2>2, UsesType
            <4>5. QED
                BY <4>3, <4>4
        <3>3. QED
            BY <3>1, <3>2
    <2>4. ss[w.ds].data = w.data
        BY <2>1, <2>2, <2>3 DEF Watched
    <2>5. w.box # None => cs[w.box].applied /\ cs[w.box].ds = w.ds
        BY <1>5, <2>1 DEF Watched, SameTree
    <2>6. QED
        BY <1>3, <2>1, <2>4, <2>5 DEF Watched
<1>13. Good(t, E, V, K, W)
    BY <1>0, <1>3, <1>7, <1>8, <1>9, <1>10, <1>11, <1>12 DEF Good
<1>14. QED
    BY <1>1, <1>2, <1>3, <1>5, <1>13 DEF cs

(* All that the state of a call has.                                       *)
Whole(v) == v = [boxes |-> v.boxes, src |-> v.src, cache |-> v.cache, opened |-> v.opened]

LEMMA GivenIs ==
    ASSUME NEW v, v.boxes \in [Box -> BoxRecord], NEW b \in Box, NEW ds, Whole(v)
    PROVE  /\ Owner(v, b, ds) = [boxes |-> Given(v.boxes, b, ds, TRUE), src |-> v.src,
                                 cache |-> v.cache, opened |-> v.opened]
           /\ Overlay(v, b, ds) = [boxes |-> Given(v.boxes, b, ds, v.boxes[b].owns),
                                   src |-> v.src, cache |-> v.cache, opened |-> v.opened]
<1> DEFINE bs == v.boxes
<1>1. bs[b] = [bs[b] EXCEPT !.owns = bs[b].owns]
    BY DEF BoxRecord
<1>2. [bs[b] EXCEPT !.ds = ds, !.applied = TRUE]
      = [bs[b] EXCEPT !.ds = ds, !.owns = bs[b].owns, !.applied = TRUE]
    <2> DEFINE z == bs[b]
    <2>1. z \in BoxRecord
        OBVIOUS
    <2> HIDE DEF z
    <2>2. [z EXCEPT !.ds = ds, !.applied = TRUE]
          = [z EXCEPT !.ds = ds, !.owns = z.owns, !.applied = TRUE]
        BY <2>1 DEF BoxRecord
    <2>3. QED
        BY <2>2 DEF z
<1>3. Overlay(v, b, ds) = [v EXCEPT !.boxes = [bs EXCEPT ![b] =
                                  [bs[b] EXCEPT !.ds = ds, !.applied = TRUE]]]
    <2> DEFINE c1 == [bs EXCEPT ![b].ds = ds]
               c2 == [c1 EXCEPT ![b].applied = TRUE]
    <2>1. c2 = [bs EXCEPT ![b] = [bs[b] EXCEPT !.ds = ds, !.applied = TRUE]]
        OBVIOUS
    <2>2. Overlay(v, b, ds) = [v EXCEPT !.boxes = c2]
        BY DEF Overlay, Whole
    <2>3. QED
        BY <2>1, <2>2, Zenon
<1>4. Owner(v, b, ds) = [v EXCEPT !.boxes = [bs EXCEPT ![b] =
                                [bs[b] EXCEPT !.ds = ds, !.owns = TRUE, !.applied = TRUE]]]
    <2> DEFINE c1 == [bs EXCEPT ![b].ds = ds]
               c2 == [c1 EXCEPT ![b].owns = TRUE]
               c3 == [c2 EXCEPT ![b].applied = TRUE]
    <2>1. c3 = [bs EXCEPT ![b] = [bs[b] EXCEPT !.ds = ds, !.owns = TRUE, !.applied = TRUE]]
        OBVIOUS
    <2>2. Owner(v, b, ds) = [v EXCEPT !.boxes = c3]
        BY DEF Owner, Whole
    <2>3. QED
        BY <2>1, <2>2, Zenon
<1>5. QED
    BY <1>2, <1>3, <1>4 DEF Given, Whole

(* A count for each source, and one more for one of them.                  *)
PlusSource(T, ds) == [s \in Source |-> T[s] + One(s = ds)]

LEMMA PlusSourceType ==
    ASSUME NEW T \in [Source -> Nat], NEW ds
    PROVE  /\ PlusSource(T, ds) \in [Source -> Nat]
           /\ \A s \in Source : PlusSource(T, ds)[s] = T[s] + One(s = ds)
BY DEF One, PlusSource

LEMMA OwnedIsGood ==
    ASSUME NEW st, NEW E, NEW V, NEW K, NEW W, Good(st, E, V, K, W),
           NEW b, CanFill(st.boxes, b), NEW ds \in Source,
           NEW v, v = [boxes |-> st.boxes, src |-> v.src, cache |-> v.cache, opened |-> v.opened],
           v.src \in [Source -> SourceRecord], FilesOf(v.src, v.cache),
           v.opened \in OpenedRecord, UsedAs(v.src, PlusSource(Uses(st.boxes, V), ds)),
           \A s \in Source : Uses(st.boxes, V)[s] # 0 => v.src[s].data = st.src[s].data
    PROVE  /\ Good(Owner(v, b, ds), E, V, K, W)
           /\ SameTree(st.boxes, Owner(v, b, ds).boxes)
           /\ Owner(v, b, ds).boxes[b].applied
<1> DEFINE bs == st.boxes
           r  == Owner(v, b, ds)
<1>1. bs \in [Box -> BoxRecord] /\ V \in [Source -> Nat] /\ v.boxes = bs /\ b \in Box
    BY GoodType DEF CanFill
<1>2. r = [boxes |-> Given(bs, b, ds, TRUE), src |-> v.src, cache |-> v.cache,
           opened |-> v.opened]
    <2>1. Whole(v)
        BY DEF Whole
    <2>2. v.boxes \in [Box -> BoxRecord] /\ b \in Box
        BY <1>1
    <2>3. Owner(v, b, ds) = [boxes |-> Given(v.boxes, b, ds, TRUE), src |-> v.src,
                             cache |-> v.cache, opened |-> v.opened]
        BY <2>1, <2>2, GivenIs, Zenon
    <2>4. QED
        BY <1>1, <2>3, Zenon
<1>3. PlusSource(Uses(bs, V), ds) = UsesWith(bs, V, ds, TRUE)
    BY DEF PlusSource, UsesWith, One
<1> HIDE DEF r
<1>4. /\ r.src = v.src /\ r.cache = v.cache /\ r.opened = v.opened
      /\ r = [boxes |-> Given(bs, b, ds, TRUE), src |-> r.src, cache |-> r.cache,
              opened |-> r.opened]
    BY <1>2
<1>5. Supplied(st, V, b, ds, TRUE, r)
    BY <1>3, <1>4 DEF Supplied
<1>6. Good(r, E, V, K, W) /\ SameTree(bs, r.boxes) /\ r.boxes[b].applied
    BY <1>5, GivenIsGood
<1>7. QED
    BY <1>6 DEF r

LEMMA OverlaidIsGood ==
    ASSUME NEW st, NEW E, NEW V, NEW K, NEW W, Good(st, E, V, K, W),
           NEW b, CanFill(st.boxes, b),
           st.boxes[b].parent # None, st.boxes[b].kind \notin {"source", "file"},
           NEW ds, ds = st.boxes[st.boxes[b].parent].ds
    PROVE  /\ Good(Overlay(st, b, ds), E, V, K, W)
           /\ SameTree(st.boxes, Overlay(st, b, ds).boxes)
           /\ Overlay(st, b, ds).boxes[b].applied
<1> DEFINE bs == st.boxes
           p  == bs[b].parent
           r  == Overlay(st, b, ds)
<1>1. /\ st \in State /\ bs \in [Box -> BoxRecord] /\ V \in [Source -> Nat] /\ b \in Box
      /\ bs[b] \in BoxRecord
    BY GoodType DEF CanFill
<1>2. Structure(bs) /\ Filled(bs, b)
    BY <1>1 DEF Good, Structure
<1>3. p \in Box /\ bs[p].applied /\ ds = bs[p].ds
    BY <1>1 DEF BoxRecord, CanFill
<1>4. ds \in Source
    BY <1>1, <1>2, <1>3, HasOwner
<1>5. bs[b].owns = FALSE
    BY <1>1, <1>2 DEF Filled, BoxRecord, CanFill
<1>6. st = [boxes |-> st.boxes, src |-> st.src, cache |-> st.cache, opened |-> st.opened]
    BY <1>1 DEF State
<1>7. r = [boxes |-> Given(bs, b, ds, FALSE), src |-> st.src, cache |-> st.cache,
           opened |-> st.opened]
    <2>1. r = [boxes |-> Given(bs, b, ds, bs[b].owns), src |-> st.src, cache |-> st.cache,
               opened |-> st.opened]
        <3>1. Whole(st)
            BY <1>6 DEF Whole
        <3>2. QED
            BY <1>1, <3>1, GivenIs, Zenon
    <2> HIDE DEF r
    <2>2. QED
        BY <1>5, <2>1, Zenon
<1> HIDE DEF r
<1>8. /\ r.src = st.src /\ r.cache = st.cache /\ r.opened = st.opened
      /\ r = [boxes |-> Given(bs, b, ds, FALSE), src |-> r.src, cache |-> r.cache,
              opened |-> r.opened]
    BY <1>7
<1>9. /\ st.src \in [Source -> SourceRecord] /\ FilesOf(st.src, st.cache)
      /\ st.opened \in OpenedRecord
    BY <1>1 DEF Good, Cached, FilesOf, State, OpenedRecord
<1>10. UsedAs(st.src, UsesWith(bs, V, ds, FALSE))
    <2>1. UsedAs(st.src, Uses(bs, V)) /\ Uses(bs, V) \in [Source -> Nat]
        BY <1>1, SourcesAreUsed, UsesType DEF Good
    <2>2. \A s \in Source : UsesWith(bs, V, ds, FALSE)[s] = Uses(bs, V)[s]
        BY <2>1 DEF UsesWith
    <2>3. QED
        BY <2>1, <2>2 DEF UsedAs
<1>11. Supplied(st, V, b, ds, FALSE, r)
    BY <1>3, <1>4, <1>8, <1>9, <1>10 DEF Supplied
<1>12. Good(r, E, V, K, W) /\ SameTree(bs, r.boxes) /\ r.boxes[b].applied
    BY <1>11, GivenIsGood
<1>13. QED
    BY <1>12 DEF r

LEMMA MemoryIsMade ==
    ASSUME NEW ss, ss \in [Source -> SourceRecord], Fresh(ss) # {},
           NEW T, T \in [Source -> Nat], UsedAs(ss, T),
           NEW rs, rs = NewSource(ss, "memory", Lost, 0)
    PROVE  /\ Min(Fresh(ss)) \in Source /\ rs \in [Source -> SourceRecord]
           /\ UsedAs(rs, PlusSource(T, Min(Fresh(ss))))
           /\ \A z \in Source : T[z] # 0 => rs[z].data = ss[z].data
           /\ \A z \in Source : ss[z].kind # "free" => rs[z].kind = ss[z].kind
<1> DEFINE U == PlusSource(T, Min(Fresh(ss)))
           Made(r, k) == /\ Min(Fresh(ss)) \in Source /\ r[Min(Fresh(ss))].kind = k
                         /\ T[Min(Fresh(ss))] = 0 /\ r \in [Source -> SourceRecord]
                         /\ UsedAs(r, U)
                         /\ \A x \in Source : T[x] # 0 => r[x].data = ss[x].data
                         /\ \A x \in Source : ss[x].kind # "free" => r[x].kind = ss[x].kind
<1>1. U \in [Source -> Nat]
    BY PlusSourceType
<1>2. \A x \in Source : U[x] = T[x] + One(x = Min(Fresh(ss)))
    BY PlusSourceType
<1>6. OneMore(ss, T, U)
    BY <1>1, <1>2 DEF OneMore
<1> HIDE DEF U
<1>3. \A k \in {"file", "external", "memory"} : \A q \in Path \cup {Lost} : \A d \in Int :
         Made(NewSource(ss, k, q, d), k)
    BY <1>6, CreatedSource
<1>4. Made(rs, "memory")
    <2> HIDE DEF Made
    <2>1. "memory" \in {"file", "external", "memory"} /\ Lost \in Path \cup {Lost} /\ 0 \in Int
        OBVIOUS
    <2>2. QED
        BY <1>3, <2>1
<1>5. QED
    BY <1>4 DEF U

LEMMA OpenedState ==
    ASSUME NEW st, st \in State, NEW a, NEW c, NEW o, NEW v,
           v = [st EXCEPT !.src = a, !.cache = c, !.opened = o]
    PROVE  v = [boxes |-> st.boxes, src |-> a, cache |-> c, opened |-> o]
<1> DEFINE v1 == [st EXCEPT !.src = a]
           v2 == [v1 EXCEPT !.cache = c]
           v3 == [v2 EXCEPT !.opened = o]
<1>1. v1 = [boxes |-> st.boxes, src |-> a, cache |-> st.cache, opened |-> st.opened]
    BY DEF State
<1> HIDE DEF v1
<1>2. v2 = [boxes |-> st.boxes, src |-> a, cache |-> c, opened |-> st.opened]
    BY <1>1
<1> HIDE DEF v2
<1>3. v3 = [boxes |-> st.boxes, src |-> a, cache |-> c, opened |-> o]
    BY <1>2
<1>4. QED
    BY <1>3 DEF v1, v2, v3

LEMMA LocallyApplied ==
    ASSUME NEW st, NEW E, NEW V, NEW K, NEW W, Good(st, E, V, K, W), file \in [Path -> Nat],
           NEW b, CanFill(st.boxes, b), NEW u \in LocalFilter(st, b)
    PROVE  /\ Good(u.st, E, V, K, W)
           /\ SameTree(st.boxes, u.st.boxes)
           /\ u.ok => u.st.boxes[b].applied
<1> DEFINE bs == st.boxes
           x  == bs[b]
           in == IF x.parent = None THEN None ELSE bs[x.parent].ds
           ss == st.src
           T  == Uses(bs, V)
<1>0. /\ st \in State /\ bs \in [Box -> BoxRecord] /\ V \in [Source -> Nat]
      /\ ss \in [Source -> SourceRecord] /\ T \in [Source -> Nat] /\ UsedAs(ss, T)
      /\ st.opened \in OpenedRecord /\ b \in Box /\ x \in BoxRecord /\ x.kind # "free"
    <2>1. /\ st \in State /\ bs \in [Box -> BoxRecord] /\ V \in [Source -> Nat]
          /\ ss \in [Source -> SourceRecord] /\ b \in Box /\ x.kind # "free"
        BY GoodType DEF CanFill
    <2>2. T \in [Source -> Nat] /\ UsedAs(ss, T)
        BY <2>1, UsesType, SourcesAreUsed DEF Good
    <2>3. QED
        BY <2>1, <2>2 DEF State, OpenedRecord
<1>1. FilesOf(ss, st.cache)
    BY <1>0 DEF Good, Cached, FilesOf, State
<1>2. st = [boxes |-> bs, src |-> ss, cache |-> st.cache, opened |-> st.opened]
    BY <1>0 DEF State
<1>3. Placed(bs, b)
    BY <1>0 DEF Good, Structure
<1>4. SameTree(bs, bs)
    BY DEF SameTree
<1>5. CASE u = Failed(st)
    BY <1>4, <1>5 DEF Failed
<1>6. ASSUME NEW ds \in Source, NEW v,
             v = [boxes |-> bs, src |-> v.src, cache |-> v.cache, opened |-> v.opened],
             v.src \in [Source -> SourceRecord], FilesOf(v.src, v.cache),
             v.opened \in OpenedRecord, UsedAs(v.src, PlusSource(T, ds)),
             \A s \in Source : T[s] # 0 => v.src[s].data = ss[s].data,
             u = Ok(Owner(v, b, ds))
      PROVE  /\ Good(u.st, E, V, K, W) /\ SameTree(bs, u.st.boxes)
             /\ u.st.boxes[b].applied
    <2>1. /\ Good(Owner(v, b, ds), E, V, K, W) /\ SameTree(bs, Owner(v, b, ds).boxes)
          /\ Owner(v, b, ds).boxes[b].applied
        BY <1>6, OwnedIsGood
    <2>2. QED
        BY <1>6, <2>1 DEF Ok
<1>7. ASSUME x.parent # None, x.kind \notin {"source", "file"}, u = Ok(Overlay(st, b, in))
      PROVE  /\ Good(u.st, E, V, K, W) /\ SameTree(bs, u.st.boxes)
             /\ u.st.boxes[b].applied
    <2>1. in = bs[x.parent].ds
        BY <1>7
    <2> HIDE DEF in
    <2>2. /\ Good(Overlay(st, b, in), E, V, K, W) /\ SameTree(bs, Overlay(st, b, in).boxes)
          /\ Overlay(st, b, in).boxes[b].applied
        BY <1>7, <2>1, OverlaidIsGood
    <2>3. QED
        BY <1>7, <2>2 DEF Ok
<1> HIDE DEF T
<1>8. CASE x.kind = "source"
    <2> DEFINE s == x.from
               rs == AcquireSource(ss, s)
               v == [st EXCEPT !.src = rs]
               U == PlusSource(T, s)
    <2>1. u = Ok(Owner(v, b, s))
        BY <1>8 DEF LocalFilter
    <2>2. s \in Source /\ V[s] # 0
        BY <1>0, <1>8 DEF Good, Sourced
    <2>3. ss[s].kind # "free"
        <3>1. T[s] # 0
            <4>1. T[s] = V[s] + Cardinality(Owners(bs, s))
                BY <1>0, <2>2, UsesType DEF T
            <4>2. V[s] \in Nat /\ Cardinality(Owners(bs, s)) \in Nat
                BY <1>0, <2>2, InsideType
            <4>3. QED
                BY <2>2, <4>1, <4>2
        <3>2. ss[s].use # 0 /\ (ss[s].kind = "free" <=> ss[s] = NoSource)
            BY <1>0, <2>2, <3>1 DEF UsedAs
        <3>3. QED
            BY <3>2 DEF NoSource
    <2>4. U \in [Source -> Nat] /\ \A z \in Source : U[z] = T[z] + One(z = s)
        BY <1>0, PlusSourceType
    <2> HIDE DEF s, U
    <2>5. /\ rs \in [Source -> SourceRecord] /\ UsedAs(rs, U)
          /\ \A z \in Source : rs[z].data = ss[z].data /\ rs[z].kind = ss[z].kind
        BY <1>0, <2>2, <2>3, <2>4, AcquiredSource
    <2> HIDE DEF rs
    <2>6. FilesOf(rs, st.cache)
        BY <1>1, <2>5 DEF FilesOf
    <2>7. /\ v.src = rs /\ v.cache = st.cache /\ v.opened = st.opened
          /\ v = [boxes |-> bs, src |-> v.src, cache |-> v.cache, opened |-> v.opened]
        BY <1>2
    <2> HIDE DEF v
    <2>8. UsedAs(v.src, PlusSource(T, s))
        BY <2>5, <2>7 DEF U
    <2>9. QED
        BY <1>0, <1>6, <2>1, <2>2, <2>5, <2>6, <2>7, <2>8
<1>9. CASE x.kind = "file"
    <2>1. PICK m \in Matches(ss, st.cache, x.from) :
            LET o == Opening(ss, st.cache, x.from, m)
            IN  u = IF o.ds = None THEN Failed(st)
                    ELSE Ok(Owner([st EXCEPT !.src = o.src, !.cache = o.cache,
                                             !.opened = [ds |-> o.ds, path |-> x.from]],
                                  b, o.ds))
        BY <1>9 DEF LocalFilter
    <2> DEFINE o == Opening(ss, st.cache, x.from, m)
               op == [ds |-> o.ds, path |-> x.from]
               v == [st EXCEPT !.src = o.src, !.cache = o.cache, !.opened = op]
               U == PlusSource(T, o.ds)
    <2>2. x.from \in Path
        BY <1>0, <1>9 DEF Good, Sourced
    <2>3. CASE o.ds = None
        BY <1>5, <2>1, <2>3
    <2>4. CASE o.ds # None
        <3>1. U \in [Source -> Nat] /\ \A z \in Source : U[z] = T[z] + One(z = o.ds)
            BY <1>0, PlusSourceType
        <3>2. u = Ok(Owner(v, b, o.ds))
            BY <2>1, <2>4
        <3> HIDE DEF U
        <3>3. /\ o.ds \in Source
              /\ o.src \in [Source -> SourceRecord] /\ UsedAs(o.src, U)
              /\ FilesOf(o.src, o.cache)
              /\ \A z \in Source : T[z] # 0 => o.src[z].data = ss[z].data
            BY <1>0, <1>1, <2>2, <2>4, <3>1, Opened
        <3> HIDE DEF o
        <3>4. op \in OpenedRecord
            BY <2>2, <3>3 DEF OpenedRecord
        <3> HIDE DEF op
        <3>5. /\ v.src = o.src /\ v.cache = o.cache /\ v.opened = op
              /\ v = [boxes |-> bs, src |-> v.src, cache |-> v.cache, opened |-> v.opened]
            <4> DEFINE a == o.src
                       c == o.cache
            <4> HIDE DEF a, c
            <4>1. v = [st EXCEPT !.src = a, !.cache = c, !.opened = op]
                BY DEF a, c
            <4> HIDE DEF v
            <4>2. v = [boxes |-> st.boxes, src |-> a, cache |-> c, opened |-> op]
                BY <1>0, <4>1, OpenedState
            <4>3. QED
                BY <4>2 DEF a, c
        <3> HIDE DEF v
        <3>6. UsedAs(v.src, PlusSource(T, o.ds))
            BY <3>3, <3>5 DEF U
        <3>7. QED
            BY <1>6, <3>2, <3>3, <3>4, <3>5, <3>6
    <2>5. QED
        BY <2>3, <2>4, SMTT(60)
<1>10. CASE x.kind = "buffer"
    <2>1. x.parent # None
        BY <1>3, <1>10 DEF Placed
    <2> DEFINE s == Min(Fresh(ss))
               rs == NewSource(ss, "memory", Lost, 0)
               v == [st EXCEPT !.src = rs]
               U == PlusSource(T, s)
    <2>2. \/ u = Failed(st) \/ u = Ok(Overlay(st, b, in))
          \/ Fresh(ss) # {} /\ u = Ok(Owner(v, b, s))
        BY <1>10, SMTT(60) DEF LocalFilter
    <2>3. CASE u = Ok(Overlay(st, b, in))
        BY <1>7, <1>10, <2>1, <2>3
    <2>4. CASE Fresh(ss) # {} /\ u = Ok(Owner(v, b, s))
        <3>1. U \in [Source -> Nat] /\ \A z \in Source : U[z] = T[z] + One(z = s)
            BY <1>0, PlusSourceType
        <3>2. /\ s \in Source /\ rs \in [Source -> SourceRecord] /\ UsedAs(rs, U)
              /\ \A z \in Source : T[z] # 0 => rs[z].data = ss[z].data
              /\ \A z \in Source : ss[z].kind # "free" => rs[z].kind = ss[z].kind
            <4> HIDE DEF rs, U
            <4>1. rs = NewSource(ss, "memory", Lost, 0)
                BY DEF rs
            <4>2. /\ ss \in [Source -> SourceRecord] /\ Fresh(ss) # {} /\ UsedAs(ss, T)
                  /\ T \in [Source -> Nat]
                BY <1>0, <2>4
            <4> HIDE DEF s, ss
            <4>3. QED
                BY <4>1, <4>2, MemoryIsMade DEF s, U
        <3> HIDE DEF rs, s, U
        <3>3. FilesOf(rs, st.cache)
            <4>1. /\ st.cache \in Seq(Source)
                  /\ \A i \in DOMAIN st.cache : st.cache[i] \in Source /\ ss[st.cache[i]].kind = "file"
                BY <1>1 DEF FilesOf
            <4>2. \A z \in Source : ss[z].kind = "file" => rs[z].kind = "file"
                BY <3>2
            <4>3. QED
                BY <4>1, <4>2 DEF FilesOf
        <3>4. /\ v.src = rs /\ v.cache = st.cache /\ v.opened = st.opened
              /\ v = [boxes |-> bs, src |-> v.src, cache |-> v.cache, opened |-> v.opened]
            BY <1>2
        <3> HIDE DEF v
        <3>5. UsedAs(v.src, PlusSource(T, s))
            BY <3>2, <3>4, SMTT(60) DEF U
        <3>6. QED
            BY <1>0, <1>6, <2>4, <3>2, <3>3, <3>4, <3>5
    <2>5. QED
        BY <1>5, <2>2, <2>3, <2>4
<1>11. CASE x.kind \in {"object", "bytes", "slice"}
    <2>1. x.parent # None
        BY <1>3, <1>11 DEF Placed
    <2>2. u = Failed(st) \/ u = Ok(Overlay(st, b, in))
        BY <1>11 DEF LocalFilter
    <2>3. QED
        BY <1>5, <1>7, <1>11, <2>1, <2>2
<1>12. x.kind \in Filters
    BY <1>0 DEF BoxRecord
<1>13. QED
    BY <1>8, <1>9, <1>10, <1>11, <1>12 DEF Filters

-----------------------------------------------------------------------------
(***************************************************************************)
(* box_apply_filter_internal(): the boxes around a box, and then itself,   *)
(* are filled in.                                                          *)
(***************************************************************************)
(* The boxes around a box: one for each level, the last one in none.       *)
LEMMA AroundIs ==
    ASSUME NEW bs \in [Box -> BoxRecord], Structure(bs), NEW b \in Box, bs[b].kind # "free"
    PROVE  LET up == Around(bs, b)
               d  == bs[b].depth
           IN  /\ d \in 0 .. MaxDepth /\ up[0] = b
               /\ \A i \in 0 .. d : /\ up[i] \in Box /\ bs[up[i]].kind # "free"
                                    /\ bs[up[i]].depth = d - i
               /\ \A i \in 1 .. d : up[i] = bs[up[i - 1]].parent
<1> DEFINE d == bs[b].depth
           X == [n \in 0 .. d |->
                    {x \in Box : bs[x].kind # "free" /\ bs[x].depth = d - n}]
           R == [x \in Box |-> bs[x].parent]
           S == [n \in 1 .. d |-> R]
           Is(g) == g = [i \in 0 .. d |-> IF i = 0 THEN b ELSE bs[g[i - 1]].parent]
           g0 == CHOOSE g : Is(g)
<1>1. d \in Nat /\ d \in 0 .. MaxDepth /\ MaxDepth \in Nat
    BY ReferenceAssumption DEF BoxRecord
<1>2. b \in X[0]
    BY <1>1
<1>3. \A n \in 1 .. d : \A x \in X[n - 1] : x \in Box /\ bs[x].parent \in X[n]
    <2> SUFFICES ASSUME NEW n \in 1 .. d, NEW x \in X[n - 1]
                 PROVE  x \in Box /\ bs[x].parent \in X[n]
        OBVIOUS
    <2>1. n \in 0 .. d /\ n - 1 \in 0 .. d /\ d - (n - 1) > 0 /\ d - n = d - (n - 1) - 1
        BY <1>1
    <2>2. x \in Box /\ bs[x].kind # "free" /\ bs[x].depth = d - (n - 1)
        BY <2>1
    <2>3. Placed(bs, x)
        BY <2>2 DEF Structure
    <2> DEFINE p == bs[x].parent
    <2>4. p # None
        BY <2>1, <2>2, <2>3 DEF Placed
    <2>5. p \in Box /\ bs[p].kind # "free" /\ bs[x].depth = bs[p].depth + 1 /\ bs[p].depth \in Nat
        BY <2>2, <2>3, <2>4 DEF Placed, BoxRecord
    <2> HIDE DEF p, d
    <2>6. bs[p].depth = d - n
        BY <1>1, <2>1, <2>2, <2>5
    <2>7. QED
        BY <2>1, <2>2, <2>5, <2>6 DEF p
<1>4. \E g : Is(g)
    <2>1. \A n \in 1 .. d : \A x \in X[n - 1] : S[n][x] \in X[n]
        BY <1>3
    <2> HIDE DEF X, d, S
    <2>2. PICK g : /\ g = [n \in 0 .. d |-> IF n = 0 THEN b ELSE S[n][g[n - 1]]]
                   /\ \A n \in 0 .. d : g[n] \in X[n]
        <3>1. \E g : Steps(g, d, b, S) /\ Typed(g, d, X)
            BY <1>1, <1>2, <2>1, Iterated
        <3>2. QED
            BY <3>1, Zenon DEF Steps, Typed
    <2>3. \A n \in 1 .. d : n - 1 \in 0 .. d /\ n # 0
        BY <1>1
    <2>4. \A n \in 1 .. d : S[n][g[n - 1]] = bs[g[n - 1]].parent
        <3>1. \A n \in 1 .. d : g[n - 1] \in Box
            BY <1>3, <2>2, <2>3, Zenon
        <3>2. QED
            BY <3>1 DEF S
    <2>5. \A n \in 0 .. d : n = 0 \/ n \in 1 .. d
        BY <1>1
    <2>6. [n \in 0 .. d |-> IF n = 0 THEN b ELSE S[n][g[n - 1]]]
          = [n \in 0 .. d |-> IF n = 0 THEN b ELSE bs[g[n - 1]].parent]
        BY <2>4, <2>5, Zenon
    <2>7. Is(g)
        BY <2>2, <2>6, Zenon
    <2>8. QED
        BY <2>7, Zenon
<1>5. Is(g0)
    <2> HIDE DEF Is
    <2>1. QED
        BY <1>4, Zenon
<1> HIDE DEF g0, X
<1>6. g0[0] = b /\ \A n \in 1 .. d : g0[n] = bs[g0[n - 1]].parent
    <2> HIDE DEF d
    <2>1. \A n \in 1 .. d : n # 0 /\ n \in 0 .. d
        BY <1>1
    <2>2. 0 \in 0 .. d
        BY <1>1
    <2>3. QED
        BY <1>5, <2>1, <2>2
<1>7. \A n \in 0 .. d : g0[n] \in X[n]
    <2> DEFINE P == {n \in 0 .. d : g0[n] \in X[n]}
    <2> HIDE DEF d
    <2>1. 0 \in P
        BY <1>1, <1>2, <1>6
    <2>2. \A n \in 1 .. d : n - 1 \in P => n \in P
        <3>1. \A n \in 1 .. d : n \in 0 .. d
            BY <1>1
        <3>2. QED
            BY <1>3, <1>6, <3>1, Zenon
    <2> HIDE DEF P
    <2>3. \A n \in 0 .. d : n \in P
        BY <1>1, <2>1, <2>2, UpTo
    <2>4. QED
        BY <2>3 DEF P
<1>8. \A i \in 0 .. d : g0[i] \in Box /\ bs[g0[i]].kind # "free" /\ bs[g0[i]].depth = d - i
    <2> HIDE DEF d
    <2>1. QED
        BY <1>7 DEF X
<1>9. Around(bs, b) = g0
    BY DEF Around, g0
<1>10. QED
    BY <1>1, <1>6, <1>8, <1>9

(* A filter that is applied is, or it fails.                               *)
Result == [st : State, ok : BOOLEAN]

LEMMA LocalResult ==
    ASSUME NEW st, NEW b, NEW u \in LocalFilter(st, b)
    PROVE  u = [st |-> u.st, ok |-> u.ok] /\ u.ok \in BOOLEAN
<1> DEFINE x == st.boxes[b]
           IsResult(r) == r = [st |-> r.st, ok |-> r.ok] /\ r.ok \in BOOLEAN
<1>1. \A w : IsResult(Ok(w)) /\ IsResult(Failed(w))
    BY DEF Ok, Failed
<1> HIDE DEF IsResult
<1>2. CASE x.kind = "source"
    BY <1>1, <1>2 DEF LocalFilter, IsResult
<1>3. CASE x.kind = "file"
    <2>1. PICK o : u = IF o.ds = None THEN Failed(st)
                       ELSE Ok(Owner([st EXCEPT !.src = o.src, !.cache = o.cache,
                                                !.opened = [ds |-> o.ds, path |-> x.from]],
                                     b, o.ds))
        BY <1>3 DEF LocalFilter
    <2>2. QED
        BY <1>1, <2>1 DEF IsResult
<1>4. CASE x.kind = "buffer"
    <2>1. \E w : u = Failed(w) \/ u = Ok(w)
        BY <1>4 DEF LocalFilter
    <2>2. QED
        BY <1>1, <2>1 DEF IsResult
<1>5. CASE x.kind \notin {"source", "file", "buffer"}
    <2>1. \E w : u = Failed(w) \/ u = Ok(w)
        BY <1>5 DEF LocalFilter
    <2>2. QED
        BY <1>1, <2>1 DEF IsResult
<1>6. QED
    BY <1>2, <1>3, <1>4, <1>5

LEMMA SameTreeTwice ==
    ASSUME NEW bs, NEW cs, NEW ds, SameTree(bs, cs), SameTree(cs, ds)
    PROVE  SameTree(bs, ds)
BY DEF SameTree

(* A box, once those around it are filled in.                              *)
Applying(u, E, V, K, W, bs) == /\ u \in Result /\ Good(u.st, E, V, K, W)
                               /\ SameTree(bs, u.st.boxes)

LEMMA AppliedNext ==
    ASSUME NEW u, NEW E, NEW V, NEW K, NEW W, NEW bs, Applying(u, E, V, K, W, bs),
           file \in [Path -> Nat], NEW a \in Box, bs[a].kind # "free",
           bs[a].parent # None /\ u.ok => u.st.boxes[bs[a].parent].applied,
           NEW v \in IF u.ok /\ ~u.st.boxes[a].applied THEN LocalFilter(u.st, a) ELSE {u}
    PROVE  /\ Applying(v, E, V, K, W, bs)
           /\ SameTree(u.st.boxes, v.st.boxes)
           /\ v.ok => u.ok /\ v.st.boxes[a].applied
<1>1. Good(u.st, E, V, K, W) /\ SameTree(bs, u.st.boxes) /\ u \in Result
    BY DEF Applying
<1>2. CASE u.ok /\ ~u.st.boxes[a].applied
    <2>1. v \in LocalFilter(u.st, a)
        BY <1>2
    <2>2. CanFill(u.st.boxes, a)
        BY <1>1, <1>2 DEF CanFill, SameTree
    <2> DEFINE st == u.st
    <2> HIDE DEF st
    <2>3. Good(st, E, V, K, W) /\ CanFill(st.boxes, a) /\ v \in LocalFilter(st, a)
        BY <1>1, <2>1, <2>2 DEF st
    <2>4. /\ Good(v.st, E, V, K, W) /\ SameTree(st.boxes, v.st.boxes)
          /\ v.ok => v.st.boxes[a].applied
        BY <2>3, LocallyApplied
    <2>5. v.st \in State
        BY <2>4 DEF Good
    <2>6. v \in Result
        BY <2>3, <2>5, LocalResult DEF Result
    <2>7. SameTree(bs, v.st.boxes)
        BY <1>1, <2>4, SameTreeTwice DEF st
    <2>8. QED
        BY <1>2, <2>4, <2>6, <2>7 DEF Applying, st
<1>3. CASE ~(u.ok /\ ~u.st.boxes[a].applied)
    <2>1. v = u
        BY <1>3
    <2>2. SameTree(u.st.boxes, u.st.boxes)
        BY DEF SameTree
    <2>3. QED
        BY <1>3, <2>1, <2>2
<1>4. QED
    BY <1>2, <1>3

LEMMA Applied ==
    ASSUME NEW st, NEW E, NEW V, NEW K, NEW W, Good(st, E, V, K, W), file \in [Path -> Nat],
           NEW b \in Box, st.boxes[b].kind # "free", NEW r \in Apply(st, b)
    PROVE  /\ Applying(r, E, V, K, W, st.boxes)
           /\ r.ok => r.st.boxes[b].applied
<1> DEFINE bs == st.boxes
           d  == bs[b].depth
           up == Around(bs, b)
           Then(u, a) == IF u.ok /\ ~u.st.boxes[a].applied THEN LocalFilter(u.st, a) ELSE {u}
           Fit(u, n) == /\ Applying(u, E, V, K, W, bs)
                        /\ u.ok => \A i \in (d + 1 - n) .. d : u.st.boxes[up[i]].applied
           X == [n \in 0 .. d + 1 |-> SUBSET {u \in Result : Fit(u, n)}]
           S == [n \in 1 .. d + 1 |->
                    [A \in SUBSET Result |-> UNION {Then(u, up[d + 1 - n]) : u \in A}]]
           Is(g) == g = [n \in 0 .. d + 1 |->
                            IF n = 0 THEN {Ok(st)}
                            ELSE UNION {Then(u, up[d + 1 - n]) : u \in g[n - 1]}]
           g0 == CHOOSE g : Is(g)
<1>0. st \in State /\ bs \in [Box -> BoxRecord] /\ Structure(bs)
    BY GoodType DEF Good
<1>1. /\ d \in Nat /\ up[0] = b
      /\ \A i \in 0 .. d : up[i] \in Box /\ bs[up[i]].kind # "free" /\ bs[up[i]].depth = d - i
      /\ \A i \in 1 .. d : up[i] = bs[up[i - 1]].parent
    <2>1. d \in 0 .. MaxDepth => d \in Nat
        BY ReferenceAssumption
    <2> HIDE DEF bs
    <2>2. QED
        BY <1>0, <2>1, AroundIs DEF bs
<1> DEFINE N == d + 1
<1>2. {Ok(st)} \in X[0]
    <2>1. Ok(st) \in Result /\ Ok(st).st = st
        BY <1>0 DEF Ok, Result
    <2>2. SameTree(bs, bs)
        BY DEF SameTree
    <2>3. Applying(Ok(st), E, V, K, W, bs)
        BY <2>1, <2>2 DEF Applying
    <2>4. (d + 1 - 0) .. d = {}
        BY <1>1
    <2>5. Fit(Ok(st), 0)
        BY <2>3, <2>4
    <2>6. 0 \in 0 .. d + 1
        BY <1>1
    <2> HIDE DEF Fit
    <2>7. QED
        BY <2>1, <2>5, <2>6
<1> HIDE DEF up
<1>3. ASSUME NEW n \in 1 .. N, NEW A \in X[n - 1],
             NEW u \in A, NEW v \in Then(u, up[d + 1 - n])
      PROVE  v \in Result /\ Fit(v, n)
    <2> DEFINE k == d + 1 - n
               a == up[k]
    <2>1. /\ n \in 0 .. d + 1 /\ n - 1 \in 0 .. d + 1 /\ k \in 0 .. d
          /\ d + 1 - (n - 1) = k + 1 /\ k + 1 \in Nat
        BY <1>1
    <2>2. /\ u \in Result /\ Applying(u, E, V, K, W, bs)
          /\ u.ok => \A i \in (d + 1 - (n - 1)) .. d : u.st.boxes[up[i]].applied
        BY <2>1
    <2>3. a \in Box /\ bs[a].kind # "free" /\ bs[a].depth = d - k
        BY <1>1, <2>1
    <2>5. v \in IF u.ok /\ ~u.st.boxes[a].applied THEN LocalFilter(u.st, a) ELSE {u}
        BY Zenon
    <2> HIDE DEF k, N, X, Then, Fit, bs, d
    <2>4. bs[a].parent # None /\ u.ok => u.st.boxes[bs[a].parent].applied
        <3> SUFFICES ASSUME bs[a].parent # None, u.ok
                     PROVE  u.st.boxes[bs[a].parent].applied
            OBVIOUS
        <3>1. bs[a].depth # 0
            <4>1. Placed(bs, a)
                BY <1>0, <2>3 DEF Structure
            <4>2. bs[a].parent \in Box
                BY <1>0, <2>3 DEF BoxRecord
            <4> DEFINE e == bs[bs[a].parent].depth
            <4>3. e \in 0 .. MaxDepth
                BY <1>0, <4>2 DEF BoxRecord
            <4>4. e \in Nat
                <5>1. \A i \in 0 .. MaxDepth : i \in Nat
                    BY ReferenceAssumption
                <5>2. QED
                    BY <4>3, <5>1, Zenon
            <4>5. bs[a].depth = e + 1
                <5> DEFINE z == bs[a]
                <5>1. z.parent # None => z.depth = e + 1
                    BY <4>1, Zenon DEF Placed
                <5> HIDE DEF z, e
                <5>2. z.depth = e + 1
                    BY <5>1, Zenon DEF z
                <5>3. QED
                    BY <5>2 DEF z
            <4> HIDE DEF e
            <4>6. QED
                BY <4>4, <4>5
        <3>2. k + 1 \in 1 .. d /\ (k + 1) - 1 = k
            BY <1>1, <2>1, <2>3, <3>1
        <3>3. up[k + 1] = bs[a].parent
            BY <1>1, <3>2
        <3>4. k + 1 \in (d + 1 - (n - 1)) .. d
            BY <1>1, <2>1, <3>2
        <3>5. u.st.boxes[up[k + 1]].applied
            BY <2>2, <3>4
        <3>6. QED
            BY <3>3, <3>5
    <2> HIDE DEF a
    <2>7. /\ Applying(v, E, V, K, W, bs)
          /\ SameTree(u.st.boxes, v.st.boxes)
          /\ v.ok => u.ok /\ v.st.boxes[a].applied
        BY <2>2, <2>3, <2>4, <2>5, AppliedNext
    <2>8. ASSUME v.ok, NEW i \in (d + 1 - n) .. d PROVE v.st.boxes[up[i]].applied
        <3>1. i = k \/ i \in (d + 1 - (n - 1)) .. d
            BY <1>1, <2>1 DEF k
        <3>2. i \in 0 .. d
            BY <1>1, <2>1 DEF k
        <3>3. CASE i = k
            BY <2>7, <2>8, <3>3 DEF a
        <3>4. CASE i \in (d + 1 - (n - 1)) .. d
            <4>1. u.st.boxes[up[i]].applied
                BY <2>2, <2>7, <2>8, <3>4
            <4>2. up[i] \in Box
                BY <1>1, <3>2
            <4>3. QED
                BY <2>7, <4>1, <4>2 DEF SameTree
        <3>5. QED
            BY <3>1, <3>3, <3>4
    <2>9. QED
        BY <2>7, <2>8 DEF Applying, Fit
<1> HIDE DEF Fit, Then
<1>4. \A n \in 1 .. N : \A A \in X[n - 1] :
         A \in SUBSET Result /\ UNION {Then(u, up[d + 1 - n]) : u \in A} \in X[n]
    <2> SUFFICES ASSUME NEW n \in 1 .. N, NEW A \in X[n - 1]
                 PROVE  A \in SUBSET Result
                        /\ UNION {Then(u, up[d + 1 - n]) : u \in A} \in X[n]
        OBVIOUS
    <2>1. n \in 0 .. d + 1 /\ n - 1 \in 0 .. d + 1
        BY <1>1
    <2>2. A \in SUBSET Result
        BY <2>1
    <2>3. \A v \in UNION {Then(u, up[d + 1 - n]) : u \in A} : v \in Result /\ Fit(v, n)
        BY <1>3
    <2>4. X[n] = SUBSET {u \in Result : Fit(u, n)}
        BY <2>1
    <2> HIDE DEF X
    <2>5. QED
        BY <2>2, <2>3, <2>4, Zenon
<1>5. N \in Nat
    BY <1>1
<1>6. \E g : Is(g)
    <2>1. \A n \in 1 .. N : \A A \in X[n - 1] : S[n][A] \in X[n]
        BY <1>4
    <2> HIDE DEF X, S, N
    <2> DEFINE w == {Ok(st)}
    <2>0. w \in X[0]
        BY <1>2
    <2> HIDE DEF w
    <2>2. PICK g : /\ g = [n \in 0 .. N |-> IF n = 0 THEN w ELSE S[n][g[n - 1]]]
                   /\ \A n \in 0 .. N : g[n] \in X[n]
        <3>1. \E g : Steps(g, N, w, S) /\ Typed(g, N, X)
            BY <1>5, <2>0, <2>1, Iterated
        <3>2. QED
            BY <3>1, Zenon DEF Steps, Typed
    <2>3. \A n \in 1 .. N : n - 1 \in 0 .. N /\ n # 0
        BY <1>5
    <2>4. \A n \in 1 .. N : S[n][g[n - 1]] = UNION {Then(u, up[d + 1 - n]) : u \in g[n - 1]}
        <3>1. \A n \in 1 .. N : g[n - 1] \in SUBSET Result
            BY <1>4, <2>2, <2>3, ZenonT(60)
        <3>2. QED
            BY <3>1 DEF S, N
    <2>5. \A n \in 0 .. N : n = 0 \/ n \in 1 .. N
        BY <1>5
    <2>6. [n \in 0 .. N |-> IF n = 0 THEN w ELSE S[n][g[n - 1]]]
          = [n \in 0 .. N |-> IF n = 0 THEN w
                              ELSE UNION {Then(u, up[d + 1 - n]) : u \in g[n - 1]}]
        BY <2>4, <2>5, Zenon
    <2>7. Is(g)
        BY <2>2, <2>6, Zenon DEF w, N
    <2>8. QED
        BY <2>7, Zenon
<1>7. Is(g0)
    <2> HIDE DEF Is
    <2>1. QED
        BY <1>6, Zenon
<1> HIDE DEF g0, X
<1>8. g0[0] = {Ok(st)}
      /\ \A n \in 1 .. N : g0[n] = UNION {Then(u, up[d + 1 - n]) : u \in g0[n - 1]}
    <2>1. \A n \in 1 .. N : n # 0 /\ n \in 0 .. d + 1
        BY <1>1
    <2>2. 0 \in 0 .. d + 1
        BY <1>1
    <2> HIDE DEF d
    <2>3. QED
        BY <1>7, <2>1, <2>2
<1>9. \A n \in 0 .. N : g0[n] \in X[n]
    <2> DEFINE P == {n \in 0 .. N : g0[n] \in X[n]}
    <2>1. 0 \in P
        <3>1. g0[0] \in X[0]
            BY <1>2, <1>8, Zenon
        <3>2. 0 \in 0 .. N
            BY <1>1
        <3>3. QED
            BY <3>1, <3>2, Zenon
    <2> HIDE DEF d
    <2>2. \A n \in 1 .. N : n - 1 \in P => n \in P
        <3> HIDE DEF N
        <3>1. \A n \in 1 .. N : n \in 0 .. N
            BY <1>5
        <3>2. ASSUME NEW n \in 1 .. N, g0[n - 1] \in X[n - 1] PROVE g0[n] \in X[n]
            <4> DEFINE A == g0[n - 1]
                       B == UNION {Then(u, up[d + 1 - n]) : u \in A}
            <4>1. g0[n] = B
                BY <1>8, <3>2, Zenon
            <4>2. B \in X[n]
                <5> HIDE DEF A
                <5>1. A \in X[n - 1]
                    BY <3>2 DEF A
                <5>2. QED
                    BY <1>4, <5>1, Zenon
            <4> HIDE DEF B
            <4>3. QED
                BY <4>1, <4>2
        <3>3. QED
            BY <3>1, <3>2
    <2> HIDE DEF P, N
    <2>3. \A n \in 0 .. N : n \in P
        BY <1>5, <2>1, <2>2, UpTo
    <2>4. QED
        BY <2>3 DEF P
<1>10. Apply(st, b) = g0[d + 1]
    BY DEF Apply, g0, Then, up
<1>11. Fit(r, d + 1)
    <2>1. N \in 0 .. N
        BY <1>5
    <2>2. g0[N] \in X[N] /\ X[N] = SUBSET {u \in Result : Fit(u, N)}
        BY <1>9, <2>1 DEF X
    <2>3. QED
        BY <1>10, <2>2
<1>12. 0 \in (d + 1 - (d + 1)) .. d
    BY <1>1
<1>13. QED
    BY <1>1, <1>11, <1>12 DEF Fit

LEMMA AppliedParent ==
    ASSUME NEW st, NEW E, NEW V, NEW K, NEW W, Good(st, E, V, K, W), file \in [Path -> Nat],
           NEW b \in Box, st.boxes[b].kind # "free", NEW r \in ApplyParent(st, b)
    PROVE  Applying(r, E, V, K, W, st.boxes)
<1> DEFINE bs == st.boxes
           p  == bs[b].parent
<1>1. st \in State /\ bs \in [Box -> BoxRecord] /\ Placed(bs, b)
    BY GoodType DEF Good, Structure
<1>2. CASE p = None
    <2>1. r = Ok(st)
        BY <1>2 DEF ApplyParent
    <2>2. r \in Result /\ r.st = st
        BY <1>1, <2>1 DEF Ok, Result
    <2>3. SameTree(bs, bs)
        BY DEF SameTree
    <2>4. QED
        BY <2>2, <2>3 DEF Applying
<1>3. CASE p # None
    <2>1. p \in Box /\ bs[p].kind # "free"
        BY <1>1, <1>3 DEF BoxRecord, Placed
    <2>2. r \in Apply(st, p)
        BY <1>3 DEF ApplyParent
    <2> HIDE DEF p
    <2>3. QED
        BY <2>1, <2>2, Applied
<1>4. QED
    BY <1>2, <1>3

(* What is referred to from outside is there.                              *)
LEMMA HeldIsThere ==
    ASSUME NEW st, NEW E, NEW V, NEW K, NEW W, Good(st, E, V, K, W), NEW b \in Box, E[b] # 0
    PROVE  st.boxes[b].kind # "free"
<1>1. /\ st.boxes[b].use = E[b] + Inside(st.boxes, b) /\ E[b] \in Nat
      /\ Inside(st.boxes, b) \in Nat
      /\ st.boxes[b].use = 0 <=> st.boxes[b].kind = "free"
    BY GoodType
<1>2. QED
    BY <1>1

-----------------------------------------------------------------------------
(***************************************************************************)
(* From an item to its box: what a call makes is a box with a reference    *)
(* more, or none, if a filter fails or the box would be too deep.          *)
(***************************************************************************)
Item == [st : State, box : Box \cup {None}]
Boxed(n, E, V, K, W) == n \in Item /\ Good(n.st, Plus(E, n.box), V, K, W)

(* What is watched in a box is there without the reference that is added.  *)
Unaided(W, E) == \A w \in W : w.box # None => E[w.box] # 0

(* There are boxes left for the filters that follow, or as far down as     *)
(* they can be made.                                                       *)
Roomy(st, b, k) ==
    \/ Cardinality(Free(st)) >= k
    \/ Cardinality(Free(st)) >= MaxDepth - st.boxes[b].depth

LEMMA FreeType ==
    ASSUME NEW st
    PROVE  IsFiniteSet(Free(st)) /\ Cardinality(Free(st)) \in Nat
<1>1. Free(st) \in SUBSET Box
    BY DEF Free
<1>2. IsFiniteSet(Free(st))
    BY <1>1, BoxFinite, FS_Subset
<1>3. QED
    BY <1>2, FS_CardinalityType

(* A new box in another one: the room that is left for those that follow.  *)
LEMMA BoxMade ==
    ASSUME NEW st, NEW E, NEW V, NEW K, NEW W, Good(st, E, V, K, W),
           NEW kind, NEW parent, NEW scope, NEW item, NEW from,
           CanMake(st, K, kind, parent, scope, item, from),
           NEW k \in Nat, parent # None => Roomy(st, parent, k + 1),
           parent = None => Cardinality(Free(st)) >= k + 1,
           NEW n, n = NewBox(st, kind, parent, scope, item, from)
    PROVE  /\ Boxed(n, E, V, K, W)
           /\ n.box # None => Roomy(n.st, n.box, k)
           /\ n.box = None => n.st = st
<1>0. /\ st \in State /\ st.boxes \in [Box -> BoxRecord] /\ E \in [Box -> Nat]
      /\ parent \in Box \cup {None}
    BY GoodType DEF CanMake
<1>1. CASE Deep(st, parent)
    <2>1. n = [st |-> st, box |-> None]
        BY <1>1, TooDeep
    <2>2. Plus(E, None) = E
        BY <1>0, PlusType
    <2>3. n \in Item /\ n.st = st /\ n.box = None
        BY <1>0, <2>1 DEF Item
    <2>4. QED
        BY <2>2, <2>3 DEF Boxed
<1>2. CASE ~Deep(st, parent)
    <2> DEFINE f == Cardinality(Free(st))
    <2>1. f \in Nat /\ IsFiniteSet(Free(st))
        BY FreeType
    <2>2. f # 0
        <3>1. CASE parent = None
            BY <2>1, <3>1
        <3>2. CASE parent # None
            <4>1. st.boxes[parent].depth \in 0 .. MaxDepth /\ MaxDepth \in Nat
                BY <1>0, <3>2, ReferenceAssumption DEF BoxRecord
            <4>2. st.boxes[parent].depth # MaxDepth
                BY <1>2, <3>2 DEF Deep
            <4> DEFINE d == st.boxes[parent].depth
            <4>3. f >= k + 1 \/ f >= MaxDepth - d
                BY <3>2 DEF Roomy
            <4> HIDE DEF d, f
            <4>4. QED
                BY <2>1, <4>1, <4>2, <4>3 DEF d
        <3>3. QED
            BY <3>1, <3>2
    <2>3. Free(st) # {}
        BY <2>1, <2>2, FS_EmptySet
    <2>4. /\ n.box \in Free(st) /\ n.box \in Box
          /\ Good(n.st, Plus(E, n.box), V, K, W)
          /\ \A x \in Box : x # n.box => SameBox(n.st.boxes[x], st.boxes[x])
          /\ n.st.boxes[n.box].kind = kind
          /\ n.st.boxes[n.box].depth = IF parent = None THEN 0 ELSE st.boxes[parent].depth + 1
          /\ n = [st |-> n.st, box |-> n.box]
        BY <1>2, <2>3, Created
    <2>5. n \in Item
        <3>2. n.st \in State
            BY <2>4 DEF Good
        <3>3. QED
            BY <2>4, <3>2 DEF Item
    <2>6. n.box # None
        BY <2>4, BoxFinite
    <2>7. Free(n.st) = Free(st) \ {n.box}
        <3>1. kind # "free"
            BY DEF CanMake, Filters
        <3>2. QED
            BY <2>4, <3>1 DEF Free, SameBox
    <2>8. Cardinality(Free(n.st)) = f - 1
        <3> DEFINE S == Free(st)
                   x == n.box
        <3>1. IsFiniteSet(S) /\ Cardinality(S) = f /\ x \in S /\ Free(n.st) = S \ {x}
            BY <2>1, <2>4, <2>7, Zenon
        <3> HIDE DEF S, x
        <3>2. Cardinality(S \ {x}) = Cardinality(S) - 1
            BY <3>1, FS_RemoveElement
        <3>3. QED
            BY <3>1, <3>2
    <2>9. Roomy(n.st, n.box, k)
        <3>1. CASE parent = None
            BY <2>1, <2>8, <3>1 DEF Roomy
        <3>2. CASE parent # None
            <4> DEFINE d == st.boxes[parent].depth
            <4>1. d \in 0 .. MaxDepth /\ MaxDepth \in Nat
                BY <1>0, <3>2, ReferenceAssumption DEF BoxRecord
            <4>2. f >= k + 1 \/ f >= MaxDepth - d
                BY <3>2 DEF Roomy
            <4>3. n.st.boxes[n.box].depth = d + 1
                BY <2>4, <3>2
            <4> HIDE DEF d, f
            <4>4. f - 1 >= k \/ f - 1 >= MaxDepth - (d + 1)
                BY <2>1, <4>1, <4>2
            <4>5. QED
                BY <2>8, <4>3, <4>4 DEF Roomy
        <3>3. QED
            BY <3>1, <3>2
    <2>10. QED
        BY <2>4, <2>5, <2>6, <2>9 DEF Boxed
<1>3. QED
    BY <1>1, <1>2

(* Boxes that are freed leave more room.                                   *)
LEMMA RoomIsLeft ==
    ASSUME NEW st, NEW t, Fewer(st.boxes, t.boxes), NEW b \in Box, t.boxes[b].kind # "free",
           t.boxes[b].depth \in Nat, NEW k \in Nat, Roomy(st, b, k)
    PROVE  Roomy(t, b, k)
<1>1. Free(st) \subseteq Free(t)
    BY DEF Free, Fewer, SameBox
<1> DEFINE f == Cardinality(Free(st))
           g == Cardinality(Free(t))
<1>2. f \in Nat /\ g \in Nat /\ IsFiniteSet(Free(t))
    BY FreeType
<1>3. f <= g
    BY <1>1, <1>2, FS_Subset
<1>4. t.boxes[b].depth = st.boxes[b].depth
    BY DEF Fewer, SameBox
<1> DEFINE e == st.boxes[b].depth
<1>5. e \in Nat /\ MaxDepth \in Nat
    BY <1>4, ReferenceAssumption
<1>6. f >= k \/ f >= MaxDepth - e
    BY DEF Roomy
<1> HIDE DEF e, f, g
<1>7. g >= k \/ g >= MaxDepth - e
    BY <1>2, <1>3, <1>5, <1>6
<1>8. QED
    BY <1>4, <1>7 DEF e, g, Roomy

LEMMA UnaidedPlus ==
    ASSUME NEW st, NEW G, NEW V, NEW K, NEW W, Good(st, G, V, K, W),
           NEW E \in [Box -> Nat], NEW b, Unaided(W, E)
    PROVE  Unaided(W, Plus(E, b))
<1>1. \A w \in W : w.box # None => w.box \in Box
    BY Zenon DEF Good, Watched
<1>2. \A x \in Box : E[x] # 0 => Plus(E, b)[x] # 0
    BY PlusType
<1>3. QED
    BY <1>1, <1>2 DEF Unaided

(* A reference is released: what was counted without it is right.          *)
LEMMA Released ==
    ASSUME NEW st, NEW E \in [Box -> Nat], NEW b \in Box \cup {None}, NEW V, NEW K, NEW W,
           Good(st, Plus(E, b), V, K, W), Unaided(W, E)
    PROVE  /\ Good(DeleteBox(st, b), E, V, K, W)
           /\ Fewer(st.boxes, DeleteBox(st, b).boxes)
BY DeletedPlus DEF Unaided

LEMMA WrappedIs ==
    ASSUME NEW n, NEW E \in [Box -> Nat], NEW V, NEW K, NEW W, Boxed(n, E, V, K, W),
           Unaided(W, E), NEW kind \in {"object", "bytes", "buffer"}, NEW k \in Nat,
           n.box # None => Roomy(n.st, n.box, k + 1),
           NEW r, r = Wrapped(n, kind)
    PROVE  /\ Boxed(r, E, V, K, W)
           /\ r.box # None => Roomy(r.st, r.box, k)
<1>1. CASE n.box = None
    <2>1. r = n
        BY <1>1 DEF Wrapped
    <2>2. QED
        BY <1>1, <2>1
<1>2. CASE n.box # None
    <2> DEFINE c == n.box
               E1 == Plus(E, c)
               m == NewBox(n.st, kind, c, c, Nowhere, None)
    <2>1. r = [st |-> DeleteBox(m.st, c), box |-> m.box]
        BY <1>2 DEF Wrapped
    <2>2. c \in Box /\ E1 \in [Box -> Nat] /\ E1[c] # 0 /\ Good(n.st, E1, V, K, W)
        BY <1>2, PlusType DEF Boxed, Item
    <2> HIDE DEF c, E1
    <2>3. n.st.boxes[c].kind # "free"
        BY <2>2, HeldIsThere
    <2>4. n.st.boxes[c].depth <= n.st.boxes[c].depth
        <3>1. n.st.boxes[c].depth \in 0 .. MaxDepth
            BY <2>2, GoodType DEF BoxRecord
        <3>2. QED
            BY <3>1, ReferenceAssumption
    <2>5. CanMake(n.st, K, kind, c, c, Nowhere, None)
        BY <2>2, <2>3, <2>4, BoxFinite DEF CanMake, Filters
    <2>6. Roomy(n.st, c, k + 1) /\ c # None
        BY <1>2 DEF c
    <2> DEFINE ns == n.st
               wh == Nowhere
               no == None
    <2> HIDE DEF ns, wh, no
    <2>7. /\ Good(ns, E1, V, K, W) /\ CanMake(ns, K, kind, c, c, wh, no)
          /\ c # None => Roomy(ns, c, k + 1)
          /\ c = None => Cardinality(Free(ns)) >= k + 1
          /\ m = NewBox(ns, kind, c, c, wh, no)
        BY <2>2, <2>5, <2>6 DEF ns, wh, no
    <2> HIDE DEF m
    <2>8. Boxed(m, E1, V, K, W) /\ (m.box # None => Roomy(m.st, m.box, k))
        BY <2>7, BoxMade
    <2> DEFINE b == m.box
               F == Plus(E, b)
               ms == m.st
               d == DeleteBox(ms, c)
    <2>9. F \in [Box -> Nat] /\ (b \in Box => F[b] # 0) /\ b \in Box \cup {None}
        BY <2>8, PlusType DEF Boxed, Item
    <2>10. Good(ms, Plus(F, c), V, K, W)
        <3>1. Plus(E1, b) = Plus(F, c)
            BY PlusSwaps DEF E1
        <3>2. QED
            BY <2>8, <3>1 DEF Boxed
    <2>11. Unaided(W, F)
        BY <2>2, UnaidedPlus
    <2> HIDE DEF F, ms, d
    <2>12. Good(d, F, V, K, W) /\ Fewer(ms.boxes, d.boxes)
        BY <2>2, <2>9, <2>10, <2>11, Released DEF d
    <2>13. r = [st |-> d, box |-> b] /\ d \in State
        BY <2>1, <2>12 DEF d, ms, Good
    <2>14. Boxed(r, E, V, K, W)
        BY <2>9, <2>12, <2>13 DEF Boxed, Item, F
    <2>15. b # None => Roomy(d, b, k)
        <3> SUFFICES ASSUME b # None PROVE Roomy(d, b, k)
            OBVIOUS
        <3> HIDE DEF b
        <3>1. b \in Box /\ d.boxes[b].kind # "free"
            BY <2>9, <2>12, HeldIsThere
        <3>2. d.boxes[b].depth \in Nat
            <4>1. d.boxes[b].depth \in 0 .. MaxDepth
                BY <2>12, <3>1, GoodType DEF BoxRecord
            <4>2. QED
                BY <4>1, ReferenceAssumption
        <3>3. Roomy(ms, b, k)
            BY <2>8 DEF b, ms
        <3>4. QED
            BY <2>12, <3>1, <3>2, <3>3, RoomIsLeft
    <2>16. QED
        BY <2>13, <2>14, <2>15
<1>3. QED
    BY <1>1, <1>2

(* One filter after the other.                                             *)
LEMMA FilteredIs ==
    ASSUME NEW n, NEW E \in [Box -> Nat], NEW V, NEW K, NEW W, Boxed(n, E, V, K, W),
           Unaided(W, E), NEW filters \in Seq({"object", "bytes", "buffer"}),
           n.box # None => Roomy(n.st, n.box, Len(filters)),
           NEW r, r = Filtered(n.st, n.box, filters)
    PROVE  Boxed(r, E, V, K, W)
<1> DEFINE N == Len(filters)
           Fit(m, i) == Boxed(m, E, V, K, W) /\ (m.box # None => Roomy(m.st, m.box, N - i))
           X == [i \in 0 .. N |-> {m \in Item : Fit(m, i)}]
           S == [i \in 1 .. N |-> [m \in Item |-> Wrapped(m, filters[i])]]
           a == [st |-> n.st, box |-> n.box]
           Is(g) == g = [i \in 0 .. N |-> IF i = 0 THEN a ELSE Wrapped(g[i - 1], filters[i])]
           g0 == CHOOSE g : Is(g)
<1>1. N \in Nat /\ n \in Item /\ n = a
    BY DEF Boxed, Item
<1>2. a \in X[0]
    <2> DEFINE k == N - 0
    <2>1. k = N /\ 0 \in 0 .. N
        BY <1>1
    <2> HIDE DEF k
    <2>2. n \in Item /\ Boxed(n, E, V, K, W) /\ (n.box # None => Roomy(n.st, n.box, k))
        BY <1>1, <2>1
    <2> HIDE DEF a
    <2>3. QED
        BY <1>1, <2>1, <2>2 DEF k
<1> HIDE DEF a
<1>3. \A i \in 1 .. N : \A m \in X[i - 1] : m \in Item /\ Wrapped(m, filters[i]) \in X[i]
    <2> SUFFICES ASSUME NEW i \in 1 .. N, NEW m \in X[i - 1]
                 PROVE  m \in Item /\ Wrapped(m, filters[i]) \in X[i]
        OBVIOUS
    <2> DEFINE k == N - i
               w == Wrapped(m, filters[i])
               f == filters[i]
    <2>1. /\ i \in 0 .. N /\ i - 1 \in 0 .. N /\ k \in Nat /\ N - (i - 1) = k + 1
          /\ f \in {"object", "bytes", "buffer"}
        BY <1>1
    <2>2. m \in Item /\ Fit(m, i - 1)
        BY <2>1
    <2>3. Boxed(m, E, V, K, W) /\ (m.box # None => Roomy(m.st, m.box, k + 1))
        BY <2>1, <2>2
    <2>4. w = Wrapped(m, f)
        OBVIOUS
    <2> HIDE DEF k, f, w
    <2>5. Boxed(w, E, V, K, W) /\ (w.box # None => Roomy(w.st, w.box, k))
        BY <2>1, <2>3, <2>4, WrappedIs
    <2>6. w \in Item /\ Fit(w, i)
        BY <2>5 DEF Boxed, k
    <2> HIDE DEF Fit
    <2>7. w \in X[i]
        BY <2>1, <2>6
    <2>8. QED
        BY <2>2, <2>7 DEF w
<1>4. \E g : Is(g)
    <2>1. \A i \in 1 .. N : \A m \in X[i - 1] : S[i][m] \in X[i]
        BY <1>3
    <2> HIDE DEF X, S, N
    <2>2. PICK g : /\ g = [i \in 0 .. N |-> IF i = 0 THEN a ELSE S[i][g[i - 1]]]
                   /\ \A i \in 0 .. N : g[i] \in X[i]
        <3>1. \E g : Steps(g, N, a, S) /\ Typed(g, N, X)
            BY <1>1, <1>2, <2>1, Iterated
        <3>2. QED
            BY <3>1, Zenon DEF Steps, Typed
    <2>3. \A i \in 1 .. N : i - 1 \in 0 .. N /\ i # 0
        BY <1>1
    <2>4. \A i \in 1 .. N : S[i][g[i - 1]] = Wrapped(g[i - 1], filters[i])
        <3>1. \A i \in 1 .. N : g[i - 1] \in Item
            BY <1>3, <2>2, <2>3, Zenon
        <3>2. QED
            BY <3>1 DEF S
    <2>5. \A i \in 0 .. N : i = 0 \/ i \in 1 .. N
        BY <1>1
    <2>6. [i \in 0 .. N |-> IF i = 0 THEN a ELSE S[i][g[i - 1]]]
          = [i \in 0 .. N |-> IF i = 0 THEN a ELSE Wrapped(g[i - 1], filters[i])]
        BY <2>4, <2>5, Zenon
    <2>7. Is(g)
        BY <2>2, <2>6, Zenon
    <2>8. QED
        BY <2>7, Zenon
<1>5. Is(g0)
    <2> HIDE DEF Is
    <2>1. QED
        BY <1>4, Zenon
<1> HIDE DEF g0, X
<1>6. g0[0] = a /\ \A i \in 1 .. N : g0[i] = Wrapped(g0[i - 1], filters[i])
    <2> HIDE DEF N
    <2>1. \A i \in 1 .. N : i # 0 /\ i \in 0 .. N
        BY <1>1
    <2>2. 0 \in 0 .. N
        BY <1>1
    <2>3. QED
        BY <1>5, <2>1, <2>2
<1>7. \A i \in 0 .. N : g0[i] \in X[i]
    <2> DEFINE P == {i \in 0 .. N : g0[i] \in X[i]}
    <2> HIDE DEF N
    <2>1. 0 \in P
        BY <1>1, <1>2, <1>6
    <2>2. \A i \in 1 .. N : i - 1 \in P => i \in P
        <3>1. \A i \in 1 .. N : i \in 0 .. N
            BY <1>1
        <3>2. QED
            BY <1>3, <1>6, <3>1, Zenon
    <2> HIDE DEF P
    <2>3. \A i \in 0 .. N : i \in P
        BY <1>1, <2>1, <2>2, UpTo
    <2>4. QED
        BY <2>3 DEF P
<1>8. Filtered(n.st, n.box, filters) = g0[N]
    BY DEF Filtered, g0, a
<1>9. Boxed(g0[N], E, V, K, W)
    <2> HIDE DEF N
    <2>1. N \in 0 .. N
        BY <1>1
    <2>2. QED
        BY <1>7, <2>1 DEF X
<1>10. QED
    BY <1>8, <1>9

(* A filter of an item, and those that follow it.                          *)
LEMMA ChainType ==
    ASSUME NEW chain \in Chains
    PROVE  /\ chain \in Seq({"object", "bytes", "buffer"}) /\ chain # <<>>
           /\ Head(chain) \in {"object", "bytes", "buffer"}
           /\ Tail(chain) \in Seq({"object", "bytes", "buffer"})
           /\ Len(Tail(chain)) \in Nat /\ Len(chain) = Len(Tail(chain)) + 1
BY ReferenceAssumption

LEMMA ItemBoxIs ==
    ASSUME NEW st, NEW E, NEW V, NEW K, NEW W, Good(st, E, V, K, W), file \in [Path -> Nat],
           NEW b \in Box, st.boxes[b].kind # "free", NEW chain \in Chains,
           NEW k \in Nat, Roomy(st, b, k + 1),
           NEW n \in ItemBox(st, b, chain)
    PROVE  /\ Boxed(n, E, V, K, W)
           /\ n.box # None => Roomy(n.st, n.box, k)
<1>1. PICK u \in ApplyParent(st, b) :
        n = IF u.ok THEN NewBox(u.st, Head(chain), b, b, chain, None)
            ELSE [st |-> u.st, box |-> None]
    BY DEF ItemBox
<1>2. Applying(u, E, V, K, W, st.boxes)
    BY AppliedParent
<1> DEFINE us == u.st
<1>3. u \in Result /\ Good(us, E, V, K, W) /\ SameTree(st.boxes, us.boxes) /\ us \in State
      /\ E \in [Box -> Nat]
    BY <1>2, GoodType DEF Applying
<1>4. CASE ~u.ok
    <2>1. n = [st |-> us, box |-> None]
        BY <1>1, <1>4
    <2>2. Plus(E, None) = E
        BY <1>3, PlusType
    <2>3. n \in Item /\ n.st = us /\ n.box = None
        BY <1>3, <2>1 DEF Item
    <2>4. QED
        BY <1>3, <2>2, <2>3 DEF Boxed
<1>5. CASE u.ok
    <2> DEFINE kind == Head(chain)
               no == None
    <2>1. n = NewBox(us, kind, b, b, chain, no)
        BY <1>1, <1>5
    <2>2. us.boxes[b].depth <= us.boxes[b].depth /\ us.boxes[b].kind # "free"
        <3>1. us.boxes[b].depth \in 0 .. MaxDepth
            BY <1>3, GoodType DEF BoxRecord
        <3>2. us.boxes[b].kind # "free"
            BY <1>3 DEF SameTree
        <3>3. QED
            BY <3>1, <3>2, ReferenceAssumption
    <2>3. kind \in {"object", "bytes", "buffer"}
        BY ChainType
    <2> HIDE DEF us, kind
    <2>4. CanMake(us, K, kind, b, b, chain, no)
        BY <2>2, <2>3, BoxFinite DEF CanMake, Filters
    <2>5. Roomy(us, b, k + 1)
        <3>1. Free(us) = Free(st)
            BY <1>3 DEF Free, SameTree
        <3>2. us.boxes[b].depth = st.boxes[b].depth
            BY <1>3 DEF SameTree
        <3>3. QED
            BY <3>1, <3>2 DEF Roomy
    <2>6. b # None
        BY BoxFinite
    <2> HIDE DEF no
    <2>7. Boxed(n, E, V, K, W) /\ (n.box # None => Roomy(n.st, n.box, k))
        <3>1. Good(us, E, V, K, W) /\ (b # None => Roomy(us, b, k + 1))
            BY <1>3, <2>5, Zenon
        <3>2. b = None => Cardinality(Free(us)) >= k + 1
            BY <2>6, Zenon
        <3>3. QED
            BY <2>1, <2>4, <3>1, <3>2, BoxMade
    <2>8. QED
        BY <2>7
<1>6. QED
    BY <1>4, <1>5

LEMMA FilteredItemIs ==
    ASSUME NEW st, NEW E, NEW V, NEW K, NEW W, Good(st, E, V, K, W), Unaided(W, E),
           file \in [Path -> Nat],
           NEW b \in Box, st.boxes[b].kind # "free", NEW chain \in Chains,
           Roomy(st, b, Len(chain)),
           NEW r \in FilteredItem(st, b, chain)
    PROVE  Boxed(r, E, V, K, W)
<1>1. PICK n \in ItemBox(st, b, chain) :
        r = IF n.box = None THEN n ELSE Filtered(n.st, n.box, Tail(chain))
    BY DEF FilteredItem
<1> DEFINE t == Tail(chain)
           k == Len(t)
<1>2. k \in Nat /\ t \in Seq({"object", "bytes", "buffer"}) /\ Len(chain) = k + 1
    BY ChainType
<1>3. Roomy(st, b, k + 1) /\ E \in [Box -> Nat]
    BY <1>2, GoodType
<1> HIDE DEF k, t
<1>4. Boxed(n, E, V, K, W) /\ (n.box # None => Roomy(n.st, n.box, k))
    BY <1>2, <1>3, ItemBoxIs
<1>5. CASE n.box = None
    BY <1>1, <1>4, <1>5
<1>6. CASE n.box # None
    <2>1. r = Filtered(n.st, n.box, t)
        BY <1>1, <1>6 DEF t
    <2>2. n.box # None => Roomy(n.st, n.box, Len(t))
        BY <1>4 DEF k
    <2>3. QED
        BY <1>2, <1>3, <1>4, <2>1, <2>2, FilteredIs
<1>7. QED
    BY <1>5, <1>6

LEMMA FilteredSourceIs ==
    ASSUME NEW st, NEW E, NEW V, NEW K, NEW W, Good(st, E, V, K, W), Unaided(W, E),
           NEW kind, NEW from, \/ kind = "source" /\ from \in K
                               \/ kind = "file" /\ from \in Path,
           NEW chain \in Chains, Cardinality(Free(st)) >= Len(chain) + 1,
           NEW r, r = FilteredSource(st, kind, from, chain)
    PROVE  Boxed(r, E, V, K, W)
<1> DEFINE no == None
           wh == Nowhere
           n == NewBox(st, kind, no, no, wh, from)
           k == Len(chain)
<1>1. k \in Nat /\ chain \in Seq({"object", "bytes", "buffer"}) /\ E \in [Box -> Nat]
    BY GoodType, ChainType
<1>2. r = Filtered(n.st, n.box, chain)
    BY DEF FilteredSource
<1>3. CanMake(st, K, kind, no, no, wh, from)
    <2>1. K \subseteq Source
        BY DEF Good, Sourced
    <2>2. QED
        BY <2>1 DEF CanMake, Filters
<1>4. /\ no = None => Cardinality(Free(st)) >= k + 1
      /\ no # None => Roomy(st, no, k + 1)
    OBVIOUS
<1> HIDE DEF no, wh, k
<1>5. n = NewBox(st, kind, no, no, wh, from)
    OBVIOUS
<1> HIDE DEF n
<1>6. Boxed(n, E, V, K, W) /\ (n.box # None => Roomy(n.st, n.box, k))
    BY <1>1, <1>3, <1>4, <1>5, BoxMade
<1>7. n.box # None => Roomy(n.st, n.box, Len(chain))
    BY <1>6 DEF k
<1>8. QED
    BY <1>1, <1>2, <1>6, <1>7, FilteredIs

-----------------------------------------------------------------------------
(***************************************************************************)
(* What the objects of the client hold, when one of them changes.          *)
(***************************************************************************)
Others(hs, js, h) == h \in Handle /\ \A k \in Handle \ {h} : js[k] = hs[k]

LEMMA HeldIsFinite ==
    ASSUME NEW hs, NEW b
    PROVE  /\ IsFiniteSet(InBox(hs, b)) /\ IsFiniteSet(InValue(hs, b))
           /\ IsFiniteSet(Filtering(hs, b)) /\ IsFiniteSet(InSource(hs, b))
           /\ Cardinality(InBox(hs, b)) \in Nat /\ Cardinality(InValue(hs, b)) \in Nat
           /\ Cardinality(Filtering(hs, b)) \in Nat /\ Cardinality(InSource(hs, b)) \in Nat
<1>1. IsFiniteSet(Handle)
    BY ReferenceAssumption
<1>2. /\ InBox(hs, b) \in SUBSET Handle /\ InValue(hs, b) \in SUBSET Handle
      /\ Filtering(hs, b) \in SUBSET Handle /\ InSource(hs, b) \in SUBSET Handle
    BY DEF InBox, InValue, Filtering, InSource
<1>3. /\ IsFiniteSet(InBox(hs, b)) /\ IsFiniteSet(InValue(hs, b))
      /\ IsFiniteSet(Filtering(hs, b)) /\ IsFiniteSet(InSource(hs, b))
    BY <1>1, <1>2, FS_Subset
<1>4. QED
    BY <1>3, FS_CardinalityType

LEMMA HeldType ==
    ASSUME NEW hs
    PROVE  /\ HeldBoxes(hs) \in [Box -> Nat]
           /\ \A b \in Box : HeldBoxes(hs)[b] = Held(hs, b) /\ Held(hs, b) \in Nat
           /\ \A h \in Handle : \A b \in Box :
                 hs[h].box = b \/ hs[h].value.box = b \/ hs[h].filtered = b
                 => HeldBoxes(hs)[b] # 0
<1>1. \A b \in Box : Held(hs, b) \in Nat
    BY HeldIsFinite DEF Held
<1>2. ASSUME NEW h \in Handle, NEW b \in Box,
             hs[h].box = b \/ hs[h].value.box = b \/ hs[h].filtered = b
      PROVE  Held(hs, b) # 0
    <2> DEFINE S1 == InBox(hs, b)
               S2 == InValue(hs, b)
               S3 == Filtering(hs, b)
    <2>1. S1 # {} \/ S2 # {} \/ S3 # {}
        BY <1>2 DEF InBox, InValue, Filtering
    <2>2. /\ IsFiniteSet(S1) /\ IsFiniteSet(S2) /\ IsFiniteSet(S3)
          /\ Cardinality(S1) \in Nat /\ Cardinality(S2) \in Nat /\ Cardinality(S3) \in Nat
        BY HeldIsFinite
    <2>3. Held(hs, b) = Cardinality(S1) + Cardinality(S2) + Cardinality(S3)
        BY DEF Held
    <2> HIDE DEF S1, S2, S3
    <2>4. Cardinality(S1) # 0 \/ Cardinality(S2) # 0 \/ Cardinality(S3) # 0
        BY <2>1, <2>2, FS_EmptySet
    <2>5. QED
        BY <2>2, <2>3, <2>4
<1>3. QED
    BY <1>1, <1>2 DEF HeldBoxes

(* What one of them holds.                                                 *)
Own(x, b) == One(x.box = b) + One(x.value.box = b) + One(x.filtered = b)

LEMMA HeldDiffers ==
    ASSUME NEW hs, NEW js, NEW h, Others(hs, js, h), NEW b \in Box
    PROVE  Held(js, b) + Own(hs[h], b) = Held(hs, b) + Own(js[h], b)
<1>1. IsFiniteSet(Handle) /\ h \in Handle
    BY ReferenceAssumption DEF Others
<1> DEFINE S1(f) == InBox(f, b)
           S2(f) == InValue(f, b)
           S3(f) == Filtering(f, b)
<1> USE DEF InBox, InValue, Filtering
<1>2. /\ S1(hs) \in SUBSET Handle /\ S1(js) \in SUBSET Handle
      /\ S2(hs) \in SUBSET Handle /\ S2(js) \in SUBSET Handle
      /\ S3(hs) \in SUBSET Handle /\ S3(js) \in SUBSET Handle
    OBVIOUS
<1>3. S1(hs) \ {h} = S1(js) \ {h} /\ S2(hs) \ {h} = S2(js) \ {h} /\ S3(hs) \ {h} = S3(js) \ {h}
    BY DEF Others
<1>4. /\ h \in S1(hs) <=> hs[h].box = b
      /\ h \in S1(js) <=> js[h].box = b
      /\ h \in S2(hs) <=> hs[h].value.box = b
      /\ h \in S2(js) <=> js[h].value.box = b
      /\ h \in S3(hs) <=> hs[h].filtered = b
      /\ h \in S3(js) <=> js[h].filtered = b
    BY <1>1
<1>5. /\ Held(hs, b) = Cardinality(S1(hs)) + Cardinality(S2(hs)) + Cardinality(S3(hs))
      /\ Held(js, b) = Cardinality(S1(js)) + Cardinality(S2(js)) + Cardinality(S3(js))
    BY DEF Held
<1> HIDE DEF S1, S2, S3, InBox, InValue, Filtering
<1>6. /\ Cardinality(S1(hs)) \in Nat /\ Cardinality(S1(js)) \in Nat
      /\ Cardinality(S1(js)) + One(h \in S1(hs)) = Cardinality(S1(hs)) + One(h \in S1(js))
    BY <1>1, <1>2, <1>3, CountDiffers
<1>7. /\ Cardinality(S2(hs)) \in Nat /\ Cardinality(S2(js)) \in Nat
      /\ Cardinality(S2(js)) + One(h \in S2(hs)) = Cardinality(S2(hs)) + One(h \in S2(js))
    BY <1>1, <1>2, <1>3, CountDiffers
<1>8. /\ Cardinality(S3(hs)) \in Nat /\ Cardinality(S3(js)) \in Nat
      /\ Cardinality(S3(js)) + One(h \in S3(hs)) = Cardinality(S3(hs)) + One(h \in S3(js))
    BY <1>1, <1>2, <1>3, CountDiffers
<1>9. /\ Own(hs[h], b) = One(h \in S1(hs)) + One(h \in S2(hs)) + One(h \in S3(hs))
      /\ Own(js[h], b) = One(h \in S1(js)) + One(h \in S2(js)) + One(h \in S3(js))
    BY <1>4 DEF Own, One
<1>10. \A p \in BOOLEAN : One(p) \in Nat
    BY DEF One
<1> DEFINE a1 == One(h \in S1(hs))
           a2 == One(h \in S2(hs))
           a3 == One(h \in S3(hs))
           b1 == One(h \in S1(js))
           b2 == One(h \in S2(js))
           b3 == One(h \in S3(js))
<1>11. /\ a1 \in Nat /\ a2 \in Nat /\ a3 \in Nat /\ b1 \in Nat /\ b2 \in Nat /\ b3 \in Nat
    BY DEF One
<1>12. /\ Cardinality(S1(js)) + a1 = Cardinality(S1(hs)) + b1
       /\ Cardinality(S2(js)) + a2 = Cardinality(S2(hs)) + b2
       /\ Cardinality(S3(js)) + a3 = Cardinality(S3(hs)) + b3
       /\ Own(hs[h], b) = a1 + a2 + a3 /\ Own(js[h], b) = b1 + b2 + b3
    BY <1>6, <1>7, <1>8, <1>9
<1> HIDE DEF a1, a2, a3, b1, b2, b3
<1>13. QED
    BY <1>5, <1>6, <1>7, <1>8, <1>11, <1>12

(* One that holds a box more than it did.                                  *)
HoldsMore(x, y, c) ==
    \/ x.box = None /\ y.box = c /\ y.value.box = x.value.box /\ y.filtered = x.filtered
    \/ x.value.box = None /\ y.value.box = c /\ y.box = x.box /\ y.filtered = x.filtered
    \/ x.filtered = None /\ y.filtered = c /\ y.box = x.box /\ y.value.box = x.value.box

LEMMA HeldPlus ==
    ASSUME NEW hs, NEW js, NEW h, Others(hs, js, h), NEW c, HoldsMore(hs[h], js[h], c)
    PROVE  HeldBoxes(js) = Plus(HeldBoxes(hs), c)
<1>1. ASSUME NEW b \in Box PROVE Held(js, b) = Held(hs, b) + One(b = c)
    <2>1. Held(js, b) + Own(hs[h], b) = Held(hs, b) + Own(js[h], b)
        BY HeldDiffers
    <2>2. Held(js, b) \in Nat /\ Held(hs, b) \in Nat
        BY HeldType
    <2> DEFINE x == hs[h]
               y == js[h]
    <2>3. Own(y, b) = Own(x, b) + One(b = c) /\ Own(x, b) \in Nat /\ One(b = c) \in Nat
        <3>1. None # b
            BY BoxFinite
        <3>2. HoldsMore(x, y, c)
            OBVIOUS
        <3> HIDE DEF x, y
        <3>3. QED
            BY <3>1, <3>2 DEF Own, One, HoldsMore
    <2> HIDE DEF x, y
    <2>4. Held(js, b) + Own(x, b) = Held(hs, b) + Own(y, b)
        BY <2>1 DEF x, y
    <2>5. QED
        BY <2>2, <2>3, <2>4
<1>2. \A b \in Box : HeldBoxes(hs)[b] = Held(hs, b) /\ HeldBoxes(js)[b] = Held(js, b)
    BY HeldType
<1>3. QED
    BY <1>1, <1>2 DEF Plus, HeldBoxes

(* None holds more boxes than before.                                      *)
LEMMA HeldSame ==
    ASSUME NEW hs, NEW js,
           \A k \in Handle : /\ js[k].box = hs[k].box /\ js[k].value.box = hs[k].value.box
                             /\ js[k].filtered = hs[k].filtered
    PROVE  HeldBoxes(js) = HeldBoxes(hs)
<1>1. ASSUME NEW b \in Box PROVE Held(js, b) = Held(hs, b)
    <2>1. /\ InBox(js, b) = InBox(hs, b) /\ InValue(js, b) = InValue(hs, b)
          /\ Filtering(js, b) = Filtering(hs, b)
        BY DEF InBox, InValue, Filtering
    <2>2. QED
        BY <2>1 DEF Held
<1>2. QED
    BY <1>1 DEF HeldBoxes

(* The same for the data sources: the board has some, and values.          *)
LEMMA HeldSourcesType ==
    ASSUME NEW hs, board \in Seq(Source)
    PROVE  /\ HeldSources(hs) \in [Source -> Nat]
           /\ \A s \in Source :
                 /\ HeldSources(hs)[s] = InBoard(s) + Cardinality(InSource(hs, s))
                 /\ InBoard(s) \in Nat
           /\ \A s \in Source : s \in OnBoard => HeldSources(hs)[s] # 0
           /\ \A h \in Handle : \A s \in Source : hs[h].value.ds = s => HeldSources(hs)[s] # 0
           /\ OnBoard \subseteq Source
<1>1. ASSUME NEW s
      PROVE  /\ IsFiniteSet({i \in DOMAIN board : board[i] = s}) /\ InBoard(s) \in Nat
             /\ s \in OnBoard => InBoard(s) # 0
    <2> DEFINE S == {i \in DOMAIN board : board[i] = s}
    <2>1. Len(board) \in Nat /\ DOMAIN board = 1 .. Len(board)
        OBVIOUS
    <2>2. IsFiniteSet(1 .. Len(board))
        BY <2>1, FS_Interval
    <2>3. S \in SUBSET (1 .. Len(board))
        BY <2>1
    <2> HIDE DEF S
    <2>4. IsFiniteSet(S) /\ Cardinality(S) \in Nat /\ (S # {} => Cardinality(S) # 0)
        BY <2>2, <2>3, FS_Subset, FS_CardinalityType, FS_EmptySet
    <2>5. s \in OnBoard => S # {}
        BY DEF OnBoard, S
    <2>6. QED
        BY <2>4, <2>5 DEF InBoard, S
<1>2. ASSUME NEW s \in Source
      PROVE  /\ Cardinality(InSource(hs, s)) \in Nat
             /\ \A h \in Handle : hs[h].value.ds = s
                                  => Cardinality(InSource(hs, s)) # 0
    <2> DEFINE S == InSource(hs, s)
    <2>1. \A h \in Handle : hs[h].value.ds = s => S # {}
        BY DEF InSource
    <2>2. IsFiniteSet(S) /\ Cardinality(S) \in Nat
        BY HeldIsFinite
    <2> HIDE DEF S
    <2>3. S # {} => Cardinality(S) # 0
        BY <2>2, FS_EmptySet
    <2>4. QED
        BY <2>1, <2>2, <2>3 DEF S
<1> DEFINE C(s) == Cardinality(InSource(hs, s))
<1>3. \A s \in Source : C(s) \in Nat /\ InBoard(s) \in Nat
    BY <1>1, <1>2
<1>4. /\ HeldSources(hs) = [s \in Source |-> InBoard(s) + C(s)]
      /\ \A h \in Handle : \A s \in Source : hs[h].value.ds = s => C(s) # 0
      /\ \A s \in Source : s \in OnBoard => InBoard(s) # 0
    BY <1>1, <1>2 DEF HeldSources
<1>5. \A s \in Source : HeldSources(hs)[s] = InBoard(s) + C(s)
    BY <1>4
<1>6. OnBoard \subseteq Source
    BY DEF OnBoard
<1> HIDE DEF C
<1>7. /\ HeldSources(hs) \in [Source -> Nat]
      /\ \A s \in Source : s \in OnBoard => HeldSources(hs)[s] # 0
      /\ \A h \in Handle : \A s \in Source : hs[h].value.ds = s => HeldSources(hs)[s] # 0
    BY <1>3, <1>4, <1>5
<1>8. QED
    BY <1>3, <1>5, <1>6, <1>7 DEF C

LEMMA HeldSourcesSame ==
    ASSUME NEW hs, NEW js, \A k \in Handle : js[k].value.ds = hs[k].value.ds
    PROVE  HeldSources(js) = HeldSources(hs)
<1>1. \A s : InSource(js, s) = InSource(hs, s)
    BY DEF InSource
<1>2. QED
    BY <1>1 DEF HeldSources

LEMMA HeldSourcesPlus ==
    ASSUME NEW hs, NEW js, NEW h, Others(hs, js, h), board \in Seq(Source),
           hs[h].value.ds = None
    PROVE  HeldSources(js) = PlusSource(HeldSources(hs), js[h].value.ds)
<1>1. IsFiniteSet(Handle) /\ h \in Handle
    BY ReferenceAssumption DEF Others
<1>2. ASSUME NEW s \in Source
      PROVE  HeldSources(js)[s] = HeldSources(hs)[s] + One(s = js[h].value.ds)
    <2> DEFINE S(f) == InSource(f, s)
    <2>1. S(hs) \in SUBSET Handle /\ S(js) \in SUBSET Handle /\ S(hs) \ {h} = S(js) \ {h}
        BY DEF Others, InSource
    <2>2. h \notin S(hs) /\ (h \in S(js) <=> js[h].value.ds = s)
        BY <1>1, BoxFinite DEF InSource
    <2>3. /\ HeldSources(hs)[s] = InBoard(s) + Cardinality(S(hs))
          /\ HeldSources(js)[s] = InBoard(s) + Cardinality(S(js)) /\ InBoard(s) \in Nat
        BY HeldSourcesType
    <2> HIDE DEF S
    <2>4. /\ Cardinality(S(hs)) \in Nat /\ Cardinality(S(js)) \in Nat
          /\ Cardinality(S(js)) + One(h \in S(hs)) = Cardinality(S(hs)) + One(h \in S(js))
        BY <1>1, <2>1, CountDiffers
    <2>5. One(h \in S(hs)) = 0 /\ One(h \in S(js)) = One(s = js[h].value.ds)
        BY <2>2 DEF One
    <2> DEFINE o == One(s = js[h].value.ds)
    <2>6. o \in Nat
        BY DEF One
    <2>7. Cardinality(S(js)) = Cardinality(S(hs)) + o
        <3> HIDE DEF o
        <3>1. Cardinality(S(js)) + 0 = Cardinality(S(hs)) + o
            BY <2>4, <2>5 DEF o
        <3>2. QED
            BY <2>4, <2>6, <3>1
    <2> HIDE DEF o
    <2>8. HeldSources(js)[s] = HeldSources(hs)[s] + o
        BY <2>3, <2>4, <2>6, <2>7
    <2>9. QED
        BY <2>8 DEF o
<1>3. QED
    BY <1>2 DEF HeldSources, PlusSource

-----------------------------------------------------------------------------
(***************************************************************************)
(* What is watched.                                                        *)
(***************************************************************************)
LEMMA WatchedIs ==
    ASSUME NEW bs, NEW hs, NEW vs, NEW w
    PROVE  w \in Watches(bs, hs, vs) <=>
           SafeClient /\ \/ \E v \in vs : w = WatchOfView(hs, v)
                         \/ \E h \in Handle : hs[h].value # NoValue /\ w = WatchOfValue(bs, hs[h])
BY DEF Watches

(* A watched box is one that an object of the client holds.                *)
LEMMA WatchedIsHeld ==
    ASSUME NEW bs, NEW hs, NEW vs, \A v \in vs : v.of \in Handle,
           NEW w \in Watches(bs, hs, vs), w.box \in Box
    PROVE  HeldBoxes(hs)[w.box] # 0
<1>1. \E h \in Handle : hs[h].box = w.box \/ hs[h].value.box = w.box \/ hs[h].filtered = w.box
    <2>1. \/ \E v \in vs : w = WatchOfView(hs, v)
          \/ \E h \in Handle : w = WatchOfValue(bs, hs[h])
        BY WatchedIs
    <2>2. ASSUME NEW v \in vs, w = WatchOfView(hs, v)
          PROVE  hs[v.of].box = w.box \/ hs[v.of].filtered = w.box
        BY <2>2 DEF WatchOfView, Keeper
    <2>3. ASSUME NEW h \in Handle, w = WatchOfValue(bs, hs[h])
          PROVE  hs[h].value.box = w.box
        BY <2>3 DEF WatchOfValue
    <2>4. QED
        BY <2>1, <2>2, <2>3
<1>2. QED
    BY <1>1, HeldType

LEMMA UnaidedHeld ==
    ASSUME NEW bs, NEW hs, NEW vs, \A v \in vs : v.of \in Handle,
           \A w \in Watches(bs, hs, vs) : w.box # None => w.box \in Box
    PROVE  Unaided(Watches(bs, hs, vs), HeldBoxes(hs))
BY WatchedIsHeld DEF Unaided

(* Fewer watched, of what is right.                                        *)
LEMMA GoodFewer ==
    ASSUME NEW st, NEW E, NEW V, NEW K, NEW W, Good(st, E, V, K, W), NEW X, X \subseteq W
    PROVE  Good(st, E, V, K, X)
BY Zenon DEF Good

(* What was opened is not referred to.                                     *)
LEMMA GoodOpened ==
    ASSUME NEW st, NEW E, NEW V, NEW K, NEW W, Good(st, E, V, K, W), NEW o \in OpenedRecord,
           NEW t, t = [st EXCEPT !.opened = o]
    PROVE  Good(t, E, V, K, W)
<1>1. st \in State
    BY DEF Good
<1>2. t \in State /\ t.boxes = st.boxes /\ t.src = st.src /\ t.cache = st.cache
    BY <1>1 DEF State, OpenedRecord
<1>3. Cached(t)
    BY <1>2 DEF Good, Cached
<1>4. \A w \in W : Watched(t, E, V, w)
    <2>1. \A w \in W : Watched(st, E, V, w)
        BY DEF Good
    <2>2. QED
        BY <1>2, <2>1 DEF Watched
<1>5. QED
    BY <1>2, <1>3, <1>4 DEF Good

(* What is watched, in the boxes as they are after a call.                 *)
LEMMA SameWatches ==
    ASSUME NEW st, NEW E, NEW V, NEW K, NEW bs, NEW hs, NEW vs,
           Good(st, E, V, K, Watches(bs, hs, vs))
    PROVE  Watches(st.boxes, hs, vs) = Watches(bs, hs, vs)
<1>1. \A w \in Watches(bs, hs, vs) : Watched(st, E, V, w)
    BY DEF Good
<1>2. ASSUME NEW h \in Handle, SafeClient, hs[h].value # NoValue
      PROVE  WatchOfValue(st.boxes, hs[h]) = WatchOfValue(bs, hs[h])
    <2> DEFINE w == WatchOfValue(bs, hs[h])
    <2>1. w \in Watches(bs, hs, vs)
        BY <1>2, WatchedIs
    <2>2. w.box = hs[h].value.box /\ w.ds = IF w.box # None THEN bs[w.box].ds ELSE hs[h].value.ds
        BY DEF WatchOfValue
    <2>3. w.box # None => st.boxes[w.box].ds = w.ds
        <3> HIDE DEF w
        <3>1. QED
            BY <1>1, <2>1 DEF Watched
    <2>4. QED
        BY <2>2, <2>3 DEF WatchOfValue
<1>3. ASSUME NEW w PROVE w \in Watches(st.boxes, hs, vs) <=> w \in Watches(bs, hs, vs)
    <2> USE DEF WatchOfView
    <2>1. \A h \in Handle : SafeClient /\ hs[h].value # NoValue
                            => WatchOfValue(st.boxes, hs[h]) = WatchOfValue(bs, hs[h])
        BY <1>2
    <2>2. w \in Watches(bs, hs, vs) <=>
           SafeClient /\ \/ \E v \in vs : w = WatchOfView(hs, v)
                         \/ \E h \in Handle : hs[h].value # NoValue /\ w = WatchOfValue(bs, hs[h])
        BY WatchedIs
    <2>3. w \in Watches(st.boxes, hs, vs) <=>
           SafeClient /\ \/ \E v \in vs : w = WatchOfView(hs, v)
                         \/ \E h \in Handle : hs[h].value # NoValue
                                              /\ w = WatchOfValue(st.boxes, hs[h])
        BY WatchedIs
    <2>4. QED
        BY <2>1, <2>2, <2>3, Zenon
<1>4. QED
    BY <1>3

(* The state after a call.                                                 *)
ClientIs(hs, vs, bd) ==
    /\ hs \in [Handle -> HandleRecord] /\ \A h \in Handle : IsHandle(hs[h])
    /\ vs \subseteq ViewRecord
    /\ SafeClient => \A v \in vs : Keeper(hs[v.of]) # None
    /\ bd \in Seq(Source)

LEMMA AfterCall ==
    ASSUME NEW st, NEW hs, boxes' = st.boxes, src' = st.src, cache' = st.cache,
           opened' = st.opened, handles' = hs, board' = board, file' = file,
           file \in [Path -> Nat], ClientIs(hs, views', board),
           Good(st, HeldBoxes(hs), HeldSources(hs), OnBoard, Watches(st.boxes, hs, views'))
    PROVE  IInv'
<1>1. [Now EXCEPT !.opened = opened]' = st
    <2>1. st \in State
        BY DEF Good
    <2>2. st = [boxes |-> st.boxes, src |-> st.src, cache |-> st.cache, opened |-> st.opened]
        BY <2>1 DEF State
    <2>3. QED
        BY <2>2 DEF Now
<1>2. ClientOK'
    BY DEF ClientIs, ClientOK
<1>3. HeldBoxes(handles)' = HeldBoxes(hs)
    BY DEF HeldBoxes, Held, InBox, InValue, Filtering
<1>4. HeldSources(handles)' = HeldSources(hs)
    BY DEF HeldSources, InBoard, InSource
<1>5. OnBoard' = OnBoard
    BY DEF OnBoard
<1>6. Watches(boxes, handles, views)' = Watches(st.boxes, hs, views')
    BY DEF Watches, WatchOfView, WatchOfValue, SafeClient
<1>7. QED
    BY <1>1, <1>2, <1>3, <1>4, <1>5, <1>6, Zenon DEF IInv

LEMMA AfterDone ==
    ASSUME NEW st, NEW hs, Done(st, hs), file \in [Path -> Nat], ClientIs(hs, views, board),
           NEW bs,
           Good(st, HeldBoxes(hs), HeldSources(hs), OnBoard, Watches(bs, hs, views))
    PROVE  IInv'
<1>1. /\ boxes' = st.boxes /\ src' = st.src /\ cache' = st.cache /\ opened' = st.opened
      /\ handles' = hs /\ board' = board /\ file' = file /\ views' = views
    BY DEF Done
<1>2. Watches(st.boxes, hs, views) = Watches(bs, hs, views)
    BY SameWatches
<1>3. Good(st, HeldBoxes(hs), HeldSources(hs), OnBoard, Watches(st.boxes, hs, views'))
    BY <1>1, <1>2
<1>4. ClientIs(hs, views', board)
    BY <1>1
<1>5. QED
    BY <1>1, <1>3, <1>4, AfterCall

(* The state before a call.                                                *)
Held0 == HeldBoxes(handles)
Sourced0 == HeldSources(handles)
Watched0 == Watches(boxes, handles, views)

LEMMA BeforeCall ==
    ASSUME IInv
    PROVE  /\ Good(Now, Held0, Sourced0, OnBoard, Watched0)
           /\ Unaided(Watched0, Held0)
           /\ ClientIs(handles, views, board) /\ file \in [Path -> Nat]
           /\ Held0 \in [Box -> Nat] /\ Sourced0 \in [Source -> Nat]
           /\ Now.boxes = boxes /\ Now.src = src /\ Now.cache = cache
<1> DEFINE t == [Now EXCEPT !.opened = opened]
<1>1. Good(t, Held0, Sourced0, OnBoard, Watched0)
    BY Zenon DEF IInv, Held0, Sourced0, Watched0
<1>2. Now = [t EXCEPT !.opened = Nothing]
    <2>1. t = [boxes |-> boxes, src |-> src, cache |-> cache, opened |-> opened]
        BY DEF Now
    <2> HIDE DEF t
    <2>2. QED
        BY <2>1 DEF Now
<1>3. Nothing \in OpenedRecord
    BY DEF Nothing, OpenedRecord
<1> HIDE DEF t
<1>4. Good(Now, Held0, Sourced0, OnBoard, Watched0)
    BY <1>1, <1>2, <1>3, GoodOpened
<1>5. ClientIs(handles, views, board) /\ file \in [Path -> Nat]
    BY DEF IInv, ClientOK, ClientIs
<1>6. \A v \in views : v.of \in Handle
    BY <1>5 DEF ClientIs, ViewRecord
<1>7. \A w \in Watches(boxes, handles, views) : w.box # None => w.box \in Box
    BY <1>4, Zenon DEF Good, Watched, Watched0
<1>8. Unaided(Watched0, Held0)
    BY <1>6, <1>7, UnaidedHeld DEF Watched0, Held0
<1>9. Now.boxes = boxes /\ Now.src = src /\ Now.cache = cache
    BY DEF Now
<1>10. QED
    BY <1>4, <1>5, <1>8, <1>9, GoodType

-----------------------------------------------------------------------------
(***************************************************************************)
(* The calls, one by one.                                                  *)
(***************************************************************************)
LEMMA RoomIs ==
    ASSUME NEW b \in Box \cup {None}, NEW n \in Nat, Room(b, n),
           b # None => boxes[b].depth \in 0 .. MaxDepth
    PROVE  /\ b = None => Cardinality(Free(Now)) >= n
           /\ b # None => Roomy(Now, b, n)
<1> DEFINE d == IF b = None THEN n ELSE MaxDepth - boxes[b].depth
           f == Cardinality(Free(Now))
<1>1. d \in Nat
    BY ReferenceAssumption
<1>2. f >= Min({n, d})
    BY DEF Room
<1>3. f \in Nat
    BY FreeType
<1>4. b = None => d = n
    OBVIOUS
<1>5. b # None => d = MaxDepth - boxes[b].depth
    OBVIOUS
<1> HIDE DEF d, f
<1>6. Min({n, d}) \in {n, d}
    BY <1>1, MinIsIn
<1>7. f >= n \/ f >= d
    BY <1>2, <1>6
<1>8. CASE b = None
    BY <1>4, <1>7, <1>8 DEF f
<1>9. CASE b # None
    <2>1. Now.boxes[b].depth = boxes[b].depth
        BY DEF Now
    <2>2. f >= n \/ f >= MaxDepth - boxes[b].depth
        BY <1>5, <1>7, <1>9
    <2>3. Roomy(Now, b, n)
        BY <2>1, <2>2 DEF Roomy, f
    <2>4. QED
        BY <1>9, <2>3
<1>10. QED
    BY <1>8, <1>9

(* The box of an object of the client is there.                            *)
LEMMA HandleBox ==
    ASSUME IInv, NEW h \in Handle, ~Unused(h)
    PROVE  /\ handles[h] \in HandleRecord /\ IsHandle(handles[h])
           /\ handles[h].box \in Box /\ handles[h].box # None
           /\ boxes[handles[h].box].kind # "free"
           /\ boxes[handles[h].box] \in BoxRecord
<1>1. handles[h] \in HandleRecord /\ IsHandle(handles[h])
    BY BeforeCall DEF ClientIs
<1>2. handles[h].box \in Box
    BY <1>1 DEF IsHandle, HandleRecord, Unused
<1>3. Held0[handles[h].box] # 0
    BY <1>2, HeldType DEF Held0
<1> DEFINE b == handles[h].box
           bs == Now.boxes
<1>4. Good(Now, Held0, Sourced0, OnBoard, Watched0) /\ bs = boxes /\ b \in Box /\ Held0[b] # 0
    BY <1>2, <1>3, BeforeCall
<1> HIDE DEF b
<1>5. bs[b].kind # "free" /\ bs \in [Box -> BoxRecord]
    BY <1>4, HeldIsThere, GoodType
<1>6. QED
    BY <1>1, <1>2, <1>4, <1>5, BoxFinite DEF b

LEMMA BoxOfIs ==
    ASSUME IInv, NEW h \in Handle, IsDataItem(h), ItemRoom(h), NEW n \in BoxOf(h)
    PROVE  Boxed(n, Held0, Sourced0, OnBoard, Watched0)
<1> DEFINE b == handles[h].box
           item == handles[h].item
           st == Now
<1>1. /\ Good(st, Held0, Sourced0, OnBoard, Watched0) /\ Unaided(Watched0, Held0)
      /\ file \in [Path -> Nat] /\ st.boxes = boxes /\ Held0 \in [Box -> Nat]
    BY BeforeCall
<1>2. /\ handles[h] \in HandleRecord /\ IsHandle(handles[h]) /\ b \in Box /\ b # None
      /\ boxes[b].kind # "free" /\ boxes[b] \in BoxRecord
    BY HandleBox DEF IsDataItem, Unused
<1>3. CASE handles[h].kind = "item"
    <2>1. item \in Chains
        BY <1>2, <1>3 DEF IsHandle, HandleRecord
    <2>2. n \in FilteredItem(st, b, item)
        BY <1>3 DEF BoxOf
    <2>3. Len(item) \in Nat
        BY <2>1, ChainType
    <2>4. boxes[b].depth \in 0 .. MaxDepth
        BY <1>2 DEF BoxRecord
    <2>5. Room(b, Len(item))
        BY DEF ItemRoom
    <2> HIDE DEF b, item
    <2>6. Roomy(st, b, Len(item))
        BY <1>2, <2>3, <2>4, <2>5, RoomIs
    <2>7. st.boxes[b].kind # "free"
        BY <1>1, <1>2
    <2> HIDE DEF st
    <2>8. QED
        BY <1>1, <1>2, <2>1, <2>2, <2>6, <2>7, FilteredItemIs
<1>4. CASE handles[h].kind # "item"
    <2>1. n = [st |-> AcquireBox(st, b), box |-> b]
        BY <1>4 DEF BoxOf
    <2>2. b # None => st.boxes[b].kind # "free"
        BY <1>1, <1>2
    <2> HIDE DEF b, st
    <2>3. Good(AcquireBox(st, b), Plus(Held0, b), Sourced0, OnBoard, Watched0)
        BY <1>1, <1>2, <2>2, AcquiredPlus
    <2>4. n \in Item /\ n.st = AcquireBox(st, b) /\ n.box = b
        BY <1>2, <2>1, <2>3 DEF Item, Good
    <2>5. QED
        BY <2>3, <2>4 DEF Boxed
<1>5. QED
    BY <1>3, <1>4

(* What is kept for the views of an object.                                *)
Keeping(g, x, y) == SafeClient => \A v \in views : v.of = g => Keeper(y) = Keeper(x)

(* An object that changes.                                                 *)
Changed(hs, js, g, x) ==
    /\ g \in Handle /\ x \in HandleRecord /\ IsHandle(x) /\ Keeping(g, hs[g], x)
    /\ js = [hs EXCEPT ![g] = x]

LEMMA ObjectChanged ==
    ASSUME NEW hs, ClientIs(hs, views, board), NEW g, NEW x, NEW js, Changed(hs, js, g, x)
    PROVE  ClientIs(js, views, board) /\ Others(hs, js, g) /\ js[g] = x
<1> USE DEF Changed
<1>1. /\ js \in [Handle -> HandleRecord] /\ js[g] = x /\ \A k \in Handle \ {g} : js[k] = hs[k]
      /\ \A k \in Handle : IsHandle(js[k])
    BY DEF ClientIs
<1>2. ASSUME SafeClient, NEW v \in views PROVE Keeper(js[v.of]) # None
    <2>1. v.of \in Handle /\ Keeper(hs[v.of]) # None
        BY <1>2 DEF ClientIs, ViewRecord
    <2>2. CASE v.of = g
        BY <1>1, <1>2, <2>1, <2>2 DEF Keeping
    <2>3. CASE v.of # g
        BY <1>1, <2>1, <2>3
    <2>4. QED
        BY <2>2, <2>3
<1>3. QED
    BY <1>1, <1>2 DEF ClientIs, Others

(* Nothing is watched that was not, when no value is added.                *)
LEMMA NoneMore ==
    ASSUME NEW hs, NEW js, NEW g, Others(hs, js, g), \A v \in views : v.of \in Handle,
           Keeping(g, hs[g], js[g]), js[g].value = NoValue \/ js[g].value = hs[g].value, NEW bs
    PROVE  Watches(bs, js, views) \subseteq Watches(bs, hs, views)
<1> SUFFICES ASSUME NEW w \in Watches(bs, js, views) PROVE w \in Watches(bs, hs, views)
    OBVIOUS
<1>1. SafeClient /\ \/ \E v \in views : w = WatchOfView(js, v)
                    \/ \E h \in Handle : js[h].value # NoValue /\ w = WatchOfValue(bs, js[h])
    BY WatchedIs
<1>2. ASSUME NEW v \in views, w = WatchOfView(js, v) PROVE w = WatchOfView(hs, v)
    <2>1. Keeper(js[v.of]) = Keeper(hs[v.of])
        BY <1>1 DEF Keeping, Others
    <2>2. QED
        BY <1>2, <2>1 DEF WatchOfView
<1>3. ASSUME NEW h \in Handle, js[h].value # NoValue, w = WatchOfValue(bs, js[h])
      PROVE  hs[h].value # NoValue /\ w = WatchOfValue(bs, hs[h])
    <2>1. js[h].value = hs[h].value
        BY <1>3 DEF Others
    <2>2. QED
        BY <1>3, <2>1 DEF WatchOfValue
<1>4. QED
    BY <1>1, <1>2, <1>3, WatchedIs, Zenon

(* A new object in a box.                                                  *)
Added(hs, js, g, x) ==
    /\ g \in Handle /\ hs[g] = NoHandle /\ js = [hs EXCEPT ![g] = x]
    /\ x \in HandleRecord /\ IsHandle(x) /\ x.value = NoValue /\ x.filtered = None

LEMMA ObjectAdded ==
    ASSUME NEW hs, ClientIs(hs, views, board), NEW g, NEW x, NEW js, Added(hs, js, g, x), NEW bs
    PROVE  /\ ClientIs(js, views, board)
           /\ HeldBoxes(js) = Plus(HeldBoxes(hs), x.box)
           /\ HeldSources(js) = HeldSources(hs)
           /\ Watches(bs, js, views) \subseteq Watches(bs, hs, views)
<1>1. /\ g \in Handle /\ hs[g] = NoHandle /\ x.value = NoValue /\ x.filtered = None
      /\ Keeping(g, hs[g], x) /\ \A v \in views : v.of \in Handle
    <2>1. g \in Handle /\ hs[g] = NoHandle /\ x.value = NoValue /\ x.filtered = None
        BY DEF Added
    <2>2. Keeper(hs[g]) = None
        BY <2>1 DEF Keeper, NoHandle
    <2>3. SafeClient => \A v \in views : v.of # g
        BY <2>2 DEF ClientIs
    <2>4. QED
        BY <2>1, <2>3 DEF Keeping, ClientIs, ViewRecord
<1>2. ClientIs(js, views, board) /\ Others(hs, js, g) /\ js[g] = x
    <2>1. Changed(hs, js, g, x)
        BY <1>1 DEF Changed, Added
    <2>2. QED
        BY <2>1, ObjectChanged
<1>3. HeldBoxes(js) = Plus(HeldBoxes(hs), x.box)
    <2>1. HoldsMore(hs[g], js[g], x.box)
        BY <1>1, <1>2 DEF HoldsMore, NoHandle, NoValue
    <2>2. QED
        BY <1>2, <2>1, HeldPlus
<1>4. HeldSources(js) = HeldSources(hs)
    <2>1. \A k \in Handle : js[k].value.ds = hs[k].value.ds
        BY <1>1, <1>2 DEF NoHandle, Others
    <2>2. QED
        BY <2>1, HeldSourcesSame
<1>5. Watches(bs, js, views) \subseteq Watches(bs, hs, views)
    BY <1>1, <1>2, NoneMore
<1>6. QED
    BY <1>2, <1>3, <1>4, <1>5

LEMMA NewObject ==
    ASSUME IInv, NEW g \in Handle, Unused(g), NEW b \in Box,
           NEW x \in HandleRecord, IsHandle(x), x.box = b, x.value = NoValue, x.filtered = None,
           NEW st, Good(st, Plus(Held0, b), Sourced0, OnBoard, Watched0),
           Done(st, [handles EXCEPT ![g] = x])
    PROVE  IInv'
<1> DEFINE hs == [handles EXCEPT ![g] = x]
<1>1. ClientIs(handles, views, board) /\ file \in [Path -> Nat]
    BY BeforeCall
<1>2. handles[g] = NoHandle
    BY <1>1 DEF ClientIs, IsHandle, Unused
<1>3. Done(st, hs) /\ hs = [handles EXCEPT ![g] = x]
    OBVIOUS
<1> HIDE DEF hs
<1>4. /\ ClientIs(hs, views, board)
      /\ HeldBoxes(hs) = Plus(Held0, b) /\ HeldSources(hs) = Sourced0
      /\ Watches(boxes, hs, views) \subseteq Watched0
    <2>1. Added(handles, hs, g, x)
        BY <1>2, <1>3 DEF Added
    <2>2. QED
        BY <1>1, <2>1, ObjectAdded DEF Held0, Sourced0, Watched0
<1>5. Good(st, HeldBoxes(hs), HeldSources(hs), OnBoard, Watches(boxes, hs, views))
    BY <1>4, GoodFewer
<1>6. QED
    BY <1>1, <1>3, <1>4, <1>5, AfterDone

(* The objects are as they were.                                           *)
LEMMA SameObjects ==
    ASSUME IInv, NEW st, Good(st, Held0, Sourced0, OnBoard, Watched0), Done(st, handles)
    PROVE  IInv'
<1>1. ClientIs(handles, views, board) /\ file \in [Path -> Nat]
    BY BeforeCall
<1>2. Good(st, HeldBoxes(handles), HeldSources(handles), OnBoard, Watches(boxes, handles, views))
    BY DEF Held0, Sourced0, Watched0
<1>3. QED
    BY <1>1, <1>2, AfterDone

LEMMA EditedHandle ==
    ASSUME NEW v, NEW k, NEW b, NEW i,
           NEW x, x = [kind |-> "none", box |-> None, item |-> Nowhere, value |-> v,
                       filtered |-> None]
    PROVE  /\ [x EXCEPT !.kind = k, !.box = b, !.item = i]
              = [kind |-> k, box |-> b, item |-> i, value |-> v, filtered |-> None]
           /\ [x EXCEPT !.kind = k, !.box = b]
              = [kind |-> k, box |-> b, item |-> Nowhere, value |-> v, filtered |-> None]
<1> DEFINE x1 == [x EXCEPT !.kind = k]
           x2 == [x1 EXCEPT !.box = b]
           x3 == [x2 EXCEPT !.item = i]
<1>1. x1 = [kind |-> k, box |-> None, item |-> Nowhere, value |-> v, filtered |-> None]
    OBVIOUS
<1> HIDE DEF x1
<1>2. x2 = [kind |-> k, box |-> b, item |-> Nowhere, value |-> v, filtered |-> None]
    BY <1>1
<1> HIDE DEF x2
<1>3. x3 = [kind |-> k, box |-> b, item |-> i, value |-> v, filtered |-> None]
    BY <1>2
<1>4. QED
    BY <1>2, <1>3 DEF x1, x2, x3

LEMMA ObjectsIn ==
    ASSUME NEW b \in Box
    PROVE  /\ \A item \in Chains \cup {Nowhere} :
                 /\ TrackerIn(b, item) \in HandleRecord /\ IsHandle(TrackerIn(b, item))
                 /\ TrackerIn(b, item).box = b /\ TrackerIn(b, item).value = NoValue
                 /\ TrackerIn(b, item).filtered = None
           /\ \A item \in Chains :
                 /\ ItemIn(b, item) \in HandleRecord /\ IsHandle(ItemIn(b, item))
                 /\ ItemIn(b, item).box = b /\ ItemIn(b, item).value = NoValue
                 /\ ItemIn(b, item).filtered = None
           /\ BoxItem(b) \in HandleRecord /\ IsHandle(BoxItem(b))
           /\ BoxItem(b).box = b /\ BoxItem(b).value = NoValue /\ BoxItem(b).filtered = None
<1>1. b # None /\ NoValue \in ValueRecord
    BY BoxFinite DEF NoValue, ValueRecord, Gone
<1>2. \A item \in Chains : item # Nowhere
    BY ChainType DEF Nowhere
<1>3. ASSUME NEW item \in Chains \cup {Nowhere}
      PROVE  TrackerIn(b, item) = [kind |-> "tracker", box |-> b, item |-> item,
                                   value |-> NoValue, filtered |-> None]
    <2>1. NoHandle = [kind |-> "none", box |-> None, item |-> Nowhere, value |-> NoValue,
                      filtered |-> None]
        BY DEF NoHandle
    <2>2. TrackerIn(b, item) = [NoHandle EXCEPT !.kind = "tracker", !.box = b, !.item = item]
        BY DEF TrackerIn
    <2>3. QED
        BY <2>1, <2>2, EditedHandle
<1>4. ASSUME NEW item \in Chains
      PROVE  ItemIn(b, item) = [kind |-> "item", box |-> b, item |-> item,
                                value |-> NoValue, filtered |-> None]
    <2>1. NoHandle = [kind |-> "none", box |-> None, item |-> Nowhere, value |-> NoValue,
                      filtered |-> None]
        BY DEF NoHandle
    <2>2. ItemIn(b, item) = [NoHandle EXCEPT !.kind = "item", !.box = b, !.item = item]
        BY DEF ItemIn
    <2>3. QED
        BY <2>1, <2>2, EditedHandle
<1>5. BoxItem(b) = [kind |-> "box", box |-> b, item |-> Nowhere,
                    value |-> NoValue, filtered |-> None]
    <2>1. NoHandle = [kind |-> "none", box |-> None, item |-> Nowhere, value |-> NoValue,
                      filtered |-> None]
        BY DEF NoHandle
    <2>2. BoxItem(b) = [NoHandle EXCEPT !.kind = "box", !.box = b]
        BY DEF BoxItem
    <2>3. QED
        BY <2>1, <2>2, EditedHandle
<1>6. QED
    BY <1>1, <1>2, <1>3, <1>4, <1>5 DEF HandleRecord, IsHandle

(* An object that holds another box than before.                           *)
Swaps(x, y, b, c) ==
    /\ y.value = x.value
    /\ \/ x.box = b /\ y.box = c /\ y.filtered = x.filtered
       \/ x.filtered = b /\ y.filtered = c /\ y.box = x.box

LEMMA HeldSwaps ==
    ASSUME NEW hs, NEW js, NEW h, Others(hs, js, h), NEW b, NEW c, Swaps(hs[h], js[h], b, c)
    PROVE  Plus(HeldBoxes(js), b) = Plus(HeldBoxes(hs), c)
<1>1. ASSUME NEW a \in Box PROVE Held(js, a) + One(a = b) = Held(hs, a) + One(a = c)
    <2>1. Held(js, a) + Own(hs[h], a) = Held(hs, a) + Own(js[h], a)
        BY HeldDiffers
    <2>2. Held(js, a) \in Nat /\ Held(hs, a) \in Nat
        BY HeldType
    <2> DEFINE x == hs[h]
               y == js[h]
    <2>3. /\ Own(y, a) + One(a = b) = Own(x, a) + One(a = c)
          /\ Own(x, a) \in Nat /\ Own(y, a) \in Nat /\ One(a = b) \in Nat /\ One(a = c) \in Nat
        <3>1. Swaps(x, y, b, c)
            OBVIOUS
        <3> HIDE DEF x, y
        <3>2. QED
            BY <3>1 DEF Own, One, Swaps
    <2> HIDE DEF x, y
    <2>4. Held(js, a) + Own(x, a) = Held(hs, a) + Own(y, a)
        BY <2>1 DEF x, y
    <2>5. QED
        BY <2>2, <2>3, <2>4
<1>2. \A a \in Box : HeldBoxes(hs)[a] = Held(hs, a) /\ HeldBoxes(js)[a] = Held(js, a)
    BY HeldType
<1>3. QED
    BY <1>1, <1>2 DEF Plus

(* The box that it held is released, once it has the other one.            *)
LEMMA Exchanged ==
    ASSUME NEW hs, ClientIs(hs, views, board), NEW h, NEW y, NEW js, Changed(hs, js, h, y),
           NEW b \in Box \cup {None}, NEW c, Swaps(hs[h], y, b, c), NEW K, NEW bs,
           NEW st, Good(st, Plus(HeldBoxes(hs), c), HeldSources(hs), K, Watches(bs, hs, views))
    PROVE  /\ ClientIs(js, views, board)
           /\ Good(DeleteBox(st, b), HeldBoxes(js), HeldSources(js), K, Watches(bs, js, views))
<1>1. ClientIs(js, views, board) /\ Others(hs, js, h) /\ js[h] = y
    BY ObjectChanged
<1>2. Plus(HeldBoxes(js), b) = Plus(HeldBoxes(hs), c)
    BY <1>1, HeldSwaps
<1>3. HeldSources(js) = HeldSources(hs)
    <2>1. \A k \in Handle : js[k].value.ds = hs[k].value.ds
        BY <1>1 DEF Others, Swaps
    <2>2. QED
        BY <2>1, HeldSourcesSame
<1>4. \A v \in views : v.of \in Handle
    BY DEF ClientIs, ViewRecord
<1>5. Watches(bs, js, views) \subseteq Watches(bs, hs, views)
    <2>1. Keeping(h, hs[h], js[h]) /\ js[h].value = hs[h].value
        BY <1>1 DEF Changed, Swaps
    <2>2. QED
        BY <1>1, <1>4, <2>1, NoneMore
<1>6. Good(st, Plus(HeldBoxes(js), b), HeldSources(js), K, Watches(bs, js, views))
    BY <1>2, <1>3, <1>5, GoodFewer
<1>7. Unaided(Watches(bs, js, views), HeldBoxes(js))
    <2>1. \A w \in Watches(bs, js, views) : w.box # None => w.box \in Box
        BY <1>6 DEF Good, Watched
    <2>2. QED
        BY <1>4, <2>1, UnaidedHeld
<1>8. HeldBoxes(js) \in [Box -> Nat]
    BY HeldType
<1>9. QED
    BY <1>1, <1>6, <1>7, <1>8, Released

LEMMA GoodMore ==
    ASSUME NEW st, NEW E, NEW V, NEW K, NEW W, Good(st, E, V, K, W), NEW w, Watched(st, E, V, w),
           NEW X, X \subseteq W \cup {w}
    PROVE  Good(st, E, V, K, X)
BY DEF Good

(* A call that makes a box of an item, and leaves none if it fails.        *)
LEMMA NoneMade ==
    ASSUME IInv, NEW n, Boxed(n, Held0, Sourced0, OnBoard, Watched0), n.box = None,
           Done(n.st, handles)
    PROVE  IInv'
<1>1. Plus(Held0, None) = Held0
    BY BeforeCall, PlusType
<1>2. Good(n.st, Held0, Sourced0, OnBoard, Watched0)
    BY <1>1 DEF Boxed
<1>3. QED
    BY <1>2, SameObjects

LEMMA EvalExprKeeps ==
    ASSUME IInv, NEW h \in Handle, EvalExpr(h)
    PROVE  IInv'
<1>1. PICK chain \in Chains :
        /\ Room(None, Len(chain) + 1)
        /\ \E n \in {FilteredSource(Now, "source", board[i], chain) : i \in DOMAIN board}
                    \cup {FilteredSource(Now, "file", p, chain) : p \in Path} :
              Done(n.st, IF n.box = None THEN handles
                         ELSE [handles EXCEPT ![h] = BoxItem(n.box)])
    BY DEF EvalExpr
<1>2. PICK n \in {FilteredSource(Now, "source", board[i], chain) : i \in DOMAIN board}
                 \cup {FilteredSource(Now, "file", p, chain) : p \in Path} :
        Done(n.st, IF n.box = None THEN handles
                   ELSE [handles EXCEPT ![h] = BoxItem(n.box)])
    BY <1>1
<1>3. PICK kind, from : /\ n = FilteredSource(Now, kind, from, chain)
                        /\ \/ kind = "source" /\ from \in OnBoard
                           \/ kind = "file" /\ from \in Path
    BY <1>2 DEF OnBoard
<1>4. Cardinality(Free(Now)) >= Len(chain) + 1
    <2>1. Len(chain) + 1 \in Nat
        BY ChainType
    <2>2. QED
        BY <1>1, <2>1, RoomIs
<1>5. Boxed(n, Held0, Sourced0, OnBoard, Watched0)
    <2>1. /\ Good(Now, Held0, Sourced0, OnBoard, Watched0) /\ Unaided(Watched0, Held0)
        BY BeforeCall
    <2>2. QED
        BY <1>3, <1>4, <2>1, FilteredSourceIs
<1>6. CASE n.box = None
    BY <1>2, <1>5, <1>6, NoneMade
<1>7. CASE n.box # None
    <2>1. n.box \in Box /\ Good(n.st, Plus(Held0, n.box), Sourced0, OnBoard, Watched0)
        BY <1>5, <1>7 DEF Boxed, Item
    <2>2. Done(n.st, [handles EXCEPT ![h] = BoxItem(n.box)]) /\ Unused(h)
        BY <1>2, <1>7 DEF EvalExpr
    <2>3. QED
        BY <2>1, <2>2, ObjectsIn, NewObject
<1>8. QED
    BY <1>6, <1>7

(* A tracker of what is not a container would keep its box for nobody.     *)
LEMMA TrackKeeps ==
    ASSUME IInv, "untracked" \notin Risky, NEW h \in Handle, NEW g \in Handle, Track(h, g)
    PROVE  IInv'
<1>1. IsDataItem(h) /\ Unused(g) /\ Container(LastFilter(h)) /\ ItemRoom(h)
    BY DEF Track
<1>2. PICK n \in BoxOf(h) :
        Done(n.st, IF n.box = None \/ ~Container(LastFilter(h)) THEN handles
                   ELSE [handles EXCEPT ![g] = TrackerIn(n.box, Nowhere)])
    BY DEF Track
<1>3. Boxed(n, Held0, Sourced0, OnBoard, Watched0)
    BY <1>1, BoxOfIs
<1>4. CASE n.box = None
    BY <1>2, <1>3, <1>4, NoneMade
<1>5. CASE n.box # None
    <2>1. n.box \in Box /\ Good(n.st, Plus(Held0, n.box), Sourced0, OnBoard, Watched0)
        BY <1>3, <1>5 DEF Boxed, Item
    <2>2. Done(n.st, [handles EXCEPT ![g] = TrackerIn(n.box, Nowhere)])
        BY <1>1, <1>2, <1>5
    <2>3. QED
        BY <1>1, <2>1, <2>2, ObjectsIn, NewObject
<1>6. QED
    BY <1>4, <1>5

LEMMA CopyKeeps ==
    ASSUME IInv, NEW h \in Handle, NEW g \in Handle, Copy(h, g)
    PROVE  IInv'
<1> DEFINE b == handles[h].box
           item == handles[h].item
<1>1. IsTracker(h) /\ Unused(g) /\ ~Unused(h)
    BY DEF Copy, IsTracker, Unused
<1>2. PICK x \in {TrackerIn(b, item)} \cup (IF OnItem(h) THEN {ItemIn(b, item)} ELSE {}) :
        Done(AcquireBox(Now, b), [handles EXCEPT ![g] = x])
    BY DEF Copy
<1>3. b \in Box /\ boxes[b].kind # "free" /\ item \in Chains \cup {Nowhere}
    BY <1>1, HandleBox DEF HandleRecord
<1>4. Good(AcquireBox(Now, b), Plus(Held0, b), Sourced0, OnBoard, Watched0)
    <2>1. Good(Now, Held0, Sourced0, OnBoard, Watched0) /\ Now.boxes[b].kind # "free"
        BY <1>3, BeforeCall
    <2> HIDE DEF b
    <2>2. QED
        BY <1>3, <2>1, AcquiredPlus
<1>5. x \in HandleRecord /\ IsHandle(x) /\ x.box = b /\ x.value = NoValue /\ x.filtered = None
    <2>1. CASE x = TrackerIn(b, item)
        BY <1>3, <2>1, ObjectsIn
    <2>2. CASE OnItem(h) /\ x = ItemIn(b, item)
        <3>1. item \in Chains
            BY <1>3, <2>2 DEF OnItem
        <3>2. QED
            BY <1>3, <2>2, <3>1, ObjectsIn
    <2>3. QED
        BY <2>1, <2>2
<1> HIDE DEF b, item
<1>6. QED
    BY <1>1, <1>2, <1>3, <1>4, <1>5, NewObject

(* A tracker that stays in its box.                                        *)
LEMMA Moved ==
    ASSUME IInv, NEW h \in Handle, IsTracker(h), NEW i \in Chains \cup {Nowhere},
           Done(Now, [handles EXCEPT ![h].item = i])
    PROVE  IInv'
<1> DEFINE x == handles[h]
           y == [x EXCEPT !.item = i]
           hs == [handles EXCEPT ![h] = y]
<1>1. /\ ClientIs(handles, views, board) /\ file \in [Path -> Nat]
      /\ Good(Now, Held0, Sourced0, OnBoard, Watched0)
    BY BeforeCall
<1>2. x \in HandleRecord /\ IsHandle(x) /\ x.kind = "tracker"
    BY <1>1 DEF ClientIs, IsTracker
<1>3. Done(Now, hs)
    OBVIOUS
<1> HIDE DEF x
<1>4. /\ y \in HandleRecord /\ y.kind = "tracker" /\ y.box = x.box /\ y.value = x.value
      /\ y.filtered = x.filtered
    BY <1>2 DEF HandleRecord
<1> HIDE DEF y
<1>5. IsHandle(y) /\ Keeper(y) = Keeper(x)
    BY <1>2, <1>4 DEF IsHandle, Keeper
<1>6. Changed(handles, hs, h, y)
    BY <1>4, <1>5 DEF Changed, Keeping, x
<1> HIDE DEF hs
<1>7. ClientIs(hs, views, board) /\ Others(handles, hs, h) /\ hs[h] = y
    BY <1>1, <1>6, ObjectChanged
<1>8. \A k \in Handle : /\ hs[k].box = handles[k].box /\ hs[k].value = handles[k].value
                        /\ hs[k].filtered = handles[k].filtered
    BY <1>4, <1>7 DEF Others, x
<1>9. HeldBoxes(hs) = Held0 /\ HeldSources(hs) = Sourced0
    <2>1. HeldBoxes(hs) = Held0
        BY <1>8, HeldSame DEF Held0
    <2>2. HeldSources(hs) = Sourced0
        BY <1>8, HeldSourcesSame DEF Sourced0
    <2>3. QED
        BY <2>1, <2>2
<1>10. Watches(boxes, hs, views) \subseteq Watched0
    <2>1. \A v \in views : v.of \in Handle
        BY <1>1 DEF ClientIs, ViewRecord
    <2>2. Keeping(h, handles[h], hs[h])
        BY <1>5, <1>7 DEF Keeping, x
    <2>3. hs[h].value = handles[h].value
        BY <1>8
    <2>4. QED
        BY <1>7, <2>1, <2>2, <2>3, NoneMore DEF Watched0
<1>11. Good(Now, HeldBoxes(hs), HeldSources(hs), OnBoard, Watches(boxes, hs, views))
    BY <1>1, <1>9, <1>10, GoodFewer
<1>12. QED
    BY <1>1, <1>3, <1>7, <1>11, AfterDone

LEMMA MoveKeeps ==
    ASSUME IInv, NEW h \in Handle, Move(h)
    PROVE  IInv'
BY Moved DEF Move

(* No view is left of a tracker that a safe client moves.                  *)
LEMMA TrackerMoved ==
    ASSUME IInv, NEW h \in Handle, IsTracker(h), Viewed(h) => "move_viewed" \in Risky,
           NEW c \in Box, NEW i \in Chains \cup {Nowhere}, NEW js,
           js = [handles EXCEPT ![h] = TrackerIn(c, i)]
    PROVE  /\ Changed(handles, js, h, TrackerIn(c, i))
           /\ Swaps(handles[h], TrackerIn(c, i), handles[h].box, c)
<1>1. handles[h].value = NoValue /\ handles[h].filtered = None
    BY BeforeCall DEF ClientIs, IsHandle, IsTracker
<1>2. Keeping(h, handles[h], TrackerIn(c, i))
    BY DEF Keeping, SafeClient, Viewed
<1>3. /\ TrackerIn(c, i) \in HandleRecord /\ IsHandle(TrackerIn(c, i))
      /\ TrackerIn(c, i).box = c /\ TrackerIn(c, i).value = NoValue
      /\ TrackerIn(c, i).filtered = None
    BY ObjectsIn
<1>4. QED
    BY <1>1, <1>2, <1>3 DEF Changed, Swaps

LEMMA EnterKeeps ==
    ASSUME IInv, NEW h \in Handle, Enter(h)
    PROVE  IInv'
<1> DEFINE b == handles[h].box
           item == handles[h].item
<1>1. IsTracker(h) /\ OnItem(h) /\ ItemRoom(h) /\ (Viewed(h) => "move_viewed" \in Risky)
      /\ ~Unused(h)
    BY DEF Enter, IsTracker, Unused
<1>2. PICK n \in FilteredItem(Now, b, item) :
        IF n.box = None THEN Done(n.st, handles)
        ELSE \E r \in Apply(DeleteBox(n.st, b), n.box) :
                Done(r.st, [handles EXCEPT ![h] = TrackerIn(n.box, Nowhere)])
    BY DEF Enter
<1>3. /\ b \in Box /\ b # None /\ boxes[b].kind # "free" /\ boxes[b] \in BoxRecord
      /\ item \in Chains
    BY <1>1, HandleBox DEF HandleRecord, OnItem
<1>4. /\ Good(Now, Held0, Sourced0, OnBoard, Watched0) /\ Unaided(Watched0, Held0)
      /\ file \in [Path -> Nat] /\ Now.boxes = boxes /\ ClientIs(handles, views, board)
    BY BeforeCall
<1>5. Roomy(Now, b, Len(item))
    <2>1. Room(b, Len(item)) /\ Len(item) \in Nat /\ boxes[b].depth \in 0 .. MaxDepth
        BY <1>1, <1>3, ChainType DEF ItemRoom, BoxRecord
    <2> HIDE DEF b, item
    <2>2. QED
        BY <1>3, <2>1, RoomIs
<1>6. Boxed(n, Held0, Sourced0, OnBoard, Watched0)
    <2>1. Now.boxes[b].kind # "free"
        BY <1>3, <1>4
    <2> HIDE DEF b, item
    <2>2. QED
        BY <1>2, <1>3, <1>4, <1>5, <2>1, FilteredItemIs
<1>7. CASE n.box = None
    BY <1>2, <1>6, <1>7, NoneMade
<1>8. CASE n.box # None
    <2> DEFINE js == [handles EXCEPT ![h] = TrackerIn(n.box, Nowhere)]
               ds == DeleteBox(n.st, b)
    <2>1. PICK r \in Apply(ds, n.box) : Done(r.st, js)
        BY <1>2, <1>8
    <2>2. n.box \in Box /\ Good(n.st, Plus(Held0, n.box), Sourced0, OnBoard, Watched0)
        BY <1>6, <1>8 DEF Boxed, Item
    <2>3. /\ Changed(handles, js, h, TrackerIn(n.box, Nowhere))
          /\ Swaps(handles[h], TrackerIn(n.box, Nowhere), b, n.box)
        BY <1>1, <2>2, TrackerMoved
    <2>4. js[h].box = n.box
        <3>1. TrackerIn(n.box, Nowhere).box = n.box /\ handles \in [Handle -> HandleRecord]
            BY <1>4, <2>2, ObjectsIn DEF ClientIs
        <3>2. QED
            BY <3>1
    <2> HIDE DEF js
    <2>5. /\ ClientIs(js, views, board)
          /\ Good(ds, HeldBoxes(js), HeldSources(js), OnBoard, Watches(boxes, js, views))
        <3> HIDE DEF b
        <3>1. QED
            BY <1>3, <1>4, <2>2, <2>3, Exchanged DEF Held0, Sourced0, Watched0
    <2> HIDE DEF ds
    <2>6. ds.boxes[n.box].kind # "free"
        <3>1. HeldBoxes(js)[n.box] # 0
            BY <2>2, <2>4, HeldType
        <3>2. QED
            BY <2>2, <2>5, <3>1, HeldIsThere
    <2>7. Good(r.st, HeldBoxes(js), HeldSources(js), OnBoard, Watches(boxes, js, views))
        BY <1>4, <2>1, <2>2, <2>5, <2>6, Applied DEF Applying
    <2>8. QED
        BY <1>4, <2>1, <2>5, <2>7, AfterDone
<1>9. QED
    BY <1>7, <1>8

(* When it does not leave by way of another box, a tracker gives up its    *)
(* reference on the box it is in.                                          *)
LEMMA ReturnKeeps ==
    ASSUME IInv, "leave" \notin Risky, NEW h \in Handle, Return(h)
    PROVE  IInv'
<1> DEFINE t  == handles[h]
           b  == Inner(t.box)
           up == boxes[b].parent
<1>1. /\ IsTracker(h) /\ (Viewed(h) => "move_viewed" \in Risky) /\ ~Unused(h)
      /\ b # t.box /\ up # None => "leave" \in Risky
      /\ IF up = None THEN Done(Now, [handles EXCEPT ![h].item = Nowhere])
         ELSE Done(DeleteBox(AcquireBox(Now, up), b),
                   [handles EXCEPT ![h] =
                       TrackerIn(up, IF KindOf(h) = "slice" THEN t.item ELSE boxes[b].item)])
    BY Zenon DEF Return, IsTracker, Unused
<1>2. CASE up = None
    <2>1. Done(Now, [handles EXCEPT ![h].item = Nowhere])
        BY <1>1, <1>2
    <2>2. QED
        BY <1>1, <2>1, Moved
<1>3. CASE up # None
    <2> DEFINE item == IF KindOf(h) = "slice" THEN t.item ELSE boxes[t.box].item
               js == [handles EXCEPT ![h] = TrackerIn(up, item)]
               st == AcquireBox(Now, up)
    <2>1. b = t.box
        BY <1>1, <1>3
    <2>2. Done(DeleteBox(st, t.box), js)
        BY <1>1, <1>3, <2>1
    <2>3. /\ Good(Now, Held0, Sourced0, OnBoard, Watched0) /\ Now.boxes = boxes
          /\ file \in [Path -> Nat] /\ ClientIs(handles, views, board)
        BY BeforeCall
    <2>4. /\ t.box \in Box /\ boxes[t.box] \in BoxRecord /\ boxes[t.box].kind # "free"
          /\ t \in HandleRecord
        BY <1>1, HandleBox
    <2>5. up = boxes[t.box].parent
        BY <2>1
    <2> HIDE DEF b, up, t
    <2>6. up \in Box /\ item \in Chains \cup {Nowhere}
        BY <1>3, <2>4, <2>5 DEF BoxRecord, HandleRecord
    <2>7. boxes[up].kind # "free"
        <3>1. Structure(boxes)
            BY <2>3 DEF Good
        <3>2. Placed(boxes, t.box)
            BY <2>4, <3>1 DEF Structure
        <3>3. QED
            BY <1>3, <2>5, <3>2 DEF Placed
    <2>8. Good(st, Plus(Held0, up), Sourced0, OnBoard, Watched0)
        <3>1. Now.boxes[up].kind # "free"
            BY <2>3, <2>7
        <3>2. QED
            BY <2>3, <2>6, <3>1, AcquiredPlus
    <2> HIDE DEF item, st
    <2>9. /\ Changed(handles, js, h, TrackerIn(up, item))
          /\ Swaps(handles[h], TrackerIn(up, item), t.box, up)
        BY <1>1, <2>6, TrackerMoved DEF t
    <2> HIDE DEF js
    <2>10. /\ ClientIs(js, views, board)
           /\ Good(DeleteBox(st, t.box), HeldBoxes(js), HeldSources(js), OnBoard,
                   Watches(boxes, js, views))
        <3> DEFINE c == t.box
        <3>1. c \in Box /\ Swaps(handles[h], TrackerIn(up, item), c, up)
            BY <2>4, <2>9
        <3> HIDE DEF c
        <3>2. /\ ClientIs(js, views, board)
              /\ Good(DeleteBox(st, c), HeldBoxes(js), HeldSources(js), OnBoard,
                      Watches(boxes, js, views))
            BY <2>3, <2>8, <2>9, <3>1, Exchanged DEF Held0, Sourced0, Watched0
        <3>3. QED
            BY <3>2 DEF c
    <2>11. QED
        BY <2>2, <2>3, <2>10, AfterDone
<1>4. QED
    BY <1>2, <1>3

(* A DataItem that becomes one of a box keeps its value and its views.     *)
LEMMA BecomesBox ==
    ASSUME IInv, NEW h \in Handle, IsDataItem(h), NEW c \in Box, NEW js,
           js = [handles EXCEPT ![h].kind = "box", ![h].box = c, ![h].item = Nowhere]
    PROVE  \E y : /\ Changed(handles, js, h, y) /\ Swaps(handles[h], y, handles[h].box, c)
<1> DEFINE x == handles[h]
           y == [kind |-> "box", box |-> c, item |-> Nowhere, value |-> x.value,
                 filtered |-> x.filtered]
           y1 == [x EXCEPT !.kind = "box"]
           y2 == [y1 EXCEPT !.box = c]
           y3 == [y2 EXCEPT !.item = Nowhere]
           h1 == [handles EXCEPT ![h] = y1]
           h2 == [h1 EXCEPT ![h] = y2]
           h3 == [h2 EXCEPT ![h] = y3]
<1>1. handles \in [Handle -> HandleRecord] /\ IsHandle(x) /\ x.kind \in {"item", "box"}
    BY BeforeCall DEF ClientIs, IsDataItem
<1>2. x \in HandleRecord /\ x = [kind |-> x.kind, box |-> x.box, item |-> x.item,
                                 value |-> x.value, filtered |-> x.filtered]
    BY <1>1 DEF HandleRecord
<1>3. h1 = [handles EXCEPT ![h].kind = "box"] /\ h1[h] = y1 /\ DOMAIN h1 = Handle
    BY <1>1
<1>4. h2 = [h1 EXCEPT ![h].box = c] /\ h2[h] = y2 /\ DOMAIN h2 = Handle
    <2> HIDE DEF y1, h1
    <2>1. QED
        BY <1>3
<1>5. h3 = [h2 EXCEPT ![h].item = Nowhere] /\ h3[h] = y3
    <2> HIDE DEF y2, h2
    <2>1. QED
        BY <1>4
<1>6. js = h3
    <2>1. js = [[[handles EXCEPT ![h].kind = "box"] EXCEPT ![h].box = c] EXCEPT ![h].item = Nowhere]
        OBVIOUS
    <2> HIDE DEF h1, h2, h3
    <2>2. QED
        BY <1>3, <1>4, <1>5, <2>1
<1>7. h3 = [handles EXCEPT ![h] = y3]
    <2> HIDE DEF y1, y2, y3
    <2>1. QED
        BY <1>1
<1>8. y3 = y
    <2> HIDE DEF x
    <2>1. y1 = [kind |-> "box", box |-> x.box, item |-> x.item, value |-> x.value,
                filtered |-> x.filtered]
        BY <1>2
    <2> HIDE DEF y1
    <2>2. y2 = [kind |-> "box", box |-> c, item |-> x.item, value |-> x.value,
                filtered |-> x.filtered]
        BY <2>1
    <2> HIDE DEF y2
    <2>3. QED
        BY <2>2
<1>9. js = [handles EXCEPT ![h] = y]
    BY <1>6, <1>7, <1>8
<1> HIDE DEF y1, y2, y3, h1, h2, h3, x
<1>10. y \in HandleRecord /\ IsHandle(y) /\ Keeper(y) = Keeper(x)
    <2>1. c # None
        BY BoxFinite
    <2>2. y \in HandleRecord
        BY <1>2 DEF HandleRecord
    <2>3. IsHandle(y)
        BY <1>1, <2>1, <2>2 DEF IsHandle
    <2>4. Keeper(y) = Keeper(x)
        BY <1>1 DEF Keeper
    <2>5. QED
        BY <2>2, <2>3, <2>4
<1>11. Swaps(x, y, x.box, c)
    BY DEF Swaps
<1> HIDE DEF y
<1>12. Changed(handles, js, h, y)
    BY <1>9, <1>10 DEF Changed, Keeping, x
<1>13. QED
    BY <1>11, <1>12 DEF x

LEMMA GetAttrKeeps ==
    ASSUME IInv, NEW h \in Handle, NEW g \in Handle, GetAttr(h, g)
    PROVE  IInv'
<1> DEFINE b == handles[h].box
<1>1. IsDataItem(h) /\ Unused(g) /\ ItemRoom(h) /\ ~Unused(h)
    BY DEF GetAttr, IsDataItem, Unused
<1>2. PICK n \in BoxOf(h) :
        IF n.box = None THEN Done(n.st, handles)
        ELSE \E item \in Chains \cup {Nowhere} :
             LET st  == DeleteBox(n.st, b)
                 hs  == [handles EXCEPT ![h].kind = "box", ![h].box = n.box,
                                        ![h].item = Nowhere]
             IN  IF item = Nowhere THEN Done(st, hs)
                 ELSE Done(AcquireBox(st, n.box), [hs EXCEPT ![g] = ItemIn(n.box, item)])
    BY Zenon DEF GetAttr
<1>3. Boxed(n, Held0, Sourced0, OnBoard, Watched0)
    BY <1>1, BoxOfIs
<1>4. CASE n.box = None
    BY <1>2, <1>3, <1>4, NoneMade
<1>5. CASE n.box # None
    <2> DEFINE st  == DeleteBox(n.st, b)
               hs  == [handles EXCEPT ![h].kind = "box", ![h].box = n.box, ![h].item = Nowhere]
               c == n.box
    <2>1. PICK item \in Chains \cup {Nowhere} :
            IF item = Nowhere THEN Done(st, hs)
            ELSE Done(AcquireBox(st, c), [hs EXCEPT ![g] = ItemIn(c, item)])
        BY <1>2, <1>5
    <2>2. c \in Box /\ Good(n.st, Plus(Held0, c), Sourced0, OnBoard, Watched0)
        BY <1>3, <1>5 DEF Boxed, Item
    <2>3. /\ ClientIs(handles, views, board) /\ file \in [Path -> Nat] /\ b \in Box
        BY <1>1, BeforeCall, HandleBox
    <2>4. PICK y : Changed(handles, hs, h, y) /\ Swaps(handles[h], y, b, c)
        <3> HIDE DEF c
        <3>1. hs = [handles EXCEPT ![h].kind = "box", ![h].box = c, ![h].item = Nowhere]
            BY DEF c
        <3> HIDE DEF hs
        <3>2. QED
            BY <1>1, <2>2, <3>1, BecomesBox
    <2> HIDE DEF hs
    <2>5. hs[h].box = c /\ hs[g] = NoHandle
        <3>1. handles[g] = NoHandle /\ h # g
            BY <1>1, <2>3 DEF ClientIs, IsHandle, Unused
        <3>2. y.box = c \/ y.box = b
            BY <2>4 DEF Swaps
        <3>3. ClientIs(hs, views, board) /\ Others(handles, hs, h) /\ hs[h] = y
            BY <2>3, <2>4, ObjectChanged
        <3>4. hs[g] = NoHandle
            BY <3>1, <3>3 DEF Others
        <3>5. hs[h].box = c
            <4>1. hs = [handles EXCEPT ![h].kind = "box", ![h].box = c, ![h].item = Nowhere]
                BY DEF hs
            <4>2. handles \in [Handle -> HandleRecord]
                BY <2>3 DEF ClientIs
            <4> HIDE DEF c
            <4>3. QED
                BY <4>1, <4>2 DEF HandleRecord
        <3>6. QED
            BY <3>4, <3>5
    <2>6. /\ ClientIs(hs, views, board)
          /\ Good(st, HeldBoxes(hs), HeldSources(hs), OnBoard, Watches(boxes, hs, views))
        <3> HIDE DEF b, c
        <3>1. QED
            BY <2>2, <2>3, <2>4, Exchanged DEF Held0, Sourced0, Watched0
    <2> HIDE DEF st, c
    <2>7. CASE item = Nowhere
        BY <2>1, <2>3, <2>6, <2>7, AfterDone
    <2>8. CASE item # Nowhere
        <3> DEFINE js == [hs EXCEPT ![g] = ItemIn(c, item)]
                   x == ItemIn(c, item)
        <3>1. Done(AcquireBox(st, c), js)
            BY <2>1, <2>8
        <3>2. x \in HandleRecord /\ IsHandle(x) /\ x.box = c /\ x.value = NoValue /\ x.filtered = None
            BY <2>1, <2>2, <2>8, ObjectsIn
        <3> HIDE DEF x
        <3>3. Added(hs, js, g, x)
            BY <2>5, <3>2 DEF Added, x
        <3> HIDE DEF js
        <3>4. /\ ClientIs(js, views, board)
              /\ HeldBoxes(js) = Plus(HeldBoxes(hs), c)
              /\ HeldSources(js) = HeldSources(hs)
              /\ Watches(boxes, js, views) \subseteq Watches(boxes, hs, views)
            BY <2>6, <3>2, <3>3, ObjectAdded
        <3>5. st.boxes[c].kind # "free"
            <4>1. HeldBoxes(hs)[c] # 0
                BY <2>2, <2>5, HeldType
            <4>2. QED
                BY <2>2, <2>6, <4>1, HeldIsThere
        <3>6. Good(AcquireBox(st, c), Plus(HeldBoxes(hs), c), HeldSources(hs), OnBoard,
                   Watches(boxes, hs, views))
            BY <2>2, <2>6, <3>5, AcquiredPlus
        <3>7. Good(AcquireBox(st, c), HeldBoxes(js), HeldSources(js), OnBoard,
                   Watches(boxes, js, views))
            BY <3>4, <3>6, GoodFewer
        <3>8. QED
            BY <2>3, <3>1, <3>4, <3>7, AfterDone
    <2>9. QED
        BY <2>7, <2>8
<1>6. QED
    BY <1>4, <1>5

LEMMA SliceKeeps ==
    ASSUME IInv, NEW h \in Handle, NEW g \in Handle, Slice(h, g)
    PROVE  IInv'
<1> DEFINE b == handles[h].box
           no == None
<1>1. /\ handles[h].kind = "box" /\ Unused(g) /\ Room(b, 1) /\ ~Unused(h)
    BY DEF Slice, Unused
<1>2. PICK u \in ApplyParent(Now, b) :
        LET n == NewBox(u.st, "slice", b, boxes[b].scope, Nowhere, no)
        IN  IF ~u.ok THEN Done(u.st, handles)
            ELSE IF n.box = no THEN Done(n.st, handles)
            ELSE Done(n.st, [handles EXCEPT ![g] = BoxItem(n.box)])
    BY Zenon DEF Slice
<1>3. /\ b \in Box /\ b # None /\ boxes[b].kind # "free" /\ boxes[b] \in BoxRecord
    BY <1>1, HandleBox
<1>4. /\ Good(Now, Held0, Sourced0, OnBoard, Watched0) /\ Now.boxes = boxes
      /\ file \in [Path -> Nat] /\ Held0 \in [Box -> Nat]
    BY BeforeCall
<1> DEFINE us == u.st
<1>5. Good(us, Held0, Sourced0, OnBoard, Watched0) /\ SameTree(boxes, us.boxes)
    <2> HIDE DEF b
    <2>1. Applying(u, Held0, Sourced0, OnBoard, Watched0, Now.boxes)
        BY <1>2, <1>3, <1>4, AppliedParent
    <2>2. QED
        BY <1>4, <2>1 DEF Applying
<1>6. CASE ~u.ok
    BY <1>2, <1>5, <1>6, SameObjects
<1>7. CASE u.ok
    <2> DEFINE scope == boxes[b].scope
               n == NewBox(us, "slice", b, scope, Nowhere, no)
    <2>1. IF n.box = no THEN Done(n.st, handles)
          ELSE Done(n.st, [handles EXCEPT ![g] = BoxItem(n.box)])
        BY <1>2, <1>7
    <2> HIDE DEF b
    <2>2. us.boxes[b].kind # "free" /\ us.boxes[b].scope = scope
        BY <1>3, <1>5 DEF SameTree
    <2>3. Placed(us.boxes, b) /\ us.boxes[b] \in BoxRecord
        BY <1>3, <1>5, GoodType DEF Good, Structure
    <2> HIDE DEF us
    <2>4. CanMake(us, OnBoard, "slice", b, scope, Nowhere, no)
        <3>1. scope \in Box \cup {None}
            BY <2>2, <2>3 DEF BoxRecord
        <3>2. scope # None => /\ us.boxes[scope].kind # "free"
                              /\ us.boxes[scope].depth <= us.boxes[b].depth
            <4>1. SUFFICES ASSUME scope # None
                  PROVE  /\ us.boxes[scope].kind # "free"
                         /\ us.boxes[scope].depth <= us.boxes[b].depth
                OBVIOUS
            <4>2. us.boxes[scope].kind # "free" /\ us.boxes[scope].depth < us.boxes[b].depth
                BY <2>2, <2>3, <4>1 DEF Placed
            <4>3. us.boxes[scope] \in BoxRecord
                BY <1>5, <3>1, <4>1, GoodType
            <4>4. us.boxes[scope].depth \in Nat /\ us.boxes[b].depth \in Nat
                BY <2>3, <4>3, ReferenceAssumption DEF BoxRecord
            <4>5. QED
                BY <4>2, <4>4
        <3> HIDE DEF scope
        <3>3. QED
            BY <1>3, <2>2, <3>1, <3>2 DEF CanMake, Filters
    <2>5. Roomy(us, b, 1)
        <3>1. Roomy(Now, b, 1)
            <4>1. boxes[b].depth \in 0 .. MaxDepth
                BY <1>3 DEF BoxRecord
            <4>2. QED
                BY <1>1, <1>3, <4>1, RoomIs DEF b
        <3>2. Free(us) = Free(Now) /\ us.boxes[b].depth = Now.boxes[b].depth
            BY <1>3, <1>4, <1>5 DEF Free, SameTree
        <3>3. QED
            BY <3>1, <3>2 DEF Roomy
    <2>6. n = NewBox(us, "slice", b, scope, Nowhere, no) /\ 0 \in Nat /\ 0 + 1 = 1
        OBVIOUS
    <2> HIDE DEF n, scope
    <2>7. Boxed(n, Held0, Sourced0, OnBoard, Watched0)
        <3> DEFINE k == 0
        <3>1. k \in Nat /\ Roomy(us, b, k + 1)
            BY <2>5
        <3> HIDE DEF k, no
        <3>2. QED
            BY <1>3, <1>5, <2>4, <2>6, <3>1, BoxMade DEF us
    <2>8. CASE n.box = None
        BY <2>1, <2>7, <2>8, NoneMade
    <2>9. CASE n.box # None
        <3>1. n.box \in Box /\ Good(n.st, Plus(Held0, n.box), Sourced0, OnBoard, Watched0)
            BY <2>7, <2>9 DEF Boxed, Item
        <3>2. Done(n.st, [handles EXCEPT ![g] = BoxItem(n.box)])
            BY <2>1, <2>9
        <3>3. QED
            BY <1>1, <3>1, <3>2, ObjectsIn, NewObject
    <2>10. QED
        BY <2>8, <2>9
<1>8. QED
    BY <1>6, <1>7

LEMMA AncestorKeeps ==
    ASSUME IInv, NEW h \in Handle, NEW g \in Handle, Ancestor(h, g)
    PROVE  IInv'
<1> DEFINE b  == handles[h].box
           x  == boxes[b]
           up == IF x.item = Nowhere /\ x.kind # "slice" /\ x.parent # None
                 THEN x.parent ELSE b
           s1 == AcquireBox(Now, b)
           s2 == AcquireBox(s1, up)
<1>1. ~Unused(h) /\ Unused(g) /\ Done(DeleteBox(s2, b), [handles EXCEPT ![g] = BoxItem(up)])
    BY Zenon DEF Ancestor, Unused
<1>2. b \in Box /\ x.kind # "free" /\ x \in BoxRecord
    BY <1>1, HandleBox
<1>3. /\ Good(Now, Held0, Sourced0, OnBoard, Watched0) /\ Now.boxes = boxes
      /\ Unaided(Watched0, Held0) /\ Held0 \in [Box -> Nat]
    BY BeforeCall
<1>4. up \in Box /\ boxes[up].kind # "free"
    <2>1. Placed(boxes, b)
        BY <1>2, <1>3 DEF Good, Structure
    <2>2. x.parent # None => boxes[x.parent].kind # "free" /\ x.parent \in Box
        <3> HIDE DEF b
        <3>1. QED
            BY <1>2, <2>1 DEF Placed, BoxRecord
    <2> HIDE DEF x
    <2>3. QED
        BY <1>2, <2>2 DEF x
<1> HIDE DEF up, b
<1>5. Good(s1, Plus(Held0, b), Sourced0, OnBoard, Watched0) /\ s1.boxes[up].kind # "free"
    <2>1. b \in Box \cup {None} /\ (b # None => Now.boxes[b].kind # "free")
        BY <1>2, <1>3
    <2>2. /\ Good(s1, Plus(Held0, b), Sourced0, OnBoard, Watched0)
          /\ \A c \in Box : SameBox(s1.boxes[c], Now.boxes[c])
        BY <1>3, <2>1, AcquiredPlus
    <2> HIDE DEF s1
    <2>3. QED
        BY <1>3, <1>4, <2>2 DEF SameBox
<1> HIDE DEF s1
<1>6. Good(s2, Plus(Plus(Held0, b), up), Sourced0, OnBoard, Watched0)
    BY <1>4, <1>5, AcquiredPlus
<1> HIDE DEF s2
<1>7. Plus(Plus(Held0, b), up) = Plus(Plus(Held0, up), b)
    BY <1>3, PlusSwaps
<1>8. Unaided(Watched0, Plus(Held0, up)) /\ Plus(Held0, up) \in [Box -> Nat]
    BY <1>3, PlusType, UnaidedPlus
<1>9. Good(DeleteBox(s2, b), Plus(Held0, up), Sourced0, OnBoard, Watched0)
    BY <1>2, <1>6, <1>7, <1>8, Released
<1>10. QED
    BY <1>1, <1>4, <1>9, ObjectsIn, NewObject

(* The data sources change: none that is held, and none that is watched.   *)
Resourced(st, t, U, K, L, W) ==
    /\ t = [boxes |-> st.boxes, src |-> t.src, cache |-> t.cache, opened |-> t.opened]
    /\ t.src \in [Source -> SourceRecord] /\ FilesOf(t.src, t.cache) /\ t.opened \in OpenedRecord
    /\ U \in [Source -> Nat] /\ UsedAs(t.src, Uses(st.boxes, U))
    /\ K \subseteq L /\ \A s \in L : s \in Source /\ U[s] # 0
    /\ \A w \in W : /\ t.src[w.ds].data = w.data
                    /\ w.box = None => U[w.ds] # 0

LEMMA SourcesChanged ==
    ASSUME NEW st, NEW E, NEW V, NEW K, NEW W, Good(st, E, V, K, W),
           NEW t, NEW U, NEW L, Resourced(st, t, U, K, L, W)
    PROVE  Good(t, E, U, L, W)
<1>1. /\ t.boxes = st.boxes /\ t.cache \in Seq(Source) /\ U \in [Source -> Nat]
      /\ UsedAs(t.src, Uses(t.boxes, U))
    <2> DEFINE bs == st.boxes
    <2>1. t = [boxes |-> bs, src |-> t.src, cache |-> t.cache, opened |-> t.opened]
        BY DEF Resourced
    <2> HIDE DEF bs
    <2>2. t.boxes = bs
        BY <2>1
    <2>3. QED
        BY <2>2 DEF Resourced, FilesOf, bs
<1>2. t \in State
    <2>1. st.boxes \in [Box -> BoxRecord]
        BY GoodType
    <2>2. /\ t = [boxes |-> st.boxes, src |-> t.src, cache |-> t.cache, opened |-> t.opened]
          /\ t.src \in [Source -> SourceRecord] /\ t.opened \in OpenedRecord
        BY DEF Resourced
    <2>3. QED
        BY <1>1, <2>1, <2>2 DEF State, OpenedRecord
<1>3. SourceCounts(t.boxes, t.src, U)
    BY <1>1, SourcesAreUsed
<1>4. Cached(t)
    BY DEF Resourced, FilesOf, Cached
<1>5. Sourced(t.boxes, U, L)
    BY <1>1 DEF Good, Sourced, Resourced
<1>6. \A w \in W : Watched(t, E, U, w)
    BY <1>1 DEF Good, Watched, Resourced
<1>7. QED
    BY <1>1, <1>2, <1>3, <1>4, <1>5, <1>6 DEF Good

(* A call that ends as it releases a box.                                  *)
LEMMA ReleasedAtLast ==
    ASSUME NEW hs, ClientIs(hs, views, board), file \in [Path -> Nat],
           NEW b \in Box \cup {None}, NEW bs, NEW st,
           Good(st, Plus(HeldBoxes(hs), b), HeldSources(hs), OnBoard, Watches(bs, hs, views)),
           Done(DeleteBox(st, b), hs)
    PROVE  IInv'
<1>1. \A v \in views : v.of \in Handle
    BY DEF ClientIs, ViewRecord
<1>2. \A w \in Watches(bs, hs, views) : w.box # None => w.box \in Box
    BY DEF Good, Watched
<1>3. Unaided(Watches(bs, hs, views), HeldBoxes(hs)) /\ HeldBoxes(hs) \in [Box -> Nat]
    BY <1>1, <1>2, UnaidedHeld, HeldType
<1>4. Good(DeleteBox(st, b), HeldBoxes(hs), HeldSources(hs), OnBoard, Watches(bs, hs, views))
    BY <1>3, Released
<1>5. QED
    BY <1>4, AfterDone

LEMMA PlusNoSource ==
    ASSUME NEW T \in [Source -> Nat]
    PROVE  PlusSource(T, None) = T
<1>1. \A s \in Source : T[s] + One(s = None) = T[s]
    BY BoxFinite DEF One
<1>2. QED
    BY <1>1 DEF PlusSource

(* A value that is read, in a box or in a data source.                     *)
Reads(h, v, js) ==
    /\ h \in Handle /\ IsDataItem(h) /\ handles[h].value = NoValue
    /\ v \in ValueRecord /\ (v.box = None <=> v.ds # None)
    /\ js = [handles EXCEPT ![h].value = v]

LEMMA ValueRead ==
    ASSUME IInv, NEW h, NEW v, NEW js, Reads(h, v, js), NEW bs
    PROVE  /\ ClientIs(js, views, board) /\ js[h].value = v
           /\ HeldBoxes(js) = Plus(Held0, v.box)
           /\ HeldSources(js) = PlusSource(Sourced0, v.ds)
           /\ Watches(bs, js, views) \subseteq
                 Watches(bs, handles, views) \cup {WatchOfValue(bs, js[h])}
<1> DEFINE x == handles[h]
           y == [x EXCEPT !.value = v]
<1>1. /\ handles \in [Handle -> HandleRecord] /\ IsHandle(x) /\ x.kind \in {"item", "box"}
      /\ ClientIs(handles, views, board) /\ x.value = NoValue /\ h \in Handle
      /\ v \in ValueRecord /\ (v.box = None <=> v.ds # None)
    BY BeforeCall DEF ClientIs, IsDataItem, Reads
<1>2. x \in HandleRecord
    BY <1>1
<1>3. js = [handles EXCEPT ![h] = y]
    BY <1>1 DEF Reads
<1> HIDE DEF x
<1>4. /\ y \in HandleRecord /\ y.value = v /\ y.box = x.box /\ y.filtered = x.filtered
      /\ y.kind = x.kind /\ y.item = x.item
    BY <1>1, <1>2 DEF HandleRecord
<1> HIDE DEF y
<1>5. IsHandle(y) /\ Keeper(y) = Keeper(x)
    BY <1>1, <1>4 DEF IsHandle, Keeper
<1>6. Changed(handles, js, h, y)
    BY <1>1, <1>3, <1>4, <1>5 DEF Changed, Keeping, x
<1>7. ClientIs(js, views, board) /\ Others(handles, js, h) /\ js[h] = y
    BY <1>1, <1>6, ObjectChanged
<1>8. HeldBoxes(js) = Plus(Held0, v.box)
    <2>1. HoldsMore(handles[h], js[h], v.box)
        BY <1>1, <1>4, <1>7 DEF HoldsMore, NoValue, x
    <2>2. QED
        BY <1>7, <2>1, HeldPlus DEF Held0
<1>9. HeldSources(js) = PlusSource(Sourced0, v.ds)
    <2>1. handles[h].value.ds = None /\ board \in Seq(Source)
        BY <1>1 DEF NoValue, ClientIs, x
    <2>2. js[h].value.ds = v.ds
        BY <1>4, <1>7
    <2>3. HeldSources(js) = PlusSource(HeldSources(handles), js[h].value.ds)
        BY <1>7, <2>1, HeldSourcesPlus
    <2>4. QED
        BY <2>2, <2>3 DEF Sourced0
<1>10. Watches(bs, js, views) \subseteq
          Watches(bs, handles, views) \cup {WatchOfValue(bs, js[h])}
    <2> SUFFICES ASSUME NEW w \in Watches(bs, js, views), w # WatchOfValue(bs, js[h])
                 PROVE  w \in Watches(bs, handles, views)
        OBVIOUS
    <2>1. SafeClient /\ \/ \E k \in views : w = WatchOfView(js, k)
                        \/ \E k \in Handle : js[k].value # NoValue /\ w = WatchOfValue(bs, js[k])
        BY WatchedIs
    <2>2. ASSUME NEW k \in views, w = WatchOfView(js, k) PROVE w = WatchOfView(handles, k)
        <3>1. k.of \in Handle
            BY <1>1 DEF ClientIs, ViewRecord
        <3>2. Keeper(js[k.of]) = Keeper(handles[k.of])
            <4>1. CASE k.of = h
                BY <1>5, <1>7, <4>1 DEF x
            <4>2. CASE k.of # h
                BY <1>7, <3>1, <4>2 DEF Others
            <4>3. QED
                BY <4>1, <4>2
        <3>3. QED
            BY <2>2, <3>2 DEF WatchOfView
    <2>3. ASSUME NEW k \in Handle, js[k].value # NoValue, w = WatchOfValue(bs, js[k])
          PROVE  handles[k].value # NoValue /\ w = WatchOfValue(bs, handles[k])
        <3>1. k # h
            BY <2>3
        <3>2. js[k] = handles[k]
            BY <1>7, <3>1 DEF Others
        <3>3. QED
            BY <2>3, <3>2
    <2>4. QED
        BY <2>1, <2>2, <2>3, WatchedIs, Zenon
<1>11. QED
    BY <1>4, <1>7, <1>8, <1>9, <1>10

(* Bytes that a filter read: the value holds their box.                    *)
LEMMA ReadInBox ==
    ASSUME IInv, NEW st, NEW b \in Box,
           Good(st, Plus(Held0, b), Sourced0, OnBoard, Watched0), st.boxes[b].applied,
           NEW h, NEW v, NEW js, Reads(h, v, js),
           v = [box |-> b, ds |-> None, data |-> st.src[st.boxes[b].ds].data],
           Done(DeleteBox(AcquireBox(st, b), b), js)
    PROVE  IInv'
<1> DEFINE s1 == AcquireBox(st, b)
           bs == st.boxes
           w == WatchOfValue(bs, js[h])
           W == Watched0 \cup {w}
<1>1. /\ ClientIs(handles, views, board) /\ file \in [Path -> Nat]
      /\ Sourced0 \in [Source -> Nat] /\ Held0 \in [Box -> Nat]
    BY BeforeCall
<1>2. bs \in [Box -> BoxRecord] /\ bs[b].kind # "free" /\ bs[b].ds \in Source
    <2>1. bs \in [Box -> BoxRecord] /\ Structure(bs)
        BY GoodType DEF Good
    <2>2. Placed(bs, b) /\ Filled(bs, b)
        BY <2>1 DEF Structure
    <2>3. bs[b].ds \in Source
        BY <2>1, HasOwner
    <2>4. QED
        BY <2>1, <2>2, <2>3 DEF Filled
<1>3. Watches(bs, handles, views) = Watched0
    BY SameWatches DEF Watched0
<1>4. /\ ClientIs(js, views, board) /\ js[h].value = v
      /\ HeldBoxes(js) = Plus(Held0, v.box)
      /\ HeldSources(js) = PlusSource(Sourced0, v.ds)
      /\ Watches(bs, js, views) \subseteq Watches(bs, handles, views) \cup {w}
    BY ValueRead
<1>5. v.box = b /\ v.ds = None /\ v.data = st.src[bs[b].ds].data
    OBVIOUS
<1>6. HeldBoxes(js) = Plus(Held0, b) /\ HeldSources(js) = Sourced0
    BY <1>1, <1>4, <1>5, PlusNoSource
<1>7. w = [box |-> b, data |-> st.src[bs[b].ds].data, ds |-> bs[b].ds]
    BY <1>4, <1>5, BoxFinite DEF WatchOfValue
<1>8. b # None
    BY BoxFinite
<1>9. /\ Good(s1, Plus(Plus(Held0, b), b), Sourced0, OnBoard, Watched0)
      /\ SameBox(s1.boxes[b], st.boxes[b]) /\ s1.src = st.src
    BY <1>2, AcquiredPlus
<1> HIDE DEF s1
<1>10. Watched(s1, Plus(Plus(Held0, b), b), Sourced0, w)
    <2>1. Plus(Plus(Held0, b), b)[b] # 0
        BY <1>1, PlusType
    <2>2. w.box = b /\ w.ds = bs[b].ds /\ w.data = st.src[bs[b].ds].data
        BY <1>7
    <2> HIDE DEF w
    <2>3. QED
        BY <1>2, <1>8, <1>9, <2>1, <2>2 DEF Watched, SameBox
<1> HIDE DEF w
<1>11. Good(s1, Plus(HeldBoxes(js), b), HeldSources(js), OnBoard, Watches(bs, js, views))
    <2>1. Watches(bs, js, views) \subseteq Watched0 \cup {w}
        BY <1>3, <1>4
    <2>2. Good(s1, Plus(Plus(Held0, b), b), Sourced0, OnBoard, Watches(bs, js, views))
        BY <1>9, <1>10, <2>1, GoodMore
    <2>3. QED
        BY <1>6, <2>2
<1>12. Done(DeleteBox(s1, b), js)
    BY DEF s1
<1>13. QED
    BY <1>1, <1>4, <1>11, <1>12, ReleasedAtLast

(* Bytes of a data source, which the value holds.                          *)
LEMMA ReadInSource ==
    ASSUME IInv, NEW st, NEW b \in Box,
           Good(st, Plus(Held0, b), Sourced0, OnBoard, Watched0), st.boxes[b].applied,
           NEW h, NEW v, NEW js, Reads(h, v, js),
           v = [box |-> None, ds |-> st.boxes[b].ds, data |-> st.src[st.boxes[b].ds].data],
           Done(DeleteBox([st EXCEPT !.src = AcquireSource(@, st.boxes[b].ds)], b), js)
    PROVE  IInv'
<1> DEFINE bs == st.boxes
           ds == bs[b].ds
           rs == AcquireSource(st.src, ds)
           t  == [st EXCEPT !.src = rs]
           w  == WatchOfValue(bs, js[h])
           U  == PlusSource(Sourced0, ds)
<1>1. /\ ClientIs(handles, views, board) /\ file \in [Path -> Nat]
      /\ Sourced0 \in [Source -> Nat] /\ Held0 \in [Box -> Nat]
    BY BeforeCall
<1>2. bs \in [Box -> BoxRecord] /\ ds \in Source /\ Owners(bs, ds) # {}
    <2>1. bs \in [Box -> BoxRecord] /\ Structure(bs)
        BY GoodType DEF Good
    <2>2. QED
        BY <2>1, HasOwner
<1>3. Watches(bs, handles, views) = Watched0
    BY SameWatches DEF Watched0
<1>4. /\ ClientIs(js, views, board) /\ js[h].value = v
      /\ HeldBoxes(js) = Plus(Held0, v.box)
      /\ HeldSources(js) = PlusSource(Sourced0, v.ds)
      /\ Watches(bs, js, views) \subseteq Watches(bs, handles, views) \cup {w}
    BY ValueRead
<1>5. v.box = None /\ v.ds = ds /\ v.data = st.src[ds].data
    OBVIOUS
<1>6. HeldBoxes(js) = Held0 /\ HeldSources(js) = U
    BY <1>1, <1>4, <1>5, PlusType
<1>7. w = [box |-> None, data |-> st.src[ds].data, ds |-> ds]
    BY <1>4, <1>5 DEF WatchOfValue
<1>8. /\ t = [boxes |-> bs, src |-> rs, cache |-> st.cache, opened |-> st.opened]
      /\ st.opened \in OpenedRecord /\ st.src \in [Source -> SourceRecord]
      /\ FilesOf(st.src, st.cache)
    <2>1. st \in State /\ Cached(st)
        BY DEF Good
    <2> HIDE DEF rs
    <2>2. QED
        BY <2>1 DEF State, OpenedRecord, Cached, FilesOf
<1> DEFINE T0 == Uses(bs, Sourced0)
           T1 == Uses(bs, U)
<1>9. /\ T0 \in [Source -> Nat] /\ T1 \in [Source -> Nat] /\ UsedAs(st.src, T0)
      /\ \A s \in Source : T1[s] = T0[s] + One(s = ds)
      /\ U \in [Source -> Nat] /\ \A s \in Source : U[s] = Sourced0[s] + One(s = ds)
    <2>1. U \in [Source -> Nat] /\ \A s \in Source : U[s] = Sourced0[s] + One(s = ds)
        BY <1>1, PlusSourceType
    <2> HIDE DEF U, ds, bs
    <2>2. /\ T0 \in [Source -> Nat] /\ T1 \in [Source -> Nat]
          /\ \A s \in Source : /\ T0[s] = Sourced0[s] + Cardinality(Owners(bs, s))
                               /\ T1[s] = U[s] + Cardinality(Owners(bs, s))
        BY <1>1, <2>1, UsesType
    <2>3. UsedAs(st.src, T0)
        BY <1>1, SourcesAreUsed DEF Good, bs
    <2> HIDE DEF T0, T1
    <2>4. \A s \in Source : T1[s] = T0[s] + One(s = ds)
        <3> TAKE s \in Source
        <3>1. Cardinality(Owners(bs, s)) \in Nat /\ Sourced0[s] \in Nat /\ One(s = ds) \in Nat
            BY <1>1, InsideType DEF One
        <3>2. QED
            BY <2>1, <2>2, <3>1
    <2>5. QED
        BY <2>1, <2>2, <2>3, <2>4
<1>10. st.src[ds].kind # "free"
    <2>1. T0[ds] # 0
        <3>1. Cardinality(Owners(bs, ds)) \in Nat /\ Cardinality(Owners(bs, ds)) # 0
              /\ Sourced0[ds] \in Nat
            BY <1>1, <1>2, InsideType
        <3>2. T0[ds] = Sourced0[ds] + Cardinality(Owners(bs, ds))
            BY <1>1, <1>2, UsesType
        <3> HIDE DEF T0
        <3>3. QED
            BY <3>1, <3>2
    <2> HIDE DEF T0, ds
    <2>2. QED
        BY <1>2, <1>9, <2>1 DEF UsedAs, NoSource
<1> HIDE DEF T0, T1, U, ds
<1>11. /\ rs \in [Source -> SourceRecord] /\ UsedAs(rs, T1)
       /\ \A x \in Source : rs[x].data = st.src[x].data /\ rs[x].kind = st.src[x].kind
    BY <1>2, <1>8, <1>9, <1>10, AcquiredSource
<1> HIDE DEF rs, t, w, bs
<1>12. Resourced(st, t, U, OnBoard, OnBoard, Watched0)
    <2>1. t = [boxes |-> st.boxes, src |-> t.src, cache |-> t.cache, opened |-> t.opened]
          /\ t.src = rs /\ t.cache = st.cache /\ t.opened = st.opened
        BY <1>8 DEF bs
    <2>2. FilesOf(rs, st.cache)
        <3>1. \A i \in DOMAIN st.cache : st.cache[i] \in Source
            BY <1>8 DEF FilesOf
        <3>2. QED
            BY <1>8, <1>11, <3>1 DEF FilesOf
    <2>3. \A s \in Source : Sourced0[s] # 0 => U[s] # 0
        BY <1>1, <1>9 DEF One
    <2>4. \A s \in OnBoard : s \in Source /\ U[s] # 0
        BY <2>3 DEF Good, Sourced
    <2>5. \A x \in Watched0 : /\ rs[x.ds].data = x.data
                              /\ x.box = None => U[x.ds] # 0
        <3> TAKE x \in Watched0
        <3>1. Watched(st, Plus(Held0, b), Sourced0, x)
            BY DEF Good
        <3>2. QED
            BY <1>11, <2>3, <3>1 DEF Watched
    <2>6. UsedAs(rs, Uses(st.boxes, U))
        BY <1>11 DEF T1, bs
    <2>7. QED
        BY <1>8, <1>9, <1>11, <2>1, <2>2, <2>4, <2>5, <2>6 DEF Resourced
<1>13. Good(t, Plus(Held0, b), U, OnBoard, Watched0)
    BY <1>12, SourcesChanged
<1>14. Watched(t, Plus(Held0, b), U, w)
    <2>1. w.box = None /\ w.ds = ds /\ w.data = st.src[ds].data
        BY <1>7
    <2>2. t.src[ds].data = st.src[ds].data
        BY <1>2, <1>8, <1>11
    <2>3. U[ds] # 0
        <3>1. U[ds] = Sourced0[ds] + 1 /\ Sourced0[ds] \in Nat
            BY <1>1, <1>2, <1>9 DEF One
        <3>2. QED
            BY <3>1
    <2>4. QED
        BY <1>2, <2>1, <2>2, <2>3 DEF Watched
<1>15. Good(t, Plus(HeldBoxes(js), b), HeldSources(js), OnBoard, Watches(bs, js, views))
    <2>1. Watches(bs, js, views) \subseteq Watched0 \cup {w}
        BY <1>3, <1>4
    <2>2. Good(t, Plus(Held0, b), U, OnBoard, Watches(bs, js, views))
        BY <1>13, <1>14, <2>1, GoodMore
    <2>3. QED
        BY <1>6, <2>2
<1>16. Done(DeleteBox(t, b), js)
    BY DEF t, rs, ds, bs
<1>17. QED
    BY <1>1, <1>4, <1>15, <1>16, ReleasedAtLast

LEMMA GetValueKeeps ==
    ASSUME IInv, NEW h \in Handle, GetValue(h)
    PROVE  IInv'
<1>1. IsDataItem(h) /\ handles[h].value = NoValue /\ ItemRoom(h)
    BY DEF GetValue
<1>2. PICK n \in BoxOf(h) :
        IF n.box = None THEN Done(n.st, handles)
        ELSE \E r \in Apply(n.st, n.box) :
             LET v == Value(r.st, n.box)
             IN  IF ~r.ok THEN Done(DeleteBox(r.st, n.box), handles)
                 ELSE Done(DeleteBox(v.st, n.box), [handles EXCEPT ![h].value = v.value])
    BY Zenon DEF GetValue
<1>3. Boxed(n, Held0, Sourced0, OnBoard, Watched0)
    BY <1>1, BoxOfIs
<1>4. CASE n.box = None
    BY <1>2, <1>3, <1>4, NoneMade
<1>5. CASE n.box # None
    <2> DEFINE b == n.box
    <2>1. b \in Box /\ Good(n.st, Plus(Held0, b), Sourced0, OnBoard, Watched0)
        BY <1>3, <1>5 DEF Boxed, Item
    <2>2. PICK r \in Apply(n.st, b) :
            LET v == Value(r.st, b)
            IN  IF ~r.ok THEN Done(DeleteBox(r.st, b), handles)
                ELSE Done(DeleteBox(v.st, b), [handles EXCEPT ![h].value = v.value])
        BY <1>2, <1>5, Zenon
    <2>3. /\ ClientIs(handles, views, board) /\ file \in [Path -> Nat]
          /\ Held0 \in [Box -> Nat]
        BY BeforeCall
    <2> HIDE DEF b
    <2>4. n.st.boxes[b].kind # "free"
        <3>1. Plus(Held0, b)[b] # 0
            BY <2>1, <2>3, PlusType
        <3>2. QED
            BY <2>1, <3>1, HeldIsThere
    <2>5. /\ Good(r.st, Plus(Held0, b), Sourced0, OnBoard, Watched0)
          /\ r.ok => r.st.boxes[b].applied
        BY <2>1, <2>2, <2>3, <2>4, Applied DEF Applying
    <2> DEFINE st == r.st
               x == st.boxes[b]
               v == Value(st, b)
               js == [handles EXCEPT ![h].value = v.value]
    <2>6. CASE ~r.ok
        <3>1. Done(DeleteBox(st, b), handles)
            BY <2>2, <2>6
        <3>2. Good(st, Plus(HeldBoxes(handles), b), HeldSources(handles), OnBoard,
                   Watches(boxes, handles, views))
            BY <2>5 DEF Held0, Sourced0, Watched0
        <3> HIDE DEF st
        <3>3. QED
            BY <2>1, <2>3, <3>1, <3>2, ReleasedAtLast
    <2>7. CASE r.ok
        <3>1. Done(DeleteBox(v.st, b), js)
            BY <2>2, <2>7
        <3>2. Good(st, Plus(Held0, b), Sourced0, OnBoard, Watched0) /\ x.applied
            BY <2>5, <2>7
        <3> HIDE DEF st
        <3>3. x.ds \in Source /\ st.src[x.ds].data \in Int /\ b # None /\ x.ds # None
            <4>1. st.boxes \in [Box -> BoxRecord] /\ Structure(st.boxes)
                BY <3>2, GoodType DEF Good
            <4>2. x.ds \in Source
                BY <2>1, <3>2, <4>1, HasOwner
            <4>3. st.src \in [Source -> SourceRecord]
                BY <3>2, GoodType
            <4>4. QED
                BY <2>1, <4>2, <4>3, BoxFinite DEF SourceRecord
        <3>4. CASE x.kind = "buffer" /\ ~x.owns
            <4> DEFINE y == [box |-> b, ds |-> None, data |-> st.src[x.ds].data]
            <4>1. v = [st |-> AcquireBox(st, b), value |-> y]
                BY <3>4 DEF Value
            <4>2. v.st = AcquireBox(st, b) /\ v.value = y
                BY <4>1
            <4> HIDE DEF v
            <4>3. Reads(h, y, js)
                BY <1>1, <2>1, <3>3, <4>2 DEF Reads, ValueRecord
            <4>4. Done(DeleteBox(AcquireBox(st, b), b), js)
                BY <3>1, <4>2
            <4> HIDE DEF js
            <4>5. y = [box |-> b, ds |-> None, data |-> st.src[st.boxes[b].ds].data]
                OBVIOUS
            <4> HIDE DEF y
            <4>6. QED
                BY <2>1, <3>2, <4>3, <4>4, <4>5, ReadInBox
        <3>5. CASE ~(x.kind = "buffer" /\ ~x.owns)
            <4> DEFINE y == [box |-> None, ds |-> x.ds, data |-> st.src[x.ds].data]
            <4>1. v = [st |-> [st EXCEPT !.src = AcquireSource(@, x.ds)], value |-> y]
                BY <3>5 DEF Value
            <4>2. v.st = [st EXCEPT !.src = AcquireSource(@, x.ds)] /\ v.value = y
                BY <4>1
            <4> HIDE DEF v
            <4>3. Reads(h, y, js)
                BY <1>1, <3>3, <4>2 DEF Reads, ValueRecord
            <4>4. Done(DeleteBox([st EXCEPT !.src = AcquireSource(@, st.boxes[b].ds)], b), js)
                BY <3>1, <4>2
            <4> HIDE DEF js
            <4>5. y = [box |-> None, ds |-> st.boxes[b].ds, data |-> st.src[st.boxes[b].ds].data]
                OBVIOUS
            <4> HIDE DEF y
            <4>6. QED
                BY <2>1, <3>2, <4>3, <4>4, <4>5, ReadInSource
        <3>6. QED
            BY <3>4, <3>5
    <2>8. QED
        BY <2>6, <2>7
<1>6. QED
    BY <1>4, <1>5

(* A view of what the box gives that is kept for it.                       *)
LEMMA ViewIsKept ==
    ASSUME NEW hs, ClientIs(hs, views, board), file \in [Path -> Nat], NEW h \in Handle,
           NEW b \in Box, Keeper(hs[h]) = b, NEW bs,
           NEW st, Good(st, HeldBoxes(hs), HeldSources(hs), OnBoard, Watches(bs, hs, views)),
           HeldBoxes(hs)[b] # 0, st.boxes[b].applied,
           Keep(st), Viewing(h, st, b), handles' = hs, board' = board, file' = file
    PROVE  IInv'
<1> DEFINE ds == st.boxes[b].ds
           v == [of |-> h, ds |-> ds, data |-> st.src[ds].data]
           w == [box |-> b, ds |-> ds, data |-> st.src[ds].data]
<1>1. views' = views \cup {v}
    BY DEF Viewing
<1>2. ds \in Source /\ b # None
    <2>1. st.boxes \in [Box -> BoxRecord] /\ Structure(st.boxes)
        BY GoodType DEF Good
    <2>2. QED
        BY <2>1, HasOwner, BoxFinite
<1>3. v \in ViewRecord
    <2>1. st.src \in [Source -> SourceRecord]
        BY GoodType
    <2> HIDE DEF ds
    <2>2. QED
        BY <1>2, <2>1 DEF ViewRecord, SourceRecord
<1>4. WatchOfView(hs, v) = w
    BY DEF WatchOfView
<1>5. Watched(st, HeldBoxes(hs), HeldSources(hs), w)
    <2>1. w.box = b /\ w.ds = ds /\ w.data = st.src[ds].data
        OBVIOUS
    <2> HIDE DEF w
    <2>2. QED
        BY <1>2, <2>1 DEF Watched
<1>6. v.of = h
    OBVIOUS
<1> HIDE DEF v, w, ds
<1>7. Watches(bs, hs, views') \subseteq Watches(bs, hs, views) \cup {w}
    <2> SUFFICES ASSUME NEW x \in Watches(bs, hs, views'), x # w
                 PROVE  x \in Watches(bs, hs, views)
        OBVIOUS
    <2> DEFINE vs == views'
    <2>1. x \in Watches(bs, hs, vs) /\ vs = views \cup {v}
        BY <1>1
    <2> HIDE DEF vs
    <2>2. SafeClient /\ \/ \E k \in vs : x = WatchOfView(hs, k)
                        \/ \E k \in Handle : hs[k].value # NoValue /\ x = WatchOfValue(bs, hs[k])
        BY <2>1, WatchedIs
    <2>3. \A k \in vs : x = WatchOfView(hs, k) => k \in views
        BY <1>4, <2>1
    <2>4. QED
        BY <2>2, <2>3, WatchedIs, Zenon
<1>8. Good(st, HeldBoxes(hs), HeldSources(hs), OnBoard, Watches(bs, hs, views'))
    BY <1>5, <1>7, GoodMore
<1>9. Watches(st.boxes, hs, views') = Watches(bs, hs, views')
    BY <1>8, SameWatches
<1>10. ClientIs(hs, views', board)
    BY <1>1, <1>2, <1>3, <1>6 DEF ClientIs
<1>11. Good(st, HeldBoxes(hs), HeldSources(hs), OnBoard, Watches(st.boxes, hs, views'))
    BY <1>8, <1>9
<1>12. boxes' = st.boxes /\ src' = st.src /\ cache' = st.cache /\ opened' = st.opened
    BY DEF Keep
<1>13. QED
    BY <1>10, <1>11, <1>12, AfterCall

(* A call that gives no view.                                              *)
LEMMA NoneKept ==
    ASSUME NEW hs, ClientIs(hs, views, board), file \in [Path -> Nat], NEW bs,
           NEW st, Good(st, HeldBoxes(hs), HeldSources(hs), OnBoard, Watches(bs, hs, views)),
           Keep(st), handles' = hs, UNCHANGED <<views, board, file>>
    PROVE  IInv'
BY AfterDone DEF Keep, Done

LEMMA TrackerBufferKeeps ==
    ASSUME IInv, NEW h \in Handle, TrackerBuffer(h)
    PROVE  IInv'
<1> DEFINE b == handles[h].box
<1>1. IsTracker(h) /\ ~Unused(h) /\ UNCHANGED <<handles, board, file>>
    BY DEF TrackerBuffer, IsTracker, Unused
<1>2. PICK r \in Apply(Now, b) :
        /\ Keep(r.st)
        /\ IF r.ok THEN Viewing(h, r.st, b) ELSE UNCHANGED views
    BY Zenon DEF TrackerBuffer
<1>3. b \in Box /\ boxes[b].kind # "free" /\ Keeper(handles[h]) = b
    BY <1>1, HandleBox DEF Keeper, IsTracker
<1>4. /\ Good(Now, Held0, Sourced0, OnBoard, Watched0) /\ Now.boxes = boxes
      /\ ClientIs(handles, views, board) /\ file \in [Path -> Nat]
    BY BeforeCall
<1>5. HeldBoxes(handles)[b] # 0
    BY <1>3, HeldType
<1> HIDE DEF b
<1>6. /\ Good(r.st, Held0, Sourced0, OnBoard, Watched0)
      /\ r.ok => r.st.boxes[b].applied
    BY <1>2, <1>3, <1>4, Applied DEF Applying
<1>7. Good(r.st, HeldBoxes(handles), HeldSources(handles), OnBoard,
           Watches(boxes, handles, views))
    BY <1>6 DEF Held0, Sourced0, Watched0
<1>8. handles' = handles /\ board' = board /\ file' = file
    BY <1>1
<1>9. CASE r.ok
    BY <1>2, <1>3, <1>4, <1>5, <1>6, <1>7, <1>8, <1>9, ViewIsKept
<1>10. CASE ~r.ok
    BY <1>2, <1>4, <1>7, <1>8, <1>10, NoneKept
<1>11. QED
    BY <1>9, <1>10

LEMMA DropViewKeeps ==
    ASSUME IInv, DropView
    PROVE  IInv'
<1>1. PICK v \in views : views' = views \ {v}
    BY DEF DropView
<1>2. UNCHANGED <<boxes, handles, board, src, cache, file, opened>>
    BY DEF DropView
<1>3. ClientOK /\ ClientOK'
    <2>1. ClientOK
        BY DEF IInv
    <2>2. QED
        BY <1>1, <1>2, <2>1 DEF ClientOK
<1> DEFINE W == Watches(boxes, handles, views)
           X == Watches(boxes, handles, views')
           st == [Now EXCEPT !.opened = opened]
<1>4. X \subseteq W
    <2> SUFFICES ASSUME NEW x \in Watches(boxes, handles, views')
                 PROVE  x \in Watches(boxes, handles, views)
        OBVIOUS
    <2> DEFINE vs == views'
    <2>1. x \in Watches(boxes, handles, vs) /\ vs \subseteq views
        BY <1>1
    <2> HIDE DEF vs
    <2>2. SafeClient /\ \/ \E k \in vs : x = WatchOfView(handles, k)
                        \/ \E k \in Handle : /\ handles[k].value # NoValue
                                             /\ x = WatchOfValue(boxes, handles[k])
        BY <2>1, WatchedIs
    <2>3. QED
        BY <2>1, <2>2, WatchedIs, Zenon
<1>5. Good(st, HeldBoxes(handles), HeldSources(handles), OnBoard, W)
    BY DEF IInv
<1>6. Good(st, HeldBoxes(handles), HeldSources(handles), OnBoard, X)
    <2> HIDE DEF st, W, X
    <2>1. QED
        BY <1>4, <1>5, GoodFewer
<1>7. st' = st /\ HeldBoxes(handles)' = HeldBoxes(handles)
      /\ HeldSources(handles)' = HeldSources(handles) /\ OnBoard' = OnBoard
    BY <1>2 DEF Now, HeldBoxes, Held, InBox, InValue, Filtering, HeldSources, InBoard, InSource,
                OnBoard
<1>8. W' = X
    BY <1>2 DEF Watches, WatchOfView, WatchOfValue, SafeClient
<1>9. QED
    BY <1>3, <1>6, <1>7, <1>8, Zenon DEF IInv

(* A DataItem that keeps another box for its views, or none.               *)
Buffered(x, c) == [x EXCEPT !.filtered = c]

Rebuffers(hs, h, c, js) ==
    /\ h \in Handle /\ hs[h].kind \in {"item", "box"} /\ c \in Box \cup {None}
    /\ Viewed(h) => "rebuffer" \in Risky
    /\ js = [hs EXCEPT ![h] = Buffered(hs[h], c)]

LEMMA BufferedIs ==
    ASSUME NEW hs, ClientIs(hs, views, board), NEW h, NEW c, NEW js, Rebuffers(hs, h, c, js)
    PROVE  /\ Changed(hs, js, h, Buffered(hs[h], c))
           /\ Swaps(hs[h], Buffered(hs[h], c), hs[h].filtered, c)
           /\ js[h] = Buffered(hs[h], c)
           /\ Buffered(hs[h], c).filtered = c /\ Buffered(hs[h], c).kind \in {"item", "box"}
           /\ hs[h].filtered \in Box \cup {None}
<1> USE DEF Rebuffers
<1> DEFINE x == hs[h]
           y == Buffered(x, c)
<1>1. hs \in [Handle -> HandleRecord] /\ IsHandle(x) /\ x \in HandleRecord
    BY DEF ClientIs
<1>2. x.kind \in {"item", "box"}
    OBVIOUS
<1>3. js[h] = y
    BY <1>1
<1> HIDE DEF x
<1>4. /\ y \in HandleRecord /\ y.filtered = c /\ y.box = x.box /\ y.value = x.value
      /\ y.kind = x.kind /\ y.item = x.item
    BY <1>1 DEF HandleRecord, Buffered
<1>5. x.filtered \in Box \cup {None}
    BY <1>1 DEF HandleRecord
<1> HIDE DEF y
<1>6. IsHandle(y) /\ Swaps(x, y, x.filtered, c)
    BY <1>1, <1>2, <1>4 DEF IsHandle, Swaps
<1>7. Keeping(h, x, y)
    BY DEF Keeping, SafeClient, Viewed
<1>8. Changed(hs, js, h, y)
    BY <1>4, <1>6, <1>7 DEF Changed, x, y
<1>9. QED
    BY <1>2, <1>3, <1>4, <1>5, <1>6, <1>8 DEF x, y

(* The box of the last views is given up, and none is kept if this fails.  *)
LEMMA GetBufferKeeps ==
    ASSUME IInv, NEW h \in Handle, GetBuffer(h)
    PROVE  IInv'
<1> DEFINE f == handles[h].filtered
<1>1. /\ IsDataItem(h) /\ ItemRoom(h) /\ (Viewed(h) => "rebuffer" \in Risky)
      /\ UNCHANGED <<board, file>>
    BY DEF GetBuffer
<1>2. PICK n \in {[m EXCEPT !.st = DeleteBox(@, f)] : m \in BoxOf(h)} :
      \E r \in IF n.box = None THEN {Failed(n.st)} ELSE Apply(n.st, n.box) :
         /\ Keep(IF r.ok THEN r.st ELSE DeleteBox(r.st, n.box))
         /\ handles' = [handles EXCEPT ![h].filtered = IF r.ok THEN n.box ELSE None]
         /\ IF r.ok THEN Viewing(h, r.st, n.box) ELSE UNCHANGED views
    BY Zenon DEF GetBuffer
<1>3. PICK m \in BoxOf(h) : n = [m EXCEPT !.st = DeleteBox(@, f)]
    OBVIOUS
<1>4. Boxed(m, Held0, Sourced0, OnBoard, Watched0)
    BY <1>1, BoxOfIs
<1> DEFINE b == m.box
           st == DeleteBox(m.st, f)
<1>5. m \in Item /\ b \in Box \cup {None} /\ Good(m.st, Plus(Held0, b), Sourced0, OnBoard, Watched0)
    BY <1>4 DEF Boxed, Item
<1>6. n = [st |-> st, box |-> b]
    <2> HIDE DEF f
    <2>1. QED
        BY <1>3, <1>5 DEF Item
<1>7. PICK r \in IF b = None THEN {Failed(st)} ELSE Apply(st, b) :
         /\ Keep(IF r.ok THEN r.st ELSE DeleteBox(r.st, b))
         /\ handles' = [handles EXCEPT ![h].filtered = IF r.ok THEN b ELSE None]
         /\ IF r.ok THEN Viewing(h, r.st, b) ELSE UNCHANGED views
    <2>1. n.st = st /\ n.box = b
        BY <1>6
    <2> HIDE DEF st, b
    <2>2. QED
        BY <1>2, <2>1
<1>8. /\ ClientIs(handles, views, board) /\ file \in [Path -> Nat]
      /\ handles \in [Handle -> HandleRecord] /\ handles[h].kind \in {"item", "box"}
    BY <1>1, BeforeCall DEF ClientIs, IsDataItem
<1> DEFINE y  == Buffered(handles[h], b)
           js == [handles EXCEPT ![h] = y]
<1>9. /\ Changed(handles, js, h, y) /\ Swaps(handles[h], y, f, b) /\ js[h] = y
      /\ y.filtered = b /\ y.kind \in {"item", "box"} /\ f \in Box \cup {None}
    <2> HIDE DEF b
    <2>1. Rebuffers(handles, h, b, js)
        BY <1>1, <1>5, <1>8 DEF Rebuffers
    <2> HIDE DEF js
    <2>2. QED
        BY <1>8, <2>1, BufferedIs
<1>10. /\ ClientIs(js, views, board)
       /\ Good(st, HeldBoxes(js), HeldSources(js), OnBoard, Watches(boxes, js, views))
    <2> HIDE DEF js, y, b, f
    <2>1. QED
        BY <1>5, <1>8, <1>9, Exchanged DEF Held0, Sourced0, Watched0
<1>11. \A c : [handles EXCEPT ![h].filtered = c] = [handles EXCEPT ![h] = Buffered(handles[h], c)]
    BY DEF Buffered
<1>12. HeldBoxes(js) \in [Box -> Nat] /\ Plus(HeldBoxes(js), None) = HeldBoxes(js)
    BY HeldType, PlusType
<1>13. CASE b = None
    <2>1. r = Failed(st)
        BY <1>7, <1>13
    <2>2. r.ok = FALSE /\ r.st = st
        BY <2>1 DEF Failed
    <2>3. Keep(DeleteBox(st, b)) /\ handles' = [handles EXCEPT ![h].filtered = b]
          /\ UNCHANGED views
        <3> HIDE DEF st, b
        <3>1. QED
            BY <1>7, <1>13, <2>2
    <2>4. handles' = js
        BY <1>11, <2>3
    <2>5. Done(DeleteBox(st, b), js)
        BY <1>1, <2>3, <2>4 DEF Done, Keep
    <2> HIDE DEF st, b, js
    <2>6. Good(st, Plus(HeldBoxes(js), b), HeldSources(js), OnBoard, Watches(boxes, js, views))
        BY <1>10, <1>12, <1>13
    <2>7. QED
        BY <1>5, <1>8, <1>10, <2>5, <2>6, ReleasedAtLast
<1>14. CASE b # None
    <2>1. r \in Apply(st, b) /\ b \in Box
        BY <1>5, <1>7, <1>14
    <2>2. HeldBoxes(js)[b] # 0
        <3>1. js[h].filtered = b
            BY <1>9
        <3> HIDE DEF js, b
        <3>2. QED
            BY <2>1, <3>1, HeldType
    <2> HIDE DEF st, b, js
    <2>3. st.boxes[b].kind # "free"
        BY <1>10, <2>1, <2>2, HeldIsThere
    <2>4. /\ Good(r.st, HeldBoxes(js), HeldSources(js), OnBoard, Watches(boxes, js, views))
          /\ r.ok => r.st.boxes[b].applied
        BY <1>8, <1>10, <2>1, <2>3, Applied DEF Applying
    <2>5. CASE r.ok
        <3>1. Keep(r.st) /\ handles' = [handles EXCEPT ![h].filtered = b] /\ Viewing(h, r.st, b)
            BY <1>7, <2>5
        <3>2. handles' = js
            BY <1>11, <3>1 DEF js
        <3>3. Keeper(js[h]) = b
            BY <1>9 DEF Keeper
        <3>4. board' = board /\ file' = file
            BY <1>1
        <3>5. QED
            BY <1>8, <1>10, <2>1, <2>2, <2>4, <2>5, <3>1, <3>2, <3>3, <3>4, ViewIsKept
    <2>6. CASE ~r.ok
        <3> DEFINE no == None
                   z  == Buffered(js[h], no)
                   ks == [js EXCEPT ![h] = z]
        <3>1. /\ Keep(DeleteBox(r.st, b)) /\ handles' = [handles EXCEPT ![h].filtered = no]
              /\ UNCHANGED views
            BY <1>7, <2>6
        <3>2. handles' = ks
            <4>1. z = Buffered(handles[h], no)
                <5>1. handles[h] \in HandleRecord /\ js[h] = [handles[h] EXCEPT !.filtered = b]
                    BY <1>8, <1>9 DEF Buffered
                <5> DEFINE x == handles[h]
                <5> HIDE DEF x
                <5>2. [[x EXCEPT !.filtered = b] EXCEPT !.filtered = no] = [x EXCEPT !.filtered = no]
                    <6>1. x \in HandleRecord
                        BY <5>1 DEF x
                    <6>2. QED
                        BY <6>1 DEF HandleRecord
                <5>3. QED
                    BY <5>1, <5>2 DEF Buffered, x
            <4> HIDE DEF z
            <4>2. ks = [handles EXCEPT ![h] = z]
                BY <1>8 DEF js
            <4>3. QED
                BY <1>11, <3>1, <4>1, <4>2
        <3>3. Done(DeleteBox(r.st, b), ks)
            BY <1>1, <3>1, <3>2 DEF Done, Keep
        <3>4. /\ Changed(js, ks, h, z) /\ Swaps(js[h], z, js[h].filtered, no)
              /\ js[h].filtered = b
            <4>1. js[h].kind \in {"item", "box"} /\ js[h].filtered = b /\ no \in Box \cup {None}
                BY <1>9
            <4> HIDE DEF no
            <4>2. Rebuffers(js, h, no, ks)
                BY <1>1, <4>1 DEF Rebuffers
            <4> HIDE DEF ks
            <4>3. QED
                BY <1>10, <4>1, <4>2, BufferedIs
        <3> HIDE DEF ks, z
        <3>5. /\ ClientIs(ks, views, board)
              /\ Good(DeleteBox(r.st, b), HeldBoxes(ks), HeldSources(ks), OnBoard,
                      Watches(boxes, ks, views))
            <4>1. Good(r.st, Plus(HeldBoxes(js), no), HeldSources(js), OnBoard,
                       Watches(boxes, js, views))
                BY <1>12, <2>4
            <4>2. Swaps(js[h], z, b, no) /\ b \in Box \cup {None}
                BY <2>1, <3>4
            <4> HIDE DEF no
            <4>3. QED
                BY <1>10, <3>4, <4>1, <4>2, Exchanged
        <3>6. QED
            BY <1>8, <3>3, <3>5, AfterDone
    <2>7. QED
        BY <2>5, <2>6
<1>15. QED
    BY <1>13, <1>14

-----------------------------------------------------------------------------
(***************************************************************************)
(* Data sources that are given up, added, or changed.                      *)
(***************************************************************************)
LEMMA UsesPlus ==
    ASSUME NEW bs, NEW V \in [Source -> Nat], NEW s
    PROVE  Uses(bs, PlusSource(V, s)) = PlusSource(Uses(bs, V), s)
<1> DEFINE U == PlusSource(V, s)
           T == Uses(bs, V)
<1>1. U \in [Source -> Nat] /\ \A x \in Source : U[x] = V[x] + One(x = s)
    BY PlusSourceType
<1>2. T \in [Source -> Nat] /\ \A x \in Source : T[x] = V[x] + Cardinality(Owners(bs, x))
    BY UsesType
<1> HIDE DEF U, T
<1>3. \A x \in Source : U[x] + Cardinality(Owners(bs, x)) = T[x] + One(x = s)
    <2> TAKE x \in Source
    <2>1. Cardinality(Owners(bs, x)) \in Nat /\ V[x] \in Nat /\ One(x = s) \in Nat
        BY InsideType DEF One
    <2>2. QED
        BY <1>1, <1>2, <2>1
<1>4. Uses(bs, U) = PlusSource(T, s)
    BY <1>3 DEF Uses, PlusSource
<1>5. QED
    BY <1>4 DEF U, T

(* What is watched is used.                                                *)
LEMMA WatchedIsUsed ==
    ASSUME NEW st, NEW E, NEW V, NEW K, NEW W, Good(st, E, V, K, W), NEW w \in W,
           NEW U \in [Source -> Nat], w.box = None => U[w.ds] # 0
    PROVE  w.ds \in Source /\ Uses(st.boxes, U)[w.ds] # 0
<1> DEFINE bs == st.boxes
           ds == w.ds
<1>1. Watched(st, E, V, w) /\ bs \in [Box -> BoxRecord] /\ Structure(bs)
    BY GoodType DEF Good
<1>2. ds \in Source
    BY <1>1 DEF Watched
<1>3. w.box # None => w.box \in Box /\ bs[w.box].applied /\ bs[w.box].ds = ds
    BY <1>1 DEF Watched
<1> HIDE DEF bs, ds
<1>4. w.box # None => Cardinality(Owners(bs, ds)) # 0
    BY <1>1, <1>3, HasOwner, InsideType
<1>5. Cardinality(Owners(bs, ds)) \in Nat /\ U[ds] \in Nat
    BY <1>2, InsideType
<1>6. Uses(bs, U)[ds] = U[ds] + Cardinality(Owners(bs, ds))
    BY <1>2, UsesType
<1>7. w.box = None => U[ds] # 0
    BY DEF ds
<1>8. QED
    BY <1>2, <1>4, <1>5, <1>6, <1>7 DEF bs, ds

LEMMA SourceLeft ==
    ASSUME NEW st, NEW E, NEW V \in [Source -> Nat], NEW s \in Source \cup {None}, NEW K, NEW W,
           Good(st, E, PlusSource(V, s), K, W), \A k \in K : V[k] # 0,
           \A w \in W : w.box = None => V[w.ds] # 0,
           NEW t, t = [st EXCEPT !.src = ReleaseSource(@, s)]
    PROVE  Good(t, E, V, K, W)
<1> DEFINE T == Uses(st.boxes, PlusSource(V, s))
           U == Uses(st.boxes, V)
           rs == ReleaseSource(st.src, s)
<1>1. /\ T \in [Source -> Nat] /\ U \in [Source -> Nat] /\ UsedAs(st.src, T)
      /\ \A x \in Source : T[x] = U[x] + One(x = s)
    <2>1. PlusSource(V, s) \in [Source -> Nat]
        BY PlusSourceType
    <2>2. T \in [Source -> Nat] /\ U \in [Source -> Nat]
        BY <2>1, UsesType
    <2>3. UsedAs(st.src, T)
        BY <2>1, SourcesAreUsed DEF Good
    <2>4. T = PlusSource(U, s)
        BY UsesPlus
    <2>5. \A x \in Source : PlusSource(U, s)[x] = U[x] + One(x = s)
        BY <2>2, PlusSourceType
    <2> HIDE DEF T, U
    <2>6. QED
        BY <2>2, <2>3, <2>4, <2>5
<1>2. /\ st.src \in [Source -> SourceRecord] /\ st.opened \in OpenedRecord
      /\ FilesOf(st.src, st.cache) /\ st \in State
    BY DEF Good, State, OpenedRecord, Cached, FilesOf
<1>3. t = [boxes |-> st.boxes, src |-> rs, cache |-> st.cache, opened |-> st.opened]
    <2>1. t = [st EXCEPT !.src = rs]
        OBVIOUS
    <2> HIDE DEF rs
    <2>2. QED
        BY <1>2, <2>1 DEF State
<1> HIDE DEF T, U, rs
<1>4. /\ rs \in [Source -> SourceRecord] /\ UsedAs(rs, U)
      /\ \A x \in Source : U[x] # 0 => rs[x].data = st.src[x].data
      /\ \A x \in Source : st.src[x].kind = "file" => rs[x].kind = "file"
    BY <1>1, <1>2, ReleasedSource DEF rs
<1>5. FilesOf(rs, st.cache)
    <2>1. \A i \in DOMAIN st.cache : st.cache[i] \in Source
        BY <1>2 DEF FilesOf
    <2>2. QED
        BY <1>2, <1>4, <2>1 DEF FilesOf
<1>6. \A w \in W : rs[w.ds].data = w.data
    <2> TAKE w \in W
    <2>1. w.ds \in Source /\ U[w.ds] # 0
        BY WatchedIsUsed DEF U
    <2>2. st.src[w.ds].data = w.data
        BY DEF Good, Watched
    <2>3. QED
        BY <1>4, <2>1, <2>2
<1>7. \A k \in K : k \in Source
    BY DEF Good, Sourced
<1>8. t.src = rs /\ t.cache = st.cache /\ t.opened = st.opened
    BY <1>3
<1>9. Resourced(st, t, V, K, K, W)
    BY <1>2, <1>3, <1>4, <1>5, <1>6, <1>7, <1>8 DEF Resourced, U
<1>10. QED
    BY <1>9, SourcesChanged

(* All that an object holds is given up with it.                           *)
LEMMA HeldWithout ==
    ASSUME NEW js, NEW h, Others(handles, js, h), js[h] = NoHandle,
           NEW x, x = handles[h]
    PROVE  Held0 = Plus(Plus(Plus(HeldBoxes(js), x.filtered), x.value.box), x.box)
<1> DEFINE E == HeldBoxes(js)
           F == Plus(E, x.filtered)
           G == Plus(F, x.value.box)
<1>1. E \in [Box -> Nat]
    BY HeldType
<1>2. /\ F \in [Box -> Nat] /\ G \in [Box -> Nat] /\ Plus(G, x.box) \in [Box -> Nat]
      /\ \A a \in Box : /\ F[a] = E[a] + One(a = x.filtered)
                        /\ G[a] = F[a] + One(a = x.value.box)
                        /\ Plus(G, x.box)[a] = G[a] + One(a = x.box)
    BY <1>1, PlusType
<1> HIDE DEF E, F, G
<1>3. ASSUME NEW a \in Box PROVE Held0[a] = Plus(G, x.box)[a]
    <2>1. Held(js, a) + Own(x, a) = Held(handles, a) + Own(js[h], a)
        BY HeldDiffers
    <2>2. Own(js[h], a) = 0
        BY BoxFinite DEF Own, One, NoHandle, NoValue
    <2>3. /\ Held(js, a) \in Nat /\ Held(handles, a) \in Nat
          /\ E[a] = Held(js, a) /\ Held0[a] = Held(handles, a)
        BY HeldType DEF E, Held0
    <2>4. Own(x, a) = One(a = x.box) + One(a = x.value.box) + One(a = x.filtered)
        BY DEF Own, One
    <2>5. One(a = x.box) \in Nat /\ One(a = x.value.box) \in Nat /\ One(a = x.filtered) \in Nat
        BY DEF One
    <2>6. QED
        BY <1>2, <2>1, <2>2, <2>3, <2>4, <2>5
<1>4. Held0 \in [Box -> Nat]
    BY HeldType DEF Held0
<1>5. Held0 = Plus(G, x.box)
    BY <1>2, <1>3, <1>4
<1>6. QED
    BY <1>5 DEF E, F, G

LEMMA DropKeeps ==
    ASSUME IInv, NEW h \in Handle, Drop(h)
    PROVE  IInv'
<1> DEFINE x  == handles[h]
           bx == x.box
           vb == x.value.box
           fb == x.filtered
           ds == x.value.ds
           js == [handles EXCEPT ![h] = NoHandle]
           s1 == DeleteBox(Now, bx)
           s2 == DeleteBox(s1, vb)
           s3 == DeleteBox(s2, fb)
           t  == [s3 EXCEPT !.src = ReleaseSource(@, ds)]
<1>1. ~Unused(h) /\ ~Viewed(h) /\ Done(t, js)
    BY Zenon DEF Drop
<1>2. /\ Good(Now, Held0, Sourced0, OnBoard, Watched0)
      /\ ClientIs(handles, views, board) /\ file \in [Path -> Nat] /\ board \in Seq(Source)
    BY BeforeCall DEF ClientIs
<1>3. /\ bx \in Box \cup {None} /\ vb \in Box \cup {None} /\ fb \in Box \cup {None}
      /\ ds \in Source \cup {None}
    BY <1>2 DEF ClientIs, HandleRecord, ValueRecord
<1>4. Changed(handles, js, h, NoHandle)
    <2>1. NoHandle \in HandleRecord /\ IsHandle(NoHandle)
        BY DEF NoHandle, NoValue, HandleRecord, ValueRecord, IsHandle, Gone
    <2>2. Keeping(h, handles[h], NoHandle)
        BY <1>1 DEF Keeping, Viewed
    <2>3. QED
        BY <2>1, <2>2 DEF Changed
<1>5. Done(t, js)
    BY <1>1
<1> HIDE DEF js, t
<1>6. ClientIs(js, views, board) /\ Others(handles, js, h) /\ js[h] = NoHandle
    BY <1>2, <1>4, ObjectChanged
<1> DEFINE E == HeldBoxes(js)
           F == Plus(E, fb)
           G == Plus(F, vb)
           W == Watches(boxes, js, views)
           V == HeldSources(js)
<1>7. Held0 = Plus(G, bx)
    BY <1>6, HeldWithout
<1>8. Sourced0 = PlusSource(V, ds)
    <2>1. Others(js, handles, h) /\ js[h].value.ds = None
        BY <1>6 DEF Others, NoHandle, NoValue
    <2>2. QED
        BY <1>2, <2>1, HeldSourcesPlus DEF Sourced0
<1>9. W \subseteq Watched0
    <2>1. Keeping(h, handles[h], js[h]) /\ js[h].value = NoValue
        BY <1>4, <1>6 DEF Changed, NoHandle
    <2>2. \A v \in views : v.of \in Handle
        BY <1>2 DEF ClientIs, ViewRecord
    <2>3. QED
        BY <1>6, <2>1, <2>2, NoneMore DEF Watched0
<1> HIDE DEF bx, vb, fb, ds, x
<1>10. E \in [Box -> Nat] /\ F \in [Box -> Nat] /\ G \in [Box -> Nat] /\ V \in [Source -> Nat]
    BY <1>2, HeldType, HeldSourcesType, PlusType
<1>11. Good(Now, Plus(G, bx), Sourced0, OnBoard, W)
    <2> HIDE DEF W, G
    <2>1. QED
        BY <1>2, <1>7, <1>9, GoodFewer
<1>12. Unaided(W, E) /\ Unaided(W, F) /\ Unaided(W, G)
    <2>1. \A v \in views : v.of \in Handle
        BY <1>2 DEF ClientIs, ViewRecord
    <2>2. \A w \in W : w.box # None => w.box \in Box
        BY <1>11 DEF Good, Watched
    <2>3. Unaided(W, E)
        BY <2>1, <2>2, UnaidedHeld
    <2> HIDE DEF W, E
    <2>4. Unaided(W, F)
        BY <1>10, <1>11, <2>3, UnaidedPlus
    <2> HIDE DEF F
    <2>5. Unaided(W, G)
        BY <1>10, <1>11, <2>4, UnaidedPlus
    <2>6. QED
        BY <2>3, <2>4, <2>5
<1> HIDE DEF W, V, s1, s2, s3
<1>13. Good(s1, G, Sourced0, OnBoard, W)
    <2> HIDE DEF E, F, G
    <2>1. QED
        BY <1>3, <1>10, <1>11, <1>12, Released DEF s1
<1>14. Good(s2, F, Sourced0, OnBoard, W)
    <2>1. Good(s1, Plus(F, vb), Sourced0, OnBoard, W)
        BY <1>13
    <2> HIDE DEF E, F, G
    <2>2. QED
        BY <1>3, <1>10, <1>12, <2>1, Released DEF s2
<1>15. Good(s3, E, Sourced0, OnBoard, W)
    <2>1. Good(s2, Plus(E, fb), Sourced0, OnBoard, W)
        BY <1>14
    <2> HIDE DEF E, F, G
    <2>2. QED
        BY <1>3, <1>10, <1>12, <2>1, Released DEF s3
<1>16. \A s \in OnBoard : V[s] # 0
    <2>1. \A s \in OnBoard : s \in Source
        BY <1>2, HeldSourcesType
    <2>2. QED
        BY <1>2, <2>1, HeldSourcesType DEF V
<1>17. \A w \in W : w.box = None => V[w.ds] # 0
    <2> SUFFICES ASSUME NEW w \in W, w.box = None PROVE V[w.ds] # 0
        OBVIOUS
    <2>1. SafeClient /\ \/ \E v \in views : w = WatchOfView(js, v)
                        \/ \E k \in Handle : js[k].value # NoValue /\ w = WatchOfValue(boxes, js[k])
        BY WatchedIs DEF W
    <2>2. ASSUME NEW v \in views, w = WatchOfView(js, v) PROVE FALSE
        BY <1>6, <2>1, <2>2 DEF ClientIs, WatchOfView
    <2>3. PICK k \in Handle : js[k].value # NoValue /\ w = WatchOfValue(boxes, js[k])
        BY <2>1, <2>2
    <2>4. js[k].value.box = None /\ w.ds = js[k].value.ds
        BY <2>3 DEF WatchOfValue
    <2>5. IsHandle(js[k]) /\ js[k] \in HandleRecord
        BY <1>6 DEF ClientIs
    <2>6. js[k].value.ds \in Source
        BY <2>3, <2>4, <2>5 DEF IsHandle, HandleRecord, ValueRecord
    <2>7. QED
        BY <1>2, <2>4, <2>6, HeldSourcesType DEF V
<1>18. Good(t, E, V, OnBoard, W)
    <2> HIDE DEF E
    <2>1. QED
        BY <1>3, <1>8, <1>10, <1>15, <1>16, <1>17, SourceLeft DEF t
<1>19. QED
    BY <1>2, <1>5, <1>6, <1>18, AfterDone DEF W, V

(* A call that leaves the boxes and the objects alone.                     *)
LEMMA AfterSources ==
    ASSUME NEW t, t.boxes = boxes, t.src = src', t.cache = cache', t.opened = opened',
           UNCHANGED <<boxes, handles, views>>,
           file' \in [Path -> Nat], board' \in Seq(Source), ClientIs(handles, views, board),
           Good(t, HeldBoxes(handles), HeldSources(handles)', OnBoard',
                Watches(boxes, handles, views))
    PROVE  IInv'
<1>1. [Now EXCEPT !.opened = opened]' = t
    <2>1. t \in State
        BY DEF Good
    <2>2. t = [boxes |-> t.boxes, src |-> t.src, cache |-> t.cache, opened |-> t.opened]
        BY <2>1 DEF State
    <2>3. QED
        BY <2>2 DEF Now
<1>2. ClientOK'
    BY DEF ClientIs, ClientOK
<1>3. HeldBoxes(handles)' = HeldBoxes(handles)
    BY DEF HeldBoxes, Held, InBox, InValue, Filtering
<1>4. Watches(boxes, handles, views)' = Watches(boxes, handles, views)
    BY DEF Watches, WatchOfView, WatchOfValue, SafeClient
<1>5. QED
    BY <1>1, <1>2, <1>3, <1>4, Zenon DEF IInv

(* The board has its first data source.                                    *)
LEMMA BoardIs ==
    ASSUME NEW s \in Source, board = <<>>, board' = Append(board, s), handles' = handles
    PROVE  /\ board' \in Seq(Source) /\ OnBoard = {} /\ OnBoard' = {s}
           /\ HeldSources(handles)' = PlusSource(Sourced0, s)
<1>1. board' = <<s>> /\ board' \in Seq(Source) /\ DOMAIN board' = {1} /\ board'[1] = s
    OBVIOUS
<1>2. OnBoard = {} /\ OnBoard' = {s}
    BY <1>1 DEF OnBoard
<1>3. ASSUME NEW a \in Source PROVE InBoard(a) = 0 /\ InBoard(a)' = One(a = s)
    <2> DEFINE S == {i \in DOMAIN board : board[i] = a}
               T == {i \in DOMAIN board' : board'[i] = a}
    <2>1. S = {}
        OBVIOUS
    <2>2. T = IF a = s THEN {1} ELSE {}
        BY <1>1
    <2>3. InBoard(a) = Cardinality(S) /\ InBoard(a)' = Cardinality(T)
        BY DEF InBoard
    <2> HIDE DEF S, T
    <2>4. QED
        BY <2>1, <2>2, <2>3, FS_EmptySet, FS_Singleton DEF One
<1>4. HeldSources(handles)' = [a \in Source |-> InBoard(a)' + Cardinality(InSource(handles, a))]
    BY DEF HeldSources, InSource
<1>5. Sourced0 = [a \in Source |-> InBoard(a) + Cardinality(InSource(handles, a))]
    BY DEF Sourced0, HeldSources
<1>6. \A a \in Source : Cardinality(InSource(handles, a)) \in Nat
    BY HeldIsFinite
<1>7. \A a \in Source : InBoard(a)' + Cardinality(InSource(handles, a)) = Sourced0[a] + One(a = s)
    <2> TAKE a \in Source
    <2>1. Sourced0[a] = InBoard(a) + Cardinality(InSource(handles, a))
        BY <1>5
    <2>2. InBoard(a) = 0 /\ InBoard(a)' = One(a = s) /\ One(a = s) \in Nat
        BY <1>3 DEF One
    <2>3. QED
        BY <1>6, <2>1, <2>2
<1>8. QED
    BY <1>1, <1>2, <1>4, <1>7 DEF PlusSource

LEMMA AddSourceKeeps ==
    ASSUME IInv, AddSource
    PROVE  IInv'
<1> DEFINE T == Uses(boxes, Sourced0)
           U(s) == PlusSource(Sourced0, s)
<1>1. /\ Good(Now, Held0, Sourced0, OnBoard, Watched0) /\ Now.boxes = boxes /\ Now.src = src
      /\ Now.cache = cache /\ ClientIs(handles, views, board) /\ file \in [Path -> Nat]
      /\ Sourced0 \in [Source -> Nat]
    BY BeforeCall
<1>2. /\ src \in [Source -> SourceRecord] /\ FilesOf(src, cache) /\ T \in [Source -> Nat]
      /\ UsedAs(src, T)
    <2>1. Now \in State /\ Cached(Now)
        BY <1>1 DEF Good
    <2>2. src \in [Source -> SourceRecord] /\ FilesOf(src, cache)
        BY <1>1, <2>1 DEF State, Cached, FilesOf
    <2>3. T \in [Source -> Nat] /\ UsedAs(src, T)
        BY <1>1, UsesType, SourcesAreUsed DEF Good
    <2>4. QED
        BY <2>2, <2>3
<1>3. Fresh(src) # {} /\ board = <<>> /\ UNCHANGED <<boxes, handles, views, file>>
    BY DEF AddSource
<1>4. \A w \in Watched0 : w.ds \in Source /\ T[w.ds] # 0 /\ src[w.ds].data = w.data
                          /\ (w.box = None => Sourced0[w.ds] # 0)
    <2> TAKE w \in Watched0
    <2>1. Watched(Now, Held0, Sourced0, w)
        BY <1>1 DEF Good
    <2>2. w.box = None => Sourced0[w.ds] # 0
        BY <2>1 DEF Watched
    <2>3. w.ds \in Source /\ T[w.ds] # 0
        BY <1>1, <2>2, WatchedIsUsed
    <2>4. QED
        BY <1>1, <2>1, <2>2, <2>3 DEF Watched
<1> HIDE DEF T
<1>5. \E s \in Source :
         /\ board' = Append(board, s) /\ opened' \in OpenedRecord
         /\ src' \in [Source -> SourceRecord] /\ UsedAs(src', PlusSource(T, s))
         /\ FilesOf(src', cache') /\ \A x \in Source : T[x] # 0 => src'[x].data = src[x].data
    <2> DEFINE m0 == Min(Fresh(src))
               rs == NewSource(src, "memory", Lost, 0)
    <2>1. /\ m0 \in Source /\ rs \in [Source -> SourceRecord]
          /\ UsedAs(rs, PlusSource(T, m0))
          /\ \A z \in Source : T[z] # 0 => rs[z].data = src[z].data
          /\ \A z \in Source : src[z].kind # "free" => rs[z].kind = src[z].kind
        BY <1>2, <1>3, MemoryIsMade
    <2> HIDE DEF rs
    <2>2. CASE /\ src' = rs /\ board' = Append(board, m0) /\ opened' = Nothing
               /\ UNCHANGED cache
        <3>1. opened' \in OpenedRecord
            BY <2>2 DEF Nothing, OpenedRecord
        <3>2. FilesOf(src', cache')
            <4>1. \A i \in DOMAIN cache : cache[i] \in Source
                BY <1>2 DEF FilesOf
            <4>2. QED
                BY <1>2, <2>1, <2>2, <4>1 DEF FilesOf
        <3> HIDE DEF m0
        <3>3. QED
            BY <2>1, <2>2, <3>1, <3>2
    <2>3. ASSUME NEW p \in Path, NEW m \in Matches(src, cache, p),
                 LET o == Opening(src, cache, p, m) IN
                 /\ src' = o.src /\ cache' = o.cache
                 /\ board' = Append(board, o.ds) /\ opened' = [ds |-> o.ds, path |-> p]
          PROVE  \E s \in Source :
                    /\ board' = Append(board, s) /\ opened' \in OpenedRecord
                    /\ src' \in [Source -> SourceRecord] /\ UsedAs(src', PlusSource(T, s))
                    /\ FilesOf(src', cache')
                    /\ \A x \in Source : T[x] # 0 => src'[x].data = src[x].data
        <3> DEFINE o == Opening(src, cache, p, m)
                   P == PlusSource(T, o.ds)
        <3>1. src' = o.src /\ cache' = o.cache /\ board' = Append(board, o.ds)
              /\ opened' = [ds |-> o.ds, path |-> p]
            BY <2>3
        <3>2. o.ds # None
            <4>1. m # None => o.ds = m
                BY DEF Opening
            <4>2. m = None => o.ds = m0
                BY <1>3 DEF Opening
            <4>3. QED
                BY <2>1, <4>1, <4>2, BoxFinite
        <3>3. P \in [Source -> Nat] /\ \A x \in Source : P[x] = T[x] + One(x = o.ds)
            BY <1>2, PlusSourceType
        <3> HIDE DEF P
        <3>4. /\ o.ds \in Source
              /\ o.src \in [Source -> SourceRecord] /\ UsedAs(o.src, P)
              /\ FilesOf(o.src, o.cache)
              /\ \A x \in Source : T[x] # 0 => o.src[x].data = src[x].data
            BY <1>1, <1>2, <3>2, <3>3, Opened
        <3> HIDE DEF o
        <3>5. opened' \in OpenedRecord
            BY <3>1, <3>4 DEF OpenedRecord
        <3>6. QED
            BY <3>1, <3>4, <3>5 DEF P
    <2>4. \/ /\ src' = rs /\ board' = Append(board, m0) /\ opened' = Nothing /\ UNCHANGED cache
          \/ \E p \in Path : \E m \in Matches(src, cache, p) :
                 LET o == Opening(src, cache, p, m) IN
                 /\ src' = o.src /\ cache' = o.cache
                 /\ board' = Append(board, o.ds) /\ opened' = [ds |-> o.ds, path |-> p]
        BY Zenon DEF AddSource, rs
    <2>5. CASE /\ src' = rs /\ board' = Append(board, m0) /\ opened' = Nothing
               /\ UNCHANGED cache
        BY <2>2, <2>5
    <2>6. CASE \E p \in Path : \E m \in Matches(src, cache, p) :
                 LET o == Opening(src, cache, p, m) IN
                 /\ src' = o.src /\ cache' = o.cache
                 /\ board' = Append(board, o.ds) /\ opened' = [ds |-> o.ds, path |-> p]
        BY <2>3, <2>6, Zenon
    <2>7. QED
        BY <2>4, <2>5, <2>6
<1>6. PICK s \in Source :
         /\ board' = Append(board, s) /\ opened' \in OpenedRecord
         /\ src' \in [Source -> SourceRecord] /\ UsedAs(src', PlusSource(T, s))
         /\ FilesOf(src', cache') /\ \A x \in Source : T[x] # 0 => src'[x].data = src[x].data
    BY <1>5
<1>7. /\ board' \in Seq(Source) /\ OnBoard = {} /\ OnBoard' = {s}
      /\ HeldSources(handles)' = U(s)
    BY <1>3, <1>6, BoardIs
<1> DEFINE t == [boxes |-> boxes, src |-> src', cache |-> cache', opened |-> opened']
<1>8. t.boxes = boxes /\ t.src = src' /\ t.cache = cache' /\ t.opened = opened'
    OBVIOUS
<1>9. t = [boxes |-> Now.boxes, src |-> t.src, cache |-> t.cache, opened |-> t.opened]
    BY <1>1, <1>8
<1> HIDE DEF t
<1>10. /\ U(s) \in [Source -> Nat] /\ \A x \in Source : U(s)[x] = Sourced0[x] + One(x = s)
       /\ Uses(boxes, U(s)) = PlusSource(T, s)
    BY <1>1, PlusSourceType, UsesPlus DEF T
<1>11. /\ U(s)[s] # 0 /\ \A x \in Source : Sourced0[x] # 0 => U(s)[x] # 0
    <2> DEFINE V == U(s)
    <2>1. \A x \in Source : V[x] = Sourced0[x] + One(x = s) /\ Sourced0[x] \in Nat
        BY <1>1, <1>10
    <2> HIDE DEF V
    <2>2. V[s] # 0 /\ \A x \in Source : Sourced0[x] # 0 => V[x] # 0
        BY <2>1 DEF One
    <2>3. QED
        BY <2>2 DEF V
<1> HIDE DEF U
<1>12. Resourced(Now, t, U(s), OnBoard, OnBoard', Watched0)
    <2>1. /\ t.src \in [Source -> SourceRecord] /\ FilesOf(t.src, t.cache)
          /\ t.opened \in OpenedRecord /\ UsedAs(t.src, Uses(Now.boxes, U(s)))
        BY <1>1, <1>6, <1>8, <1>10
    <2>2. OnBoard \subseteq OnBoard' /\ \A x \in OnBoard' : x \in Source /\ U(s)[x] # 0
        BY <1>7, <1>11
    <2>3. \A w \in Watched0 : t.src[w.ds].data = w.data /\ (w.box = None => U(s)[w.ds] # 0)
        BY <1>4, <1>6, <1>8, <1>11
    <2>4. QED
        BY <1>9, <1>10, <2>1, <2>2, <2>3 DEF Resourced
<1>13. Good(t, Held0, U(s), OnBoard', Watched0)
    BY <1>1, <1>12, SourcesChanged
<1>14. file' \in [Path -> Nat]
    BY <1>1, <1>3
<1>15. Good(t, HeldBoxes(handles), HeldSources(handles)', OnBoard', Watches(boxes, handles, views))
    BY <1>7, <1>13 DEF Held0, Watched0
<1>16. QED
    BY <1>1, <1>3, <1>7, <1>8, <1>14, <1>15, AfterSources

(* When a file changes, nothing is held of it, or nothing is claimed.      *)
LEMMA FileChangeKeeps ==
    ASSUME IInv, FileChange
    PROVE  IInv'
<1>1. /\ Good(Now, Held0, Sourced0, OnBoard, Watched0) /\ Now.boxes = boxes /\ Now.src = src
      /\ Now.cache = cache /\ ClientIs(handles, views, board) /\ file \in [Path -> Nat]
      /\ Sourced0 \in [Source -> Nat]
    BY BeforeCall
<1>2. /\ UNCHANGED <<boxes, handles, views, board>>
      /\ "notify" \in Risky \/ (views = {} /\ \A h \in Handle : handles[h].value = NoValue)
    BY DEF FileChange
<1>3. Watched0 = {}
    <2> SUFFICES ASSUME NEW w \in Watches(boxes, handles, views) PROVE FALSE
        BY DEF Watched0
    <2>1. SafeClient /\ \/ \E k \in views : w = WatchOfView(handles, k)
                        \/ \E k \in Handle : /\ handles[k].value # NoValue
                                             /\ w = WatchOfValue(boxes, handles[k])
        BY WatchedIs
    <2>2. QED
        BY <1>2, <2>1 DEF SafeClient
<1>4. PICK p \in Path : ChangeFile(p)
    BY DEF FileChange
<1>5. PICK m \in Matches(src, cache, p), d \in {file'[p]} \cup Unread : src' = Refreshed(m, d)
    BY <1>4 DEF ChangeFile
<1>6. /\ file' = [file EXCEPT ![p] = file[p] + 1] /\ opened' = Nothing /\ cache' = cache
    BY <1>4 DEF ChangeFile, Nothing
<1>7. file' \in [Path -> Nat]
    BY <1>1, <1>6
<1>8. src \in [Source -> SourceRecord] /\ FilesOf(src, cache) /\ cache \in Seq(Source)
    <2>1. Now \in State /\ Cached(Now)
        BY <1>1 DEF Good
    <2>2. QED
        BY <1>1, <2>1 DEF State, Cached, FilesOf
<1> DEFINE T == Uses(boxes, Sourced0)
<1>9. UsedAs(src, T)
    BY <1>1, SourcesAreUsed DEF Good
<1> HIDE DEF T
<1>10. m = None \/ (m \in Source /\ src[m].kind = "file")
    <2>1. m = None \/ \E i \in DOMAIN cache : m = cache[i]
        BY <1>8, MatchesType
    <2>2. QED
        BY <1>8, <2>1 DEF FilesOf
<1>11. /\ src' \in [Source -> SourceRecord] /\ UsedAs(src', T)
       /\ \A x \in Source : src'[x].kind = src[x].kind
    <2>1. CASE m = None
        BY <1>5, <1>8, <1>9, <2>1 DEF Refreshed
    <2>2. CASE m # None
        <3> DEFINE r1 == [src EXCEPT ![m].path = Lost]
                   r2 == [r1 EXCEPT ![m].data = d]
        <3>1. src' = r2
            BY <1>5, <2>2 DEF Refreshed
        <3>2. d \in Int
            BY <1>5, <1>7 DEF Unread, Gone
        <3>3. /\ r1 \in [Source -> SourceRecord]
              /\ r1[m].kind = src[m].kind /\ r1[m].use = src[m].use
              /\ \A x \in Source \ {m} : r1[x] = src[x]
            BY <1>8, <1>10, <2>2 DEF SourceRecord
        <3> HIDE DEF r1
        <3>4. /\ r2 \in [Source -> SourceRecord]
              /\ r2[m].kind = src[m].kind /\ r2[m].use = src[m].use
              /\ \A x \in Source \ {m} : r2[x] = src[x]
            BY <1>10, <2>2, <3>2, <3>3 DEF SourceRecord
        <3> HIDE DEF r2
        <3>5. UsedAs(r2, T)
            BY <1>9, <1>10, <2>2, <3>4 DEF UsedAs, NoSource
        <3>6. QED
            BY <3>1, <3>4, <3>5
    <2>3. QED
        BY <2>1, <2>2
<1> DEFINE t == [boxes |-> boxes, src |-> src', cache |-> cache', opened |-> opened']
<1>12. t.boxes = boxes /\ t.src = src' /\ t.cache = cache' /\ t.opened = opened'
    OBVIOUS
<1>13. t = [boxes |-> Now.boxes, src |-> t.src, cache |-> t.cache, opened |-> t.opened]
    BY <1>1, <1>12
<1> HIDE DEF t
<1>14. Resourced(Now, t, Sourced0, OnBoard, OnBoard, Watched0)
    <2>1. FilesOf(t.src, t.cache)
        BY <1>6, <1>8, <1>11, <1>12 DEF FilesOf
    <2>2. t.opened \in OpenedRecord
        BY <1>6, <1>12 DEF Nothing, OpenedRecord
    <2>3. \A x \in OnBoard : x \in Source /\ Sourced0[x] # 0
        BY <1>1 DEF Good, Sourced
    <2>4. UsedAs(t.src, Uses(Now.boxes, Sourced0))
        BY <1>1, <1>11, <1>12 DEF T
    <2>5. QED
        BY <1>1, <1>3, <1>11, <1>12, <1>13, <2>1, <2>2, <2>3, <2>4 DEF Resourced
<1>15. Good(t, Held0, Sourced0, OnBoard, Watched0)
    BY <1>1, <1>14, SourcesChanged
<1>16. HeldSources(handles)' = Sourced0 /\ OnBoard' = OnBoard
    BY <1>2 DEF HeldSources, InBoard, InSource, OnBoard, Sourced0
<1>17. board' \in Seq(Source)
    BY <1>1, <1>2 DEF ClientIs
<1>18. Good(t, HeldBoxes(handles), HeldSources(handles)', OnBoard', Watches(boxes, handles, views))
    BY <1>15, <1>16 DEF Held0, Watched0
<1>19. QED
    BY <1>1, <1>2, <1>7, <1>12, <1>17, <1>18, AfterSources

-----------------------------------------------------------------------------
(***************************************************************************)
(* All together.                                                           *)
(***************************************************************************)
LEMMA InitIsGood ==
    ASSUME Init
    PROVE  IInv
<1> DEFINE bs == boxes
           st == [Now EXCEPT !.opened = opened]
<1>1. /\ bs = [b \in Box |-> NoBox] /\ handles = [h \in Handle |-> NoHandle]
      /\ views = {} /\ board = <<>> /\ src = [s \in Source |-> NoSource] /\ cache = <<>>
      /\ file = [p \in Path |-> 0] /\ opened = Nothing
    BY DEF Init, SourcesInit, Nothing
<1>2. NoHandle \in HandleRecord /\ IsHandle(NoHandle) /\ NoHandle.value = NoValue
    BY DEF NoHandle, NoValue, HandleRecord, ValueRecord, IsHandle, Gone
<1>3. NoBox \in BoxRecord
    BY ReferenceAssumption DEF NoBox, BoxRecord, Filters
<1>4. NoSource \in SourceRecord
    BY DEF NoSource, SourceRecord, Gone
<1>5. ClientOK
    BY <1>1, <1>2 DEF ClientOK
<1>6. /\ st \in State /\ st.boxes = bs /\ st.src = src /\ st.cache = cache
    <2>1. st = [boxes |-> bs, src |-> src, cache |-> cache, opened |-> opened]
        BY DEF Now
    <2>2. /\ bs \in [Box -> BoxRecord] /\ src \in [Source -> SourceRecord]
          /\ cache \in Seq(Source) /\ opened \in [ds : Source \cup {None}, path : Path \cup {Lost}]
        BY <1>1, <1>3, <1>4 DEF Nothing
    <2> HIDE DEF st, bs
    <2>3. QED
        BY <2>1, <2>2 DEF State
<1>7. \A b \in Box : HeldBoxes(handles)[b] = 0
    <2> TAKE b \in Box
    <2>1. InBox(handles, b) = {} /\ InValue(handles, b) = {} /\ Filtering(handles, b) = {}
        BY <1>1, BoxFinite DEF InBox, InValue, Filtering, NoHandle, NoValue
    <2>2. Held(handles, b) = 0
        BY <2>1, FS_EmptySet DEF Held
    <2>3. QED
        BY <2>2, HeldType
<1>8. \A s \in Source : HeldSources(handles)[s] = 0
    <2> TAKE s \in Source
    <2>1. InSource(handles, s) = {}
        BY <1>1, BoxFinite DEF InSource, NoHandle, NoValue
    <2>2. {i \in DOMAIN board : board[i] = s} = {}
        BY <1>1
    <2>3. InBoard(s) + Cardinality(InSource(handles, s)) = 0
        BY <2>1, <2>2, FS_EmptySet DEF InBoard
    <2>4. QED
        BY <2>3 DEF HeldSources
<1>9. HeldBoxes(handles) \in [Box -> Nat] /\ HeldSources(handles) \in [Source -> Nat]
    BY <1>1, HeldType, HeldSourcesType
<1>10. \A b \in Box : Inside(bs, b) = 0
    <2> TAKE b \in Box
    <2>1. Children(bs, b) = {} /\ Scoped(bs, b) = {}
        BY <1>1, BoxFinite DEF Children, Scoped, NoBox
    <2>2. QED
        BY <2>1, FS_EmptySet DEF Inside
<1>11. \A s \in Source : Cardinality(Owners(bs, s)) = 0
    <2> TAKE s \in Source
    <2>1. Owners(bs, s) = {}
        BY <1>1 DEF Owners, NoBox
    <2>2. QED
        BY <2>1, FS_EmptySet
<1>12. Structure(bs)
    <2> SUFFICES ASSUME NEW x \in Box PROVE Placed(bs, x) /\ Filled(bs, x)
        BY DEF Structure
    <2>1. bs[x] = NoBox
        BY <1>1
    <2>2. Placed(bs, x)
        BY <2>1 DEF Placed, NoBox
    <2>3. Filled(bs, x)
        BY <2>1 DEF Filled, NoBox
    <2>4. QED
        BY <2>2, <2>3
<1>13. BoxCounts(bs, HeldBoxes(handles))
    <2>1. \A x \in Box : bs[x].use = 0 /\ bs[x].kind = "free"
        BY <1>1 DEF NoBox
    <2> HIDE DEF bs
    <2>2. QED
        BY <1>7, <1>10, <2>1 DEF BoxCounts
<1>14. SourceCounts(bs, src, HeldSources(handles))
    BY <1>1, <1>8, <1>11 DEF SourceCounts, NoSource
<1>15. Cached(st)
    BY <1>1, <1>6 DEF Cached
<1>16. OnBoard = {}
    BY <1>1 DEF OnBoard
<1>17. Sourced(bs, HeldSources(handles), OnBoard)
    BY <1>1, <1>16 DEF Sourced, NoBox
<1>18. Watches(boxes, handles, views) = {}
    <2> SUFFICES ASSUME NEW w \in Watches(boxes, handles, views) PROVE FALSE
        OBVIOUS
    <2>1. \/ \E k \in views : w = WatchOfView(handles, k)
          \/ \E k \in Handle : handles[k].value # NoValue /\ w = WatchOfValue(boxes, handles[k])
        BY WatchedIs
    <2>2. QED
        BY <1>1, <1>2, <2>1
<1> HIDE DEF st, bs
<1>19. Good(st, HeldBoxes(handles), HeldSources(handles), OnBoard,
            Watches(boxes, handles, views))
    BY <1>6, <1>9, <1>12, <1>13, <1>14, <1>15, <1>17, <1>18 DEF Good
<1>20. QED
    BY <1>5, <1>19 DEF IInv, st

LEMMA StutterKeeps ==
    ASSUME IInv, UNCHANGED vars
    PROVE  IInv'
<1>1. UNCHANGED <<boxes, handles, views, board, src, cache, file, opened>>
    BY DEF vars
<1>2. ClientOK'
    BY <1>1 DEF IInv, ClientOK
<1>3. /\ [Now EXCEPT !.opened = opened]' = [Now EXCEPT !.opened = opened]
      /\ HeldBoxes(handles)' = HeldBoxes(handles) /\ HeldSources(handles)' = HeldSources(handles)
      /\ OnBoard' = OnBoard /\ Watches(boxes, handles, views)' = Watches(boxes, handles, views)
    BY <1>1 DEF Now, HeldBoxes, Held, InBox, InValue, Filtering, HeldSources, InBoard, InSource,
                OnBoard, Watches, WatchOfView, WatchOfValue, SafeClient
<1>4. QED
    BY <1>2, <1>3, Zenon DEF IInv

(* The client keeps to the two ways that the library counts for: it does   *)
(* not leave a box by way of another one, and tracks only containers.      *)
Counted == {"leave", "untracked"} \cap Risky = {}

LEMMA NextKeeps ==
    ASSUME IInv, Counted, [Next]_vars
    PROVE  IInv'
<1>1. "leave" \notin Risky /\ "untracked" \notin Risky
    BY DEF Counted
<1>2. CASE AddSource
    BY <1>2, AddSourceKeeps
<1>3. CASE DropView
    BY <1>3, DropViewKeeps
<1>4. CASE FileChange
    BY <1>4, FileChangeKeeps
<1>5. ASSUME NEW h \in Handle,
             EvalExpr(h) \/ Move(h) \/ Enter(h) \/ Return(h) \/ GetValue(h)
             \/ GetBuffer(h) \/ TrackerBuffer(h) \/ Drop(h)
      PROVE  IInv'
    BY <1>1, <1>5, EvalExprKeeps, MoveKeeps, EnterKeeps, ReturnKeeps, GetValueKeeps,
       GetBufferKeeps, TrackerBufferKeeps, DropKeeps
<1>6. ASSUME NEW h \in Handle, NEW g \in Handle,
             Track(h, g) \/ Copy(h, g) \/ GetAttr(h, g) \/ Slice(h, g) \/ Ancestor(h, g)
      PROVE  IInv'
    BY <1>1, <1>6, TrackKeeps, CopyKeeps, GetAttrKeeps, SliceKeeps, AncestorKeeps
<1>7. CASE UNCHANGED vars
    BY <1>7, StutterKeeps
<1>8. QED
    BY <1>2, <1>3, <1>4, <1>5, <1>6, <1>7, Zenon DEF Next

(* The counts, the tree of the boxes and what is watched stay as they are  *)
(* stated, through every call that a client makes in those two ways.       *)
THEOREM ReferencesAreGood ==
    ASSUME Counted
    PROVE  Spec => []IInv
<1>1. Init => IInv
    BY InitIsGood
<1>2. IInv /\ [Next]_vars => IInv'
    BY NextKeeps
<1>3. QED
    BY <1>1, <1>2, PTL DEF Spec

LEMMA GoodNow ==
    ASSUME IInv
    PROVE  /\ Good(Now, Held0, Sourced0, OnBoard, Watched0)
           /\ Structure(boxes) /\ BoxCounts(boxes, Held0) /\ SourceCounts(boxes, src, Sourced0)
           /\ boxes \in [Box -> BoxRecord] /\ src \in [Source -> SourceRecord]
<1>1. Good(Now, Held0, Sourced0, OnBoard, Watched0) /\ Now.boxes = boxes /\ Now.src = src
    BY BeforeCall
<1>2. QED
    BY <1>1, GoodType DEF Good

(* Every box and every data source is counted as often as something refers *)
(* to it, and a box that nothing refers to is free (box_delete(), browse.c *)
(* 1328; bitpunch_data_source_release()).                                  *)
THEOREM AllCountsAreRight ==
    ASSUME Counted
    PROVE  Spec => []CountsAreRight
<1>1. IInv => CountsAreRight
    <2> SUFFICES ASSUME IInv PROVE CountsAreRight
        OBVIOUS
    <2>1. Structure(boxes) /\ BoxCounts(boxes, Held0) /\ SourceCounts(boxes, src, Sourced0)
        BY GoodNow
    <2>2. ASSUME NEW b \in Box
          PROVE  boxes[b].use = UsesOfBox(b) /\ (boxes[b].use = 0 <=> boxes[b] = NoBox)
        <3>1. Held0[b] = Held(handles, b)
            BY HeldType DEF Held0
        <3>2. boxes[b].use = Held(handles, b) + Inside(boxes, b)
              /\ (boxes[b].use = 0 <=> boxes[b].kind = "free")
            BY <2>1, <3>1 DEF BoxCounts
        <3>3. UsesOfBox(b) = Held(handles, b) + Inside(boxes, b)
            <4>1. /\ Cardinality(InBox(handles, b)) \in Nat
                  /\ Cardinality(InValue(handles, b)) \in Nat
                  /\ Cardinality(Filtering(handles, b)) \in Nat
                BY HeldIsFinite
            <4>2. /\ Cardinality(Children(boxes, b)) \in Nat
                  /\ Cardinality(Scoped(boxes, b)) \in Nat
                BY InsideType
            <4>3. UsesOfBox(b) = Cardinality(InBox(handles, b)) + Cardinality(InValue(handles, b))
                                 + Cardinality(Filtering(handles, b))
                                 + Cardinality(Children(boxes, b)) + Cardinality(Scoped(boxes, b))
                BY Zenon DEF UsesOfBox, InBox, InValue, Filtering, Children, Scoped
            <4>4. QED
                BY <4>1, <4>2, <4>3 DEF Held, Inside
        <3>4. boxes[b].kind = "free" <=> boxes[b] = NoBox
            BY <2>1 DEF Structure, Placed
        <3>5. QED
            BY <3>2, <3>3, <3>4
    <2>3. ASSUME NEW s \in Source PROVE src[s].use = UsesOfSource(s)
        <3>1. Sourced0[s] = InBoard(s) + Cardinality(InSource(handles, s))
              /\ InBoard(s) \in Nat /\ Cardinality(InSource(handles, s)) \in Nat
            BY BeforeCall, HeldSourcesType, HeldIsFinite DEF Sourced0, ClientIs
        <3>2. src[s].use = Sourced0[s] + Cardinality(Owners(boxes, s))
              /\ Cardinality(Owners(boxes, s)) \in Nat
            BY <2>1, InsideType DEF SourceCounts
        <3>3. UsesOfSource(s) = InBoard(s) + Cardinality(Owners(boxes, s))
                                + Cardinality(InSource(handles, s))
            BY Zenon DEF UsesOfSource, InBoard, Owners, InSource
        <3>4. QED
            BY <3>1, <3>2, <3>3
    <2>4. QED
        BY <2>2, <2>3 DEF CountsAreRight
<1>2. QED
    BY <1>1, ReferencesAreGood, PTL

(* The bytes of a value that was kept, and of a view, stay as they were    *)
(* read, as long as the client asks for no view of what has one, changes   *)
(* no file it has read of, and moves no tracker it has a view of           *)
(* (modelmodule.c:2598).                                                   *)
THEOREM HeldBytesStay ==
    ASSUME Counted, SafeClient
    PROVE  Spec => []BytesAreThere
<1>1. IInv => BytesAreThere
    <2> SUFFICES ASSUME IInv PROVE BytesAreThere
        OBVIOUS
    <2>1. ASSUME NEW w \in Watched0
          PROVE  src[w.ds].kind # "free" /\ src[w.ds].data = w.data
        <3>1. Good(Now, Held0, Sourced0, OnBoard, Watched0) /\ Now.boxes = boxes /\ Now.src = src
              /\ Sourced0 \in [Source -> Nat]
            BY BeforeCall
        <3>2. Watched(Now, Held0, Sourced0, w)
            BY <3>1 DEF Good
        <3>3. w.ds \in Source /\ Uses(boxes, Sourced0)[w.ds] # 0
            BY <3>1, <3>2, WatchedIsUsed DEF Watched
        <3>4. UsedAs(src, Uses(boxes, Sourced0))
            BY <3>1, GoodNow, SourcesAreUsed
        <3>5. src[w.ds].kind # "free"
            BY <3>3, <3>4 DEF UsedAs, NoSource
        <3>6. QED
            BY <3>1, <3>2, <3>5 DEF Watched
    <2>2. ASSUME NEW v \in views PROVE src[v.ds].kind # "free" /\ src[v.ds].data = v.data
        <3> DEFINE w == WatchOfView(handles, v)
        <3>1. w \in Watched0
            BY WatchedIs DEF Watched0
        <3>2. w.ds = v.ds /\ w.data = v.data
            BY DEF WatchOfView
        <3> HIDE DEF w
        <3>3. QED
            BY <2>1, <3>1, <3>2
    <2>3. ASSUME NEW h \in Handle, handles[h].value # NoValue
          PROVE  LET v  == handles[h].value
                     ds == IF v.box # None THEN boxes[v.box].ds ELSE v.ds
                 IN  src[ds].kind # "free" /\ src[ds].data = v.data
        <3> DEFINE w == WatchOfValue(boxes, handles[h])
                   v  == handles[h].value
                   ds == IF v.box # None THEN boxes[v.box].ds ELSE v.ds
        <3>1. w \in Watched0
            BY <2>3, WatchedIs DEF Watched0
        <3>2. w.ds = ds /\ w.data = v.data
            BY DEF WatchOfValue
        <3> HIDE DEF w, ds
        <3>3. src[ds].kind # "free" /\ src[ds].data = v.data
            BY <2>1, <3>1, <3>2
        <3>4. QED
            BY <3>3 DEF ds
    <2>4. QED
        BY <2>2, <2>3 DEF BytesAreThere
<1>2. QED
    BY <1>1, ReferencesAreGood, PTL

(* A client that drops all it has leaves no box behind (browse.c:1328).    *)
THEOREM NothingStays ==
    ASSUME Counted
    PROVE  Spec => []NothingIsLeft
<1>1. IInv => NothingIsLeft
    <2> SUFFICES ASSUME IInv, \A h \in Handle : Unused(h), NEW c \in Box, boxes[c] # NoBox
                 PROVE  FALSE
        BY DEF NothingIsLeft
    <2>1. Structure(boxes) /\ BoxCounts(boxes, Held0) /\ boxes \in [Box -> BoxRecord]
        BY GoodNow
    <2>2. \A b \in Box : Held0[b] = 0
        <3> TAKE b \in Box
        <3>1. \A h \in Handle : handles[h] = NoHandle
            BY BeforeCall DEF ClientIs, IsHandle, Unused
        <3>2. InBox(handles, b) = {} /\ InValue(handles, b) = {} /\ Filtering(handles, b) = {}
            BY <3>1, BoxFinite DEF InBox, InValue, Filtering, NoHandle, NoValue
        <3>3. Held(handles, b) = 0
            BY <3>2, FS_EmptySet DEF Held
        <3>4. QED
            BY <3>3, HeldType DEF Held0
    <2> DEFINE S == {MaxDepth - boxes[b].depth : b \in Taken(boxes)}
    <2>3. \A b \in Box : boxes[b].depth \in 0 .. MaxDepth
        BY <2>1 DEF BoxRecord
    <2>4. S \in SUBSET Nat
        BY <2>3, ReferenceAssumption DEF Taken
    <2>5. c \in Taken(boxes)
        BY <2>1 DEF Taken, Structure, Placed
    <2>6. PICK l \in S : \A m \in S : l <= m
        <3>1. S # {}
            BY <2>5
        <3> HIDE DEF S
        <3>2. QED
            BY <2>4, <3>1, LeastNat
    <2>7. PICK x \in Taken(boxes) : l = MaxDepth - boxes[x].depth
        OBVIOUS
    <2>8. x \in Box /\ boxes[x].kind # "free"
        BY DEF Taken
    <2>9. \A y \in Box : boxes[y].kind # "free" => boxes[y].depth <= boxes[x].depth
        <3> TAKE y \in Box
        <3>1. boxes[y].kind # "free" => MaxDepth - boxes[x].depth <= MaxDepth - boxes[y].depth
            BY <2>6, <2>7 DEF Taken
        <3>2. QED
            BY <2>3, <2>8, <3>1, ReferenceAssumption
    <2>10. x # None
        BY <2>8, BoxFinite
    <2>11. \A y \in Box : boxes[y].parent # x /\ boxes[y].scope # x
        <3> TAKE y \in Box
        <3>1. Placed(boxes, y)
            BY <2>1 DEF Structure
        <3>2. boxes[y].kind = "free" => boxes[y].parent = None /\ boxes[y].scope = None
            BY <3>1 DEF Placed, NoBox
        <3>3. boxes[y].depth \in Nat /\ boxes[x].depth \in Nat
            BY <2>3, <2>8, ReferenceAssumption
        <3>4. QED
            BY <2>9, <2>10, <3>1, <3>2, <3>3 DEF Placed
    <2>12. Inside(boxes, x) = 0
        <3>1. Children(boxes, x) = {} /\ Scoped(boxes, x) = {}
            BY <2>11 DEF Children, Scoped
        <3>2. QED
            BY <3>1, InsideNone
    <2>13. boxes[x].use = 0
        BY <2>1, <2>2, <2>8, <2>12 DEF BoxCounts
    <2>14. QED
        BY <2>1, <2>8, <2>13 DEF BoxCounts
<1>2. QED
    BY <1>1, ReferencesAreGood, PTL
=============================================================================
