------------------------- MODULE BloomFiltersProofs -------------------------
(***************************************************************************)
(* Facts about the books of bloom filters of utils/bloom.c: where the      *)
(* pages of a book begin, and what a search goes through.                  *)
(***************************************************************************)
EXTENDS BloomFilters, TLAPS, SequenceTheorems, WellFoundedInduction

(* A book has as many pages as its marks take up.                          *)
PagesOf(n) == IF n = 0 THEN 0 ELSE PageOf(n - 1) + 1

(* Marks and pages.                                                        *)
LEMMA PageBounds ==
    ASSUME NEW m \in Nat
    PROVE  /\ PageOf(m) \in Nat /\ (m % PageMarks) \in 0 .. (PageMarks - 1)
           /\ PageOf(m) * PageMarks + (m % PageMarks) = m
           /\ PageOf(m) * PageMarks <= m
           /\ m < (PageOf(m) + 1) * PageMarks
<1>1. (m % PageMarks) = m - PageMarks * PageOf(m)
    BY BloomAssumption DEF PageOf
<1>2. PageOf(m) \in Nat /\ (m % PageMarks) \in 0 .. (PageMarks - 1)
    BY BloomAssumption DEF PageOf
<1>3. QED
    BY <1>1, <1>2, BloomAssumption

\* Later marks are on the same page or on later ones.
LEMMA PageGrows ==
    ASSUME NEW m \in Nat, NEW n \in Nat, m <= n
    PROVE  PageOf(m) <= PageOf(n)
BY BloomAssumption DEF PageOf

(* One more mark makes one more page when the pages are full.              *)
LEMMA PagesGrow ==
    ASSUME NEW n \in Nat
    PROVE  /\ PagesOf(n) \in Nat
           /\ PagesOf(n + 1) = PagesOf(n) + (IF n % PageMarks = 0 THEN 1 ELSE 0)
           /\ n # 0 => PageOf(n - 1) = PagesOf(n) - 1 /\ n - 1 \in Nat
<1>1. PagesOf(n + 1) = PageOf(n) + 1
    BY DEF PagesOf
<1>2. CASE n = 0
    BY <1>1, <1>2, BloomAssumption DEF PagesOf, PageOf
<1>3. CASE n # 0
    <2> DEFINE k == PageMarks
               a == PageOf(n)
               b == PageOf(n - 1)
               r == n % k
    <2>1. k \in Nat \ {0} /\ n - 1 \in Nat /\ n - 1 < n
        BY <1>3, BloomAssumption
    <2>2. a \in Nat /\ r \in 0 .. (k - 1) /\ a * k + r = n
        BY PageBounds
    <2>3. b \in Nat /\ b * k <= n - 1 /\ n - 1 < (b + 1) * k
        BY <2>1, PageBounds
    <2>4. b <= a
        BY <2>1, PageGrows
    <2>5. PagesOf(n) = b + 1 /\ PagesOf(n + 1) = a + 1
        BY <1>1, <1>3 DEF PagesOf
    <2> HIDE DEF k, a, b, r
    <2>6. r = 0 => a = b + 1
        <3> SUFFICES ASSUME r = 0 PROVE a = b + 1
            OBVIOUS
        <3>1. a # b
            BY <2>1, <2>2, <2>3
        <3>2. ~(b + 2 <= a)
            <4> SUFFICES ASSUME b + 2 <= a PROVE FALSE
                OBVIOUS
            <4>1. (b + 2) * k <= a * k
                BY <2>1, <2>2, <2>3
            <4>2. (b + 2) * k = (b + 1) * k + k
                BY <2>1, <2>3
            <4>3. QED
                BY <2>1, <2>2, <2>3, <4>1, <4>2
        <3>3. QED
            BY <2>2, <2>3, <2>4, <3>1, <3>2
    <2>7. r # 0 => a = b
        <3> SUFFICES ASSUME r # 0 PROVE a = b
            OBVIOUS
        <3>1. ~(b + 1 <= a)
            <4> SUFFICES ASSUME b + 1 <= a PROVE FALSE
                OBVIOUS
            <4>1. (b + 1) * k <= a * k
                BY <2>1, <2>2, <2>3
            <4>2. a * k \in Nat /\ (b + 1) * k \in Nat
                BY <2>1, <2>2, <2>3
            <4>3. QED
                BY <2>1, <2>2, <2>3, <4>1, <4>2
        <3>2. QED
            BY <2>2, <2>3, <2>4, <3>1
    <2>8. QED
        BY <1>3, <2>1, <2>3, <2>5, <2>6, <2>7 DEF b, r, k
<1>4. QED
    BY <1>2, <1>3

(* Every mark is on a page.                                                *)
LEMMA MarkHasPage ==
    ASSUME NEW n \in Nat, NEW m \in Nat, m < n
    PROVE  PageOf(m) \in Nat /\ PageOf(m) < PagesOf(n)
<1>1. n # 0 /\ n - 1 \in Nat /\ m <= n - 1
    OBVIOUS
<1>2. PageOf(m) \in Nat /\ PageOf(n - 1) \in Nat /\ PageOf(m) <= PageOf(n - 1)
    BY <1>1, PageBounds, PageGrows
<1>3. QED
    BY <1>1, <1>2 DEF PagesOf

(* A non-empty set of marks has a least one.                               *)
LEMMA LeastMark ==
    ASSUME NEW S \in SUBSET Nat, S # {}
    PROVE  /\ Least(S) \in S
           /\ \A m \in S : Least(S) <= m
<1> DEFINE R == OpToRel(<, Nat)
<1>1. IsWellFoundedOn(R, Nat)
    BY NatLessThanWellFounded, Zenon
<1>2. \A x, y \in Nat : x < y => <<x, y>> \in R
    BY Zenon DEF OpToRel
<1> HIDE DEF R
<1>3. PICK l \in S : \A m \in S : ~(<<m, l>> \in R)
    BY <1>1, WFMin, Zenon
<1>4. \A m \in S : ~(m < l)
    BY <1>2, <1>3, Zenon
<1>5. \A m \in S : l <= m
    BY <1>4
<1>6. QED
    BY <1>5 DEF Least

(* The place where a search goes on is a mark.                             *)
LEMMA CookieStart ==
    ASSUME NEW c \in Cookie
    PROVE  StartMark(c) \in Nat
BY BloomAssumption DEF Cookie, StartMark, CookieMark, NoPage, NoMore, NoMark

-----------------------------------------------------------------------------
(* A lookup that starts at a mark.                                         *)
LEMMA LookupStarts ==
    ASSUME NEW b, Len(b.pages) \in Nat, NEW from \in Nat \cup {-1}
    PROVE  /\ LookupFrom(b, from) \in Cookie
           /\ LookupFrom(b, from) # Finished =>
                0 .. (StartMark(LookupFrom(b, from)) - 1) = 0 .. (from - 1)
<1>1. CASE from \in {-1, 0}
    <2>1. LookupFrom(b, from) = Unset
        BY <1>1 DEF LookupFrom, NoMark
    <2>2. Unset \in Cookie /\ StartMark(Unset) = 0
        BY BloomAssumption DEF Unset, Cookie, NoPage, StartMark
    <2>3. QED
        BY <1>1, <2>1, <2>2
<1>2. CASE from \notin {-1, 0}
    <2>1. from - 1 \in Nat
        BY <1>2
    <2>2. CASE PageOf(from - 1) > LastPage(b)
        BY <1>2, <2>2, BloomAssumption
           DEF LookupFrom, NoMark, Finished, Cookie, NoPage, NoMore
    <2>3. CASE ~(PageOf(from - 1) > LastPage(b))
        <3> DEFINE l == from - 1
                   c == [page |-> PageOf(l), mark |-> l % PageMarks]
        <3>1. LookupFrom(b, from) = c /\ from = l + 1 /\ l \in Nat
            BY <1>2, <2>1, <2>3 DEF LookupFrom, NoMark
        <3> HIDE DEF l
        <3>2. /\ c \in Cookie /\ c.page # NoPage /\ c.mark # NoMore
              /\ c.page * PageMarks + c.mark = l
            BY <3>1, PageBounds, BloomAssumption DEF Cookie, NoPage, NoMore
        <3>3. StartMark(c) = from
            BY <3>1, <3>2 DEF StartMark, CookieMark
        <3>4. QED
            BY <3>1, <3>2, <3>3
    <2>4. QED
        BY <2>2, <2>3
<1>3. QED
    BY <1>1, <1>2

(* A mark that may have the word, from where the search goes on, is among  *)
(* the candidates.                                                         *)
LEMMA IsCandidate ==
    ASSUME NEW b, NEW w, NEW c \in Cookie, NEW m \in Nat,
           NEW n \in Nat, n = Len(b.marks), Len(b.pages) = PagesOf(n),
           StartMark(c) <= m, m < n,
           MarkMayHave(b, m, w), PageMayHave(b, PageOf(m), w)
    PROVE  m \in Candidates(b, w, c)
<1> DEFINE p == PageOf(m)
<1>1. StartMark(c) \in Nat
    BY CookieStart
<1>2. /\ p \in Nat /\ p < PagesOf(n) /\ PagesOf(n) \in Nat
      /\ PageOf(StartMark(c)) \in Nat /\ PageOf(StartMark(c)) <= p
    BY <1>1, MarkHasPage, PagesGrow, PageBounds, PageGrows
<1>3. /\ p * PageMarks <= m /\ m < (p + 1) * PageMarks
      /\ p * PageMarks \in Nat /\ (p + 1) * PageMarks \in Nat
    <2>1. p * PageMarks <= m /\ m < (p + 1) * PageMarks
        BY PageBounds
    <2>2. \A q \in Nat : q * PageMarks \in Nat
        BY BloomAssumption
    <2>3. QED
        BY <1>2, <2>1, <2>2
<1> HIDE DEF p
<1>4. p \in PageOf(StartMark(c)) .. LastPage(b)
    BY <1>2 DEF LastPage
<1>5. FromIn(c, p) \in Nat /\ FromIn(c, p) <= m
    BY <1>1, <1>3 DEF FromIn
<1>6. EndMark(b, p) \in Nat /\ m < EndMark(b, p)
    BY <1>3 DEF EndMark, LastMark
<1>7. m \in CandidatesIn(b, w, c, p)
    BY <1>5, <1>6 DEF CandidatesIn
<1>8. PageMayHave(b, p, w)
    BY DEF p
<1>9. QED
    BY <1>4, <1>7, <1>8 DEF Candidates

(* The candidates are marks.                                               *)
LEMMA CandidatesAreMarks ==
    ASSUME NEW b, NEW w, NEW c \in Cookie, Len(b.marks) \in Nat, Len(b.pages) \in Nat
    PROVE  Candidates(b, w, c) \in SUBSET Nat
<1>1. StartMark(c) \in Nat /\ PageOf(StartMark(c)) \in Nat
    BY CookieStart, PageBounds
<1>2. ASSUME NEW p \in PageOf(StartMark(c)) .. LastPage(b)
      PROVE  CandidatesIn(b, w, c, p) \subseteq Nat
    <2>1. p \in Nat /\ p * PageMarks \in Nat /\ (p + 1) * PageMarks \in Nat
        BY <1>1, BloomAssumption DEF LastPage
    <2>2. FromIn(c, p) \in Nat /\ EndMark(b, p) \in Nat
        BY <1>1, <2>1 DEF FromIn, EndMark, LastMark
    <2>3. QED
        BY <2>2 DEF CandidatesIn
<1>3. QED
    BY <1>2 DEF Candidates

(* A candidate is a mark of the book, or one past the mark that would come *)
(* next: it is never that one.                                             *)
LEMMA CandidateIsNotNext ==
    ASSUME NEW b, NEW w, NEW c \in Cookie, NEW n \in Nat, n = Len(b.marks),
           Len(b.pages) = PagesOf(n), NEW m \in Candidates(b, w, c)
    PROVE  m \in Nat /\ m # n
<1>1. /\ PagesOf(n) \in Nat /\ StartMark(c) \in Nat /\ PageOf(StartMark(c)) \in Nat
      /\ n # 0 => PageOf(n - 1) = PagesOf(n) - 1 /\ n - 1 \in Nat
    BY PagesGrow, CookieStart, PageBounds
<1>2. PICK p \in PageOf(StartMark(c)) .. LastPage(b) : m \in CandidatesIn(b, w, c, p)
    BY DEF Candidates
<1>3. p \in Nat /\ p <= PagesOf(n) - 1
    BY <1>1, <1>2 DEF LastPage
<1>4. p * PageMarks \in Nat /\ (p + 1) * PageMarks \in Nat /\ p * PageMarks <= (p + 1) * PageMarks
    BY <1>3, BloomAssumption
<1>5. p < LastPage(b) => (p + 1) * PageMarks < n
    <2>1. ASSUME p < LastPage(b) PROVE (p + 1) * PageMarks < n
        <3>1. n # 0 /\ p + 1 <= PageOf(n - 1) /\ n - 1 \in Nat /\ PageOf(n - 1) \in Nat
            <4>1. p + 1 < PagesOf(n)
                BY <1>1, <1>3, <2>1 DEF LastPage
            <4>2. n # 0
                BY <1>3, <4>1 DEF PagesOf
            <4>3. n - 1 \in Nat /\ PageOf(n - 1) = PagesOf(n) - 1
                BY <1>1, <4>2
            <4>4. QED
                BY <1>1, <1>3, <4>1, <4>2, <4>3
        <3>2. PageOf(n - 1) * PageMarks <= n - 1
            BY <3>1, PageBounds
        <3>3. (p + 1) * PageMarks <= PageOf(n - 1) * PageMarks
            <4> DEFINE i == p + 1
                       j == PageOf(n - 1)
                       k == PageMarks
            <4>1. i \in Nat /\ j \in Nat /\ j - i \in Nat /\ k \in Nat
                BY <1>3, <3>1, BloomAssumption
            <4> HIDE DEF i, j, k
            <4>2. /\ (j - i) * k \in Nat
                  /\ i * k \in Nat /\ j * k \in Nat
                <5>1. \A x \in Nat, y \in Nat : x * y \in Nat
                    OBVIOUS
                <5>2. QED
                    BY <4>1, <5>1
            <4>3. i * k <= j * k
                <5>1. j * k = i * k + (j - i) * k
                    BY <4>1
                <5>2. QED
                    BY <4>2, <5>1
            <4>4. QED
                BY <4>3 DEF i, j, k
        <3>4. PageOf(n - 1) * PageMarks \in Nat
            BY <3>1, BloomAssumption
        <3>5. QED
            BY <1>4, <3>1, <3>2, <3>3, <3>4
    <2>2. QED
        BY <2>1
<1>6. EndMark(b, p) \in Nat /\ EndMark(b, p) <= n /\ (p = LastPage(b) => EndMark(b, p) = n)
    BY <1>1, <1>3, <1>4, <1>5 DEF EndMark, LastMark, LastPage
<1>7. FromIn(c, p) \in Nat
    BY <1>1, <1>4 DEF FromIn
<1>8. CASE FromIn(c, p) > EndMark(b, p)
    <2>1. m = FromIn(c, p)
        BY <1>2, <1>8 DEF CandidatesIn
    <2>2. p = LastPage(b)
        <3>1. ASSUME p # LastPage(b) PROVE FALSE
            <4>1. p < LastPage(b) /\ EndMark(b, p) = (p + 1) * PageMarks
                BY <1>1, <1>3, <3>1 DEF EndMark, LastPage
            <4>2. StartMark(c) < (PageOf(StartMark(c)) + 1) * PageMarks
                BY <1>1, PageBounds
            <4>3. FromIn(c, p) <= (p + 1) * PageMarks
                BY <1>1, <1>4, <4>2, BloomAssumption DEF FromIn
            <4>4. QED
                BY <1>4, <1>7, <1>8, <4>1, <4>3
        <3>2. QED
            BY <3>1
    <2>3. QED
        BY <1>6, <1>7, <1>8, <2>1, <2>2
<1>9. CASE ~(FromIn(c, p) > EndMark(b, p))
    BY <1>2, <1>6, <1>7, <1>9 DEF CandidatesIn
<1>10. QED
    BY <1>8, <1>9

(* The next candidate is the first mark from where the search goes on.     *)
LEMMA NextIsLeast ==
    ASSUME NEW b, NEW w, NEW c \in Cookie, Len(b.marks) \in Nat, Len(b.pages) \in Nat,
           c # Finished
    PROVE  LET d == NextCandidate(b, w, c) IN
           /\ d \in Cookie
           /\ Candidates(b, w, c) = {} => d = Finished
           /\ Candidates(b, w, c) # {} =>
                /\ CookieMark(d) = Least(Candidates(b, w, c))
                /\ CookieMark(d) \in Nat
                /\ StartMark(d) = CookieMark(d) + 1
<1> DEFINE C == Candidates(b, w, c)
           d == NextCandidate(b, w, c)
<1>1. C \in SUBSET Nat
    BY CandidatesAreMarks
<1>2. CASE C = {}
    BY <1>2, BloomAssumption DEF NextCandidate, Finished, Cookie, NoPage, NoMore
<1>3. CASE C # {}
    <2> DEFINE l == Least(C)
    <2>1. l \in Nat
        BY <1>1, <1>3, LeastMark
    <2>2. d = [page |-> PageOf(l), mark |-> l % PageMarks]
        BY <1>3 DEF NextCandidate
    <2> HIDE DEF l, d
    <2>3. /\ d \in Cookie /\ d.page # NoPage /\ d.mark # NoMore
          /\ d.page * PageMarks + d.mark = l
        BY <2>1, <2>2, PageBounds, BloomAssumption DEF Cookie, NoPage, NoMore
    <2>4. CookieMark(d) = l /\ StartMark(d) = l + 1
        BY <2>1, <2>3 DEF CookieMark, StartMark
    <2>5. QED
        BY <1>3, <2>1, <2>3, <2>4 DEF l, d
<1>4. QED
    BY <1>2, <1>3

(* A page of the book ends where the next one starts, or where the book    *)
(* ends.                                                                   *)
LEMMA PageEnds ==
    ASSUME NEW b, NEW n \in Nat, n = Len(b.marks), Len(b.pages) = PagesOf(n),
           NEW p \in Nat, p <= LastPage(b)
    PROVE  /\ p * PageMarks \in Nat /\ EndMark(b, p) \in Nat
           /\ p * PageMarks < EndMark(b, p) /\ EndMark(b, p) <= n
           /\ EndMark(b, p) = IF p = LastPage(b) THEN n ELSE (p + 1) * PageMarks
<1> DEFINE l == PageOf(n - 1)
<1>1. n # 0 /\ n - 1 \in Nat /\ LastPage(b) = l /\ l \in Nat
    <2>1. PagesOf(n) # 0
        BY PagesGrow DEF LastPage
    <2>2. n # 0 /\ n - 1 \in Nat
        BY <2>1 DEF PagesOf
    <2>3. QED
        BY <2>2, PageBounds, PagesGrow DEF LastPage, PagesOf
<1>2. EndMark(b, p) = IF p = l THEN n ELSE (p + 1) * PageMarks
    BY <1>1 DEF EndMark, LastMark
<1>3. l * PageMarks <= n - 1
    BY <1>1, PageBounds
<1> HIDE DEF l
<1>4. \A q \in Nat : q * PageMarks \in Nat
    BY BloomAssumption
<1>5. p * PageMarks < (p + 1) * PageMarks
    BY BloomAssumption
<1>6. CASE p = l
    BY <1>1, <1>2, <1>3, <1>4, <1>6
<1>7. CASE p # l
    <2>1. p + 1 <= l
        BY <1>1, <1>7
    <2>2. (p + 1) * PageMarks <= l * PageMarks
        <3> DEFINE i == p + 1
                   k == PageMarks
        <3>1. i \in Nat /\ l - i \in Nat /\ k \in Nat /\ l \in Nat
            BY <1>1, <2>1, BloomAssumption
        <3> HIDE DEF i, k
        <3>2. (l - i) * k \in Nat /\ i * k \in Nat
            <4>1. \A x \in Nat, y \in Nat : x * y \in Nat
                OBVIOUS
            <4>2. QED
                BY <3>1, <4>1
        <3>3. l * k = i * k + (l - i) * k
            BY <3>1
        <3>4. i * k <= l * k
            BY <3>2, <3>3
        <3>5. QED
            BY <3>4 DEF i, k
    <2>3. p * PageMarks \in Nat /\ (p + 1) * PageMarks \in Nat /\ l * PageMarks \in Nat
        <3>1. p + 1 \in Nat /\ l \in Nat
            BY <1>1
        <3>2. QED
            BY <1>4, <3>1
    <2>4. QED
        BY <1>1, <1>2, <1>3, <1>5, <1>7, <2>2, <2>3
<1>8. QED
    BY <1>6, <1>7

(* A search that starts in the book, or at its end, stays in it.           *)
LEMMA CandidatesWithin ==
    ASSUME NEW b, NEW w, NEW c \in Cookie, NEW n \in Nat, n = Len(b.marks),
           Len(b.pages) = PagesOf(n), StartMark(c) <= n
    PROVE  Candidates(b, w, c) \subseteq StartMark(c) .. (n - 1)
<1> DEFINE s == StartMark(c)
<1>1. s \in Nat /\ PageOf(s) \in Nat /\ s < (PageOf(s) + 1) * PageMarks
    BY CookieStart, PageBounds
<1>2. ASSUME NEW p \in PageOf(s) .. LastPage(b), NEW m \in CandidatesIn(b, w, c, p)
      PROVE  m \in s .. (n - 1)
    <2>1. p \in Nat /\ p <= LastPage(b)
        BY <1>1, PagesGrow DEF LastPage
    <2>2. /\ p * PageMarks \in Nat /\ EndMark(b, p) \in Nat
          /\ p * PageMarks < EndMark(b, p) /\ EndMark(b, p) <= n
          /\ EndMark(b, p) = IF p = LastPage(b) THEN n ELSE (p + 1) * PageMarks
        BY <2>1, PageEnds
    <2>3. FromIn(c, p) = IF p = PageOf(s) THEN s ELSE p * PageMarks
        BY DEF FromIn
    <2>4. s <= FromIn(c, p) /\ FromIn(c, p) <= EndMark(b, p) /\ FromIn(c, p) \in Nat
        <3>1. CASE p = PageOf(s)
            BY <1>1, <2>1, <2>2, <2>3, <3>1
        <3>2. CASE p # PageOf(s)
            <4>1. PageOf(s) + 1 <= p
                <5>1. PageOf(s) <= p
                    BY <1>1, <1>2, PagesGrow DEF LastPage
                <5>2. QED
                    BY <1>1, <2>1, <3>2, <5>1
            <4>2. s < p * PageMarks
                <5> DEFINE i == PageOf(s) + 1
                           k == PageMarks
                <5>1. i \in Nat /\ p - i \in Nat /\ k \in Nat
                    BY <1>1, <2>1, <4>1, BloomAssumption
                <5>3. s < i * k
                    BY <1>1
                <5> HIDE DEF i, k
                <5>2. (p - i) * k \in Nat /\ i * k \in Nat
                    <6>1. \A x \in Nat, y \in Nat : x * y \in Nat
                        OBVIOUS
                    <6>2. QED
                        BY <5>1, <6>1
                <5>4. p * k = i * k + (p - i) * k
                    BY <2>1, <5>1
                <5>5. s < p * k
                    BY <1>1, <5>2, <5>3, <5>4
                <5>6. QED
                    BY <5>5 DEF k
            <4>3. QED
                BY <1>1, <2>2, <2>3, <3>2, <4>2
        <3>3. QED
            BY <3>1, <3>2
    <2> HIDE DEF s
    <2>5. m \in FromIn(c, p) .. (EndMark(b, p) - 1)
        BY <1>2, <2>2, <2>4 DEF CandidatesIn
    <2>6. QED
        BY <1>1, <2>2, <2>4, <2>5
<1>3. QED
    BY <1>2 DEF Candidates

(* A lookup from a mark of the book, or from the next one, starts there.   *)
LEMMA LookupStartsAt ==
    ASSUME NEW b, NEW n \in Nat, Len(b.pages) = PagesOf(n), NEW from \in Nat, from <= n
    PROVE  LET c == LookupFrom(b, from) IN
           c \in Cookie /\ c # Finished /\ StartMark(c) = from
<1>1. Len(b.pages) \in Nat
    BY PagesGrow
<1>2. LookupFrom(b, from) \in Cookie
    BY <1>1, LookupStarts
<1>3. LookupFrom(b, from) # Finished
    <2>1. CASE from = 0
        <3>1. LookupFrom(b, from) = Unset
            BY <2>1 DEF LookupFrom
        <3>2. Unset.mark = 0 /\ Finished.mark = NoMore
            BY Zenon DEF Unset, Finished
        <3>3. NoMore # 0
            BY DEF NoMore
        <3>4. QED
            BY <3>1, <3>2, <3>3, Zenon
    <2>2. CASE from # 0
        <3>1. from - 1 \in Nat /\ from - 1 < n
            BY <2>2
        <3>2. PageOf(from - 1) \in Nat /\ PageOf(from - 1) < PagesOf(n)
            BY <3>1, MarkHasPage
        <3>3. ~(PageOf(from - 1) > LastPage(b))
            BY <1>1, <3>2 DEF LastPage
        <3>4. from # NoMark /\ from # 0
            BY <2>2 DEF NoMark
        <3>5. LookupFrom(b, from).page = PageOf(from - 1)
            BY <3>3, <3>4, Zenon DEF LookupFrom
        <3>6. QED
            BY <3>2, <3>5 DEF Finished, NoPage
    <2>3. QED
        BY <2>1, <2>2
<1>4. StartMark(LookupFrom(b, from)) = from
    <2> DEFINE s == StartMark(LookupFrom(b, from))
    <2>1. 0 .. (s - 1) = 0 .. (from - 1) /\ s \in Nat
        BY <1>1, <1>2, <1>3, LookupStarts, CookieStart
    <2> HIDE DEF s
    <2>2. \A k \in Nat : k < s <=> k < from
        <3>1. \A k \in Nat : k < s <=> k \in 0 .. (s - 1)
            BY <2>1
        <3>2. \A k \in Nat : k < from <=> k \in 0 .. (from - 1)
            OBVIOUS
        <3>3. QED
            BY <2>1, <3>1, <3>2, Zenon
    <2>3. ~(s < from) /\ ~(from < s)
        <3>1. ~(s < s) /\ ~(from < from)
            BY <2>1
        <3>2. QED
            BY <2>1, <2>2, <3>1, Zenon
    <2>4. QED
        BY <2>1, <2>3 DEF s
<1>5. QED
    BY <1>2, <1>3, <1>4
=============================================================================
