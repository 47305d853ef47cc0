-------------------------- MODULE BloomBookProofs --------------------------
(***************************************************************************)
(* The book of bloom filters gives no false negative, for every set of     *)
(* words and hash function, every size of its pages and every number of    *)
(* marks, while words and marks are added between two candidates.          *)
(***************************************************************************)
EXTENDS BloomBook, BloomFiltersProofs

(* A book is as long as its marks, and has the pages they take up.         *)
BookTypeOK ==
    /\ book.marks \in Seq([Short -> SUBSET Bit])
    /\ book.pages \in Seq([Long -> SUBSET Bit])
    /\ book = [marks |-> book.marks, pages |-> book.pages]
    /\ under \in Seq(SUBSET Word)
    /\ looked \in Word
    /\ cookie \in Cookie
    /\ Len(book.marks) = Len(under)
    /\ Len(book.pages) = PagesOf(Len(under))

(* The filters of a mark and of its page have the words under the mark.    *)
HasWords ==
    \A m \in 0 .. (Len(under) - 1) :
        \A w \in under[m + 1] : /\ MarkMayHave(book, m, w)
                                /\ PageMayHave(book, PageOf(m), w)

(* The lookup goes on right after the marks it has passed.                 *)
GoesOn ==
    cookie # Finished => passed = 0 .. (StartMark(cookie) - 1)

BookInv == BookTypeOK /\ HasWords /\ GoesOn

-----------------------------------------------------------------------------
(* The words of the marks are kept when the book grows.                    *)
LEMMA MarkStep == BookInv /\ Mark => BookInv'
<1> SUFFICES ASSUME BookInv, Mark PROVE BookInv'
    OBVIOUS
<1> DEFINE L == Len(under)
           M == book.marks
           G == book.pages
           FM == [Short -> SUBSET Bit]
           FP == [Long -> SUBSET Bit]
<1>1. /\ M \in Seq(FM) /\ G \in Seq(FP) /\ under \in Seq(SUBSET Word)
      /\ L \in Nat /\ Len(M) = L /\ Len(G) = PagesOf(L) /\ PagesOf(L) \in Nat
    BY LenProperties DEF BookInv, BookTypeOK
<1>2. /\ book'.marks = Append(M, Blank(Short))
      /\ book'.pages = (IF L % PageMarks = 0 THEN Append(G, Blank(Long)) ELSE G)
      /\ book' = [marks |-> book'.marks, pages |-> book'.pages]
      /\ under' = Append(under, {})
      /\ UNCHANGED <<looked, cookie, passed>>
    BY <1>1 DEF Mark, AddMark
<1>3. Blank(Short) \in FM /\ Blank(Long) \in FP
    BY DEF Blank
<1> HIDE DEF FM, FP
<1>4. /\ book'.marks \in Seq(FM) /\ Len(book'.marks) = L + 1
      /\ \A i \in 1 .. L : book'.marks[i] = M[i]
    BY <1>1, <1>2, <1>3, AppendProperties
<1>5. /\ book'.pages \in Seq(FP)
      /\ Len(book'.pages) = Len(G) + (IF L % PageMarks = 0 THEN 1 ELSE 0)
      /\ \A i \in 1 .. Len(G) : book'.pages[i] = G[i]
    BY <1>1, <1>2, <1>3, AppendProperties
<1>6. /\ under' \in Seq(SUBSET Word) /\ Len(under') = L + 1
      /\ \A i \in 1 .. L : under'[i] = under[i]
      /\ under'[L + 1] = {}
    BY <1>1, <1>2, AppendProperties
<1>7. Len(book'.pages) = PagesOf(L + 1)
    BY <1>1, <1>5, PagesGrow
<1>8. BookTypeOK'
    BY <1>2, <1>4, <1>5, <1>6, <1>7 DEF BookTypeOK, BookInv, FM, FP
<1>9. HasWords'
    <2> SUFFICES ASSUME NEW m \in 0 .. (Len(under') - 1), NEW w \in under'[m + 1]
                 PROVE  MarkMayHave(book', m, w) /\ PageMayHave(book', PageOf(m), w)
        BY DEF HasWords
    <2>1. m \in Nat /\ m < L /\ m + 1 \in 1 .. L /\ w \in under[m + 1]
        BY <1>1, <1>6
    <2>2. MarkMayHave(book, m, w) /\ PageMayHave(book, PageOf(m), w)
        BY <1>1, <2>1 DEF BookInv, HasWords
    <2>3. PageOf(m) \in Nat /\ PageOf(m) + 1 \in 1 .. Len(G)
        BY <1>1, <2>1, MarkHasPage
    <2>4. book'.marks[m + 1] = M[m + 1] /\ book'.pages[PageOf(m) + 1] = G[PageOf(m) + 1]
        BY <1>4, <1>5, <2>1, <2>3
    <2>5. QED
        BY <2>2, <2>4 DEF MarkMayHave, PageMayHave
<1>10. GoesOn'
    BY <1>2 DEF BookInv, GoesOn
<1>11. QED
    BY <1>8, <1>9, <1>10 DEF BookInv

(* A word is put in the filter of the last mark and in the one of its page.*)
LEMMA InsertStep ==
    ASSUME BookInv, NEW v \in Word, Insert(v)
    PROVE  BookInv'
<1> DEFINE L == Len(under)
           M == book.marks
           G == book.pages
           P == Len(G)
           FM == [Short -> SUBSET Bit]
           FP == [Long -> SUBSET Bit]
<1>1. /\ M \in Seq(FM) /\ G \in Seq(FP) /\ under \in Seq(SUBSET Word)
      /\ L \in Nat /\ Len(M) = L /\ P = PagesOf(L) /\ P \in Nat
    BY LenProperties DEF BookInv, BookTypeOK
<1>2. L # 0 /\ L \in 1 .. L /\ P = PageOf(L - 1) + 1 /\ P \in 1 .. P
    <2>1. L # 0
        BY <1>1, EmptySeq DEF Insert
    <2>2. L - 1 \in Nat /\ L \in 1 .. L
        BY <1>1, <2>1
    <2>3. P = PageOf(L - 1) + 1 /\ PageOf(L - 1) \in Nat
        BY <1>1, <2>1, <2>2, PageBounds DEF PagesOf
    <2>4. QED
        BY <2>1, <2>2, <2>3
<1>3. /\ Hash[v].short \in Short /\ Hash[v].long \in Long
      /\ Hash[v].bits \in SUBSET Bit
    BY BloomAssumption
<1> DEFINE fm == [M[L] EXCEPT ![Hash[v].short] = @ \cup Hash[v].bits]
           fp == [G[P] EXCEPT ![Hash[v].long] = @ \cup Hash[v].bits]
<1>4. /\ book' = [marks |-> [M EXCEPT ![L] = fm], pages |-> [G EXCEPT ![P] = fp]]
      /\ under' = [under EXCEPT ![L] = @ \cup {v}]
      /\ UNCHANGED <<looked, cookie, passed>>
    <2>1. book = [marks |-> M, pages |-> G]
        BY DEF BookInv, BookTypeOK
    <2>2. book' = [book EXCEPT !.marks[L][Hash[v].short] = @ \cup Hash[v].bits,
                               !.pages[P][Hash[v].long] = @ \cup Hash[v].bits]
        BY <1>1 DEF Insert, InsertWord
    <2> HIDE DEF M, G, P, L
    <2>3. QED
        BY <2>1, <2>2 DEF Insert, L
<1>5. /\ M[L] \in FM /\ G[P] \in FP
      /\ fm \in FM /\ fp \in FP
      /\ \A s \in Short : M[L][s] \subseteq fm[s]
      /\ \A l \in Long : G[P][l] \subseteq fp[l]
      /\ Hash[v].bits \subseteq fm[Hash[v].short]
      /\ Hash[v].bits \subseteq fp[Hash[v].long]
    BY <1>1, <1>2, <1>3
<1> HIDE DEF FM, FP, fm, fp
<1>6. /\ book'.marks \in Seq(FM) /\ Len(book'.marks) = L /\ book'.marks[L] = fm
      /\ \A i \in 1 .. L : i # L => book'.marks[i] = M[i]
    BY <1>1, <1>2, <1>4, <1>5, ExceptSeq
<1>7. /\ book'.pages \in Seq(FP) /\ Len(book'.pages) = P /\ book'.pages[P] = fp
      /\ \A i \in 1 .. P : i # P => book'.pages[i] = G[i]
    BY <1>1, <1>2, <1>4, <1>5, ExceptSeq
<1>8. /\ under' \in Seq(SUBSET Word) /\ Len(under') = L
      /\ under'[L] = under[L] \cup {v}
      /\ \A i \in 1 .. L : i # L => under'[i] = under[i]
    BY <1>1, <1>2, <1>4, ExceptSeq
<1>9. BookTypeOK'
    BY <1>1, <1>4, <1>6, <1>7, <1>8 DEF BookTypeOK, BookInv, FM, FP
<1>10. HasWords'
    <2> SUFFICES ASSUME NEW m \in 0 .. (Len(under') - 1), NEW w \in under'[m + 1]
                 PROVE  MarkMayHave(book', m, w) /\ PageMayHave(book', PageOf(m), w)
        BY DEF HasWords
    <2>1. /\ m \in Nat /\ m \in 0 .. (L - 1) /\ m + 1 \in 1 .. L
          /\ PageOf(m) \in Nat /\ PageOf(m) + 1 \in 1 .. P
        BY <1>1, <1>8, MarkHasPage
    <2>2. CASE w \in under[m + 1]
        <3>1. /\ MarkMayHave(book, m, w) /\ PageMayHave(book, PageOf(m), w) /\ w \in Word
            BY <1>1, <2>1, <2>2 DEF BookInv, HasWords
        <3>2. Hash[w].short \in Short /\ Hash[w].long \in Long
            BY <3>1, BloomAssumption
        <3>3. M[m + 1][Hash[w].short] \subseteq book'.marks[m + 1][Hash[w].short]
            BY <1>5, <1>6, <2>1, <3>2
        <3>4. G[PageOf(m) + 1][Hash[w].long] \subseteq book'.pages[PageOf(m) + 1][Hash[w].long]
            BY <1>5, <1>7, <2>1, <3>2
        <3>5. QED
            BY <3>1, <3>3, <3>4 DEF MarkMayHave, PageMayHave
    <2>3. CASE w \notin under[m + 1]
        <3>1. m + 1 = L /\ w = v
            BY <1>8, <2>1, <2>3
        <3>2. PageOf(m) + 1 = P
            BY <1>2, <2>1, <3>1
        <3>3. QED
            BY <1>5, <1>6, <1>7, <3>1, <3>2 DEF MarkMayHave, PageMayHave
    <2>4. QED
        BY <2>2, <2>3
<1>11. GoesOn'
    BY <1>4 DEF BookInv, GoesOn
<1>12. QED
    BY <1>9, <1>10, <1>11 DEF BookInv

(* A lookup passes the marks before the one it starts from.                *)
LEMMA LookupStep ==
    ASSUME BookInv, NEW w \in Word, NEW from \in -1 .. Len(under), Lookup(w, from)
    PROVE  BookInv'
<1>1. Len(book.pages) \in Nat /\ from \in Nat \cup {-1}
    BY LenProperties DEF BookInv, BookTypeOK
<1>2. /\ cookie' = LookupFrom(book, from) /\ passed' = 0 .. (from - 1)
      /\ UNCHANGED <<book, under>> /\ looked' = w
    BY DEF Lookup
<1>3. cookie' \in Cookie
    BY <1>1, <1>2, LookupStarts
<1>4. GoesOn'
    BY <1>1, <1>2, LookupStarts DEF GoesOn
<1>5. QED
    BY <1>2, <1>3, <1>4
       DEF BookInv, BookTypeOK, HasWords, MarkMayHave, PageMayHave

(* From one candidate to the next, the marks in between are passed.        *)
LEMMA CandidateStep ==
    ASSUME BookInv, Candidate
    PROVE  BookInv'
<1>1. /\ cookie \in Cookie /\ cookie # Finished
      /\ Len(book.marks) \in Nat /\ Len(book.pages) \in Nat
    BY LenProperties DEF BookInv, BookTypeOK, Candidate
<1>2. /\ cookie' = NextCandidate(book, looked, cookie)
      /\ passed' = (IF CookieMark(cookie') = NoMark THEN 0 .. LastMark(book)
                    ELSE 0 .. CookieMark(cookie'))
      /\ UNCHANGED <<book, under, looked>>
    BY DEF Candidate
<1>3. /\ cookie' \in Cookie
      /\ cookie' # Finished => /\ CookieMark(cookie') \in Nat
                               /\ StartMark(cookie') = CookieMark(cookie') + 1
    BY <1>1, <1>2, NextIsLeast
<1>4. GoesOn'
    <2> SUFFICES ASSUME cookie' # Finished
                 PROVE  passed' = 0 .. (StartMark(cookie') - 1)
        BY DEF GoesOn
    <2>1. passed' = 0 .. CookieMark(cookie')
        BY <1>2, <1>3 DEF NoMark
    <2>2. StartMark(cookie') - 1 = CookieMark(cookie')
        BY <1>3
    <2>3. QED
        BY <2>1, <2>2
<1>5. QED
    BY <1>2, <1>3, <1>4
       DEF BookInv, BookTypeOK, HasWords, MarkMayHave, PageMayHave

(* An empty book, and no lookup.                                           *)
LEMMA InitBook == Init => BookInv
<1> SUFFICES ASSUME Init PROVE BookInv
    OBVIOUS
<1>1. /\ book = [marks |-> <<>>, pages |-> <<>>] /\ under = <<>>
      /\ looked \in Word /\ cookie = Finished
    BY DEF Init, EmptyBook
<1>2. Finished \in Cookie
    BY BloomAssumption DEF Finished, Cookie, NoPage, NoMore
<1>3. BookTypeOK
    BY <1>1, <1>2 DEF BookTypeOK, PagesOf
<1>4. QED
    BY <1>1, <1>3 DEF BookInv, HasWords, GoesOn

(* Every step keeps what the filters and the lookup rest on.               *)
LEMMA BookInvariant == Spec => []BookInv
<1>1. BookInv /\ UNCHANGED bookVars => BookInv'
    BY DEF bookVars, BookInv, BookTypeOK, HasWords, GoesOn, MarkMayHave, PageMayHave
<1>2. BookInv /\ [Next]_bookVars => BookInv'
    BY <1>1, MarkStep, InsertStep, LookupStep, CandidateStep DEF Next
<1>3. QED
    BY <1>2, InitBook, PTL DEF Spec

(* bloom_book_lookup_word_get_next_candidate() gives no false negative:    *)
(* whatever was added to the book since the lookup began, between two      *)
(* candidates no mark is passed over under which the word is, whichever    *)
(* filters, of a page or of a mark, the search skips.                      *)
THEOREM NothingPassedOverAlways == Spec => NothingPassedOver
<1>1. ASSUME BookInv, Candidate,
             NEW m \in passed' \ passed, m < Len(under), looked \in under[m + 1]
      PROVE  m = CookieMark(cookie')
    <2> DEFINE C == Candidates(book, looked, cookie)
    <2>1. /\ cookie \in Cookie /\ cookie # Finished
          /\ Len(under) \in Nat /\ Len(book.marks) = Len(under)
          /\ Len(book.pages) = PagesOf(Len(under)) /\ Len(book.pages) \in Nat
        BY <1>1, LenProperties DEF BookInv, BookTypeOK, Candidate
    <2>2. /\ cookie' = NextCandidate(book, looked, cookie)
          /\ passed' = (IF CookieMark(cookie') = NoMark THEN 0 .. LastMark(book)
                        ELSE 0 .. CookieMark(cookie'))
        BY <1>1 DEF Candidate
    <2>3. C # {} => CookieMark(cookie') = Least(C) /\ Least(C) \in Nat
        BY <2>1, <2>2, NextIsLeast
    <2>4. m \in Nat
        <3>1. C = {} => CookieMark(cookie') = NoMark
            BY <2>1, <2>2, NextIsLeast DEF CookieMark, Finished
        <3>2. CASE C = {}
            BY <1>1, <2>1, <2>2, <3>1, <3>2 DEF LastMark
        <3>3. CASE C # {}
            BY <1>1, <2>2, <2>3, <3>3 DEF NoMark
        <3>4. QED
            BY <3>2, <3>3
    <2>5. StartMark(cookie) \in Nat /\ StartMark(cookie) <= m
        BY <1>1, <2>1, <2>4, CookieStart DEF BookInv, GoesOn
    <2>6. MarkMayHave(book, m, looked) /\ PageMayHave(book, PageOf(m), looked)
        BY <1>1, <2>1, <2>4 DEF BookInv, HasWords
    <2>7. m \in C
        BY <1>1, <2>1, <2>4, <2>5, <2>6, IsCandidate
    <2>8. CookieMark(cookie') = Least(C) /\ Least(C) \in Nat /\ Least(C) <= m
        BY <2>1, <2>3, <2>7, CandidatesAreMarks, LeastMark
    <2>9. m \in 0 .. CookieMark(cookie')
        BY <1>1, <2>2, <2>8 DEF NoMark
    <2>10. QED
        BY <2>4, <2>8, <2>9
<1>2. BookInv => [Candidate =>
                    \A m \in passed' \ passed :
                       m < Len(under) /\ looked \in under[m + 1]
                         => m = CookieMark(cookie')]_bookVars
    BY <1>1
<1>3. QED
    BY <1>2, BookInvariant, PTL DEF NothingPassedOver
=============================================================================
