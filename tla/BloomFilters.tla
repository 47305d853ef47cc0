---------------------------- MODULE BloomFilters ---------------------------
(***************************************************************************)
(* The book of bloom filters that says under which marks a word may be     *)
(* (utils/bloom.c).  Words are inserted under the last mark; a page holds  *)
(* the filters of PageMarks marks, at two levels: one filter per mark and  *)
(* short prefix of the hash of the word, and one for the whole page per    *)
(* long prefix.  A lookup goes from candidate to candidate with a cookie.  *)
(***************************************************************************)
EXTENDS Integers, Sequences

CONSTANTS
    Word,
    Hash,           \* the hash of each word: its prefixes and its bits
    Bit,
    Short,          \* the prefixes that choose a filter of level 0
    Long,           \* the prefixes that choose a filter of level 1
    PageMarks       \* N_MARKS_PER_PAGE

ASSUME BloomAssumption ==
    /\ Hash \in [Word -> [short : Short, long : Long, bits : SUBSET Bit]]
    /\ PageMarks \in Nat \ {0}

NoMark == -1        \* BLOOM_BOOK_MARK_NONE
NoPage == -1        \* the page of a cookie is NULL
NoMore == -1        \* PAGE_MARK_NOMORE

\* A book: the filters of each mark, and those of each page.
Books ==
    [marks : Seq([Short -> SUBSET Bit]), pages : Seq([Long -> SUBSET Bit])]
EmptyBook == [marks |-> <<>>, pages |-> <<>>]

LastMark(b) == Len(b.marks) - 1
LastPage(b) == Len(b.pages) - 1
PageOf(m)   == m \div PageMarks
Blank(S)    == [p \in S |-> {}]

-----------------------------------------------------------------------------
\* bloom_book_add_mark(): the first mark of a page makes the page.
AddMark(b) ==
    [marks |-> Append(b.marks, Blank(Short)),
     pages |-> IF Len(b.marks) % PageMarks = 0
               THEN Append(b.pages, Blank(Long)) ELSE b.pages]

\* Mutant: the filter of the page is left alone.
MutInsertWord(b, w) ==
    [b EXCEPT !.marks[Len(b.marks)][Hash[w].short] = @ \cup Hash[w].bits]
\* bloom_book_insert_word(): the bits of the word go to one filter per level.
InsertWord(b, w) ==
    [b EXCEPT !.marks[Len(b.marks)][Hash[w].short] = @ \cup Hash[w].bits,
              !.pages[Len(b.pages)][Hash[w].long] = @ \cup Hash[w].bits]

\* bloom_contains(), of a mark and of a page.
MarkMayHave(b, m, w) ==
    Hash[w].bits \subseteq b.marks[m + 1][Hash[w].short]
PageMayHave(b, p, w) ==
    Hash[w].bits \subseteq b.pages[p + 1][Hash[w].long]

-----------------------------------------------------------------------------
(***************************************************************************)
(* Lookups.  A cookie is the page and the mark in it of the last candidate.*)
(***************************************************************************)
Cookie == [page : Nat \cup {NoPage}, mark : -1 .. (PageMarks - 1)]

Unset    == [page |-> NoPage, mark |-> 0]
Finished == [page |-> NoPage, mark |-> NoMore]

CookieMark(c) ==
    IF c.page = NoPage \/ c.mark = NoMore THEN NoMark
    ELSE c.page * PageMarks + c.mark

\* bloom_book_lookup_word_from_mark(): the search is to start at mark from.
LookupFrom(b, from) ==
    IF from \in {NoMark, 0} THEN Unset
    ELSE IF PageOf(from - 1) > LastPage(b) THEN Finished
    ELSE [page |-> PageOf(from - 1), mark |-> (from - 1) % PageMarks]

\* Where the search goes on, as a mark of the whole book.
StartMark(c) == IF c.page = NoPage THEN 0 ELSE CookieMark(c) + 1

\* The end of the marks of a page: its last page may not be full.
EndMark(b, p) == IF p = LastPage(b) THEN LastMark(b) + 1 ELSE (p + 1) * PageMarks

\* Mutant: the search starts over in the page.
MutFromIn(c, p) == p * PageMarks
\* The mark the search starts from in page p.
FromIn(c, p) == IF p = PageOf(StartMark(c)) THEN StartMark(c) ELSE p * PageMarks

\* The loop over the marks of a page ends at a mark that may have the word, or
\* else at its end, which the code tests with ==: when it is to start past the
\* end it does not run, and the mark it starts at is taken for a candidate.
CandidatesIn(b, w, c, p) ==
    IF FromIn(c, p) > EndMark(b, p) THEN {FromIn(c, p)}
    ELSE {m \in FromIn(c, p) .. (EndMark(b, p) - 1) : MarkMayHave(b, m, w)}

Candidates(b, w, c) ==
    UNION {CandidatesIn(b, w, c, p) :
             p \in {q \in PageOf(StartMark(c)) .. LastPage(b) :
                      PageMayHave(b, q, w)}}

Least(S) == CHOOSE m \in S : \A n \in S : m <= n

\* bloom_book_lookup_word_get_next_candidate(): the first candidate.
NextCandidate(b, w, c) ==
    IF c = Finished \/ Candidates(b, w, c) = {} THEN Finished
    ELSE [page |-> PageOf(Least(Candidates(b, w, c))),
          mark |-> Least(Candidates(b, w, c)) % PageMarks]
=============================================================================
