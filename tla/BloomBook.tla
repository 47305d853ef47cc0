----------------------------- MODULE BloomBook -----------------------------
(***************************************************************************)
(* A book of bloom filters that is filled while a lookup is in progress.   *)
(***************************************************************************)
EXTENDS BloomFilters

CONSTANT MaxMarks       \* the marks a run adds

VARIABLES
    book,
    under,      \* the words inserted under each mark (for the properties)
    looked,     \* the word being looked up
    cookie,     \* its cookie
    passed      \* the marks the lookup started from or has given so far

bookVars == <<book, under, looked, cookie, passed>>

Init ==
    /\ book = EmptyBook
    /\ under = <<>>
    /\ looked \in Word
    /\ cookie = Finished
    /\ passed = {}

\* bloom_book_add_mark(): the pages are moved when one is added, and a cookie
\* points into them; no user adds one in the middle of a lookup (ArrayLookup).
Mark ==
    /\ Len(under) < MaxMarks
    /\ Len(under) % PageMarks = 0 => cookie.page = NoPage
    /\ book' = AddMark(book)
    /\ under' = Append(under, {})
    /\ UNCHANGED <<looked, cookie, passed>>

\* bloom_book_insert_word()
Insert(w) ==
    /\ under # <<>>
    /\ book' = InsertWord(book, w)
    /\ under' = [under EXCEPT ![Len(under)] = @ \cup {w}]
    /\ UNCHANGED <<looked, cookie, passed>>

\* bloom_book_lookup_word_from_mark()
Lookup(w, from) ==
    /\ looked' = w
    /\ cookie' = LookupFrom(book, from)
    /\ passed' = 0 .. (from - 1)
    /\ UNCHANGED <<book, under>>

\* bloom_book_lookup_word_get_next_candidate()
Candidate ==
    /\ cookie # Finished
    /\ cookie' = NextCandidate(book, looked, cookie)
    /\ passed' = IF CookieMark(cookie') = NoMark THEN 0 .. LastMark(book)
                 ELSE 0 .. CookieMark(cookie')
    /\ UNCHANGED <<book, under, looked>>

Next ==
    \/ Mark
    \/ \E w \in Word : Insert(w)
    \/ \E w \in Word, from \in -1 .. Len(under) : Lookup(w, from)
    \/ Candidate

Spec == Init /\ [][Next]_bookVars

-----------------------------------------------------------------------------
\* A lookup that was under way while words were inserted gives no false
\* negative: from one candidate to the next it passes over no mark under which
\* the word is (bloom_book_lookup_word_internal(), "word is definitely not in
\* page").
NothingPassedOver ==
    [][Candidate =>
         \A m \in passed' \ passed :
            m < Len(under) /\ looked \in under[m + 1]
               => m = CookieMark(cookie')]_bookVars

=============================================================================
