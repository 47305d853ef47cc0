---------------------------- MODULE ArrayLookup ----------------------------
(***************************************************************************)
(* A tracker on the items of an array or of a slice of it, and the cache   *)
(* the array fills as its trackers pass by (filters/array.c,               *)
(* array_index_cache.c, array_slice.c): the offset of every PerMark-th     *)
(* item, the last item reached in order, and a book that says under which  *)
(* marks a key may be.  A call that walks over items works on a copy of    *)
(* the tracker, xtk, and takes one step per item: it may fail at each.     *)
(***************************************************************************)
EXTENDS BloomFilters, FiniteSets

CONSTANTS
    Arrays,         \* the arrays a run chooses from
    MaxTwin,        \* the highest rank a run asks for
    PerMark,        \* 1 << cache_log2_n_keys_per_mark
    Left            \* the arrays whose slices the client also returns from

(***************************************************************************)
(* An array: the key of each item; where the items start, from the start   *)
(* of the array, and the end of the last (var, of items of variable size), *)
(* or else the size of them all (unit); slack, without a count of its      *)
(* items; indexed, with a key; bad, the index of an item whose key cannot  *)
(* be evaluated.                                                           *)
(***************************************************************************)
ArrayRecord ==
    [keys : Seq(Word), var : BOOLEAN, start : Seq(Nat), unit : Nat \ {0},
     slack : BOOLEAN, indexed : BOOLEAN, bad : Int]

ASSUME ArraysAssumption ==
    /\ PerMark \in Nat \ {0} /\ MaxTwin \in Nat
    /\ Left \subseteq Arrays
    /\ \A a \in Arrays :
          /\ a \in ArrayRecord
          /\ a.var => /\ Len(a.start) = Len(a.keys) + 1 /\ a.start[1] = 0
                      /\ \A i \in 1 .. Len(a.keys) : a.start[i] < a.start[i + 1]

VARIABLES
    arr,        \* the array; never changes
    last,       \* last_cached_index
    lastOffset, \* last_cached_item_offset
    offsets,    \* mark_offsets, if the items are of variable size
    book,       \* cache_by_key, if the array is indexed
    win,        \* the slice the tracker is in
    tk,         \* the tracker of the client
    xtk,        \* the copy of it that the call in progress moves
    op,         \* the call in progress
    ret, twin   \* what the last call returned

cacheVars == <<last, lastOffset, offsets, book>>
vars == <<arr, last, lastOffset, offsets, book, win, tk, xtk, op, ret, twin>>

Unknown == -1
N == Len(arr.keys)
Key(i) == arr.keys[i + 1]
Off(i) == IF arr.var THEN arr.start[i + 1] ELSE i * arr.unit

\* What is read at an offset is the item that is there: a tracker may be mistaken
\* about where its item is, and goes from the start of an item to another.
ItemAt(o) == CHOOSE i \in 0 .. N : Off(i) = o
SizeAt(o) == Off(ItemAt(o) + 1) - o

MarkOf(i) == i \div PerMark
MarkStart(m) == m * PerMark

\* A tracker is on an item, at the end, or nowhere (a NULL dpath and no flag).
Tracker == [at : {"nil", "item", "end"}, index : Int, offset : Int, need : BOOLEAN]
Rewound == [at |-> "nil", index |-> -1, offset |-> Unknown, need |-> FALSE]

Whole == [from |-> 0, to |-> -1, start |-> 0, sliced |-> FALSE]

\* A call: what it is and what it does next; the item, the key and the rank it
\* is about and the items it may give; the twins met, the place in the book, the
\* last cached item when it began, and what follows when the item is reached.
NoOp == [fn |-> "none", phase |-> "start", key |-> Unknown, nth |-> -1,
         from |-> 0, to |-> -1, count |-> -1, cookie |-> Finished,
         known |-> -1, then |-> "give"]

-----------------------------------------------------------------------------
(***************************************************************************)
(* Moves of a tracker that do not touch the cache.                         *)
(***************************************************************************)
Dangling(t) == [t EXCEPT !.at = "nil", !.index = -1]
At(t, i, o) == [t EXCEPT !.at = "item", !.index = i, !.offset = o]
Ended(t)    == [t EXCEPT !.at = "end"]

\* tracker_goto_first_item_internal() on the array: a slack array needs the
\* offsets, to know where it ends.
FirstItem(t) ==
    LET u == [Dangling(t) EXCEPT !.offset = Unknown, !.need = @ \/ arr.slack]
        o == IF u.need THEN Off(0) ELSE Unknown
    IN  IF N > 0 THEN At(u, 0, o)
        ELSE [u EXCEPT !.at = "end", !.offset = o,
                       !.index = IF arr.slack THEN 0 ELSE -1]

\* Mutant: the size that is added is that of the item gone to.
MutNextItem(t) ==
    LET u == [t EXCEPT !.index = @ + 1]
    IN  IF u.index = N THEN Ended(u)
        ELSE IF t.need THEN [u EXCEPT !.offset = @ + SizeAt(Off(u.index))] ELSE u
\* tracker_goto_next_item__array(), once the offset is there if it is needed.
NextItem(t) ==
    LET u == [t EXCEPT !.index = @ + 1,
                       !.offset = IF t.need THEN @ + SizeAt(@) ELSE @]
    IN  IF u.index = N THEN Ended(u) ELSE u

Onward(t) == IF t.at = "nil" THEN FirstItem(t) ELSE NextItem(t)

\* tracker_goto_next_item__array_slice(), likewise: the end of the slice.
EndsSlice(t) == win.sliced /\ t.index + 1 = win.to

NextInBox(t) ==
    IF EndsSlice(t)
    THEN Ended([t EXCEPT !.index = @ + 1, !.offset = @ + SizeAt(@)])
    ELSE NextItem(t)

\* tracker_compute_item_location() or tracker_check_item() fails: the item, or
\* the next one, does not fit in the array.
NoRoom(t) ==
    LET o == t.offset IN
    \/ (t.need \/ EndsSlice(t)) /\ o = Off(N)
    \/ /\ t.need /\ ~EndsSlice(t) /\ t.index + 1 < N
       /\ o = Off(N) \/ o + SizeAt(o) = Off(N)

\* tracker_goto_mark_internal()
AtMark(m) ==
    [at |-> "item", index |-> MarkStart(m), need |-> TRUE,
     offset |-> IF arr.var THEN offsets[m + 1] ELSE Off(MarkStart(m))]

\* tracker_goto_last_cached_item_internal()
LastCached ==
    IF last # -1
    THEN [at |-> "item", index |-> last, need |-> TRUE, offset |-> lastOffset]
    ELSE [Rewound EXCEPT !.need = TRUE]

-----------------------------------------------------------------------------
(***************************************************************************)
(* The cache.                                                              *)
(***************************************************************************)
Marked(i) == i % PerMark = 0

BookWith(t) ==
    InsertWord(IF Marked(t.index) THEN AddMark(book) ELSE book, Key(t.index))

\* tracker_index_cache_add_item()
AddItem(t) ==
    /\ last' = t.index
    /\ lastOffset' = t.offset
    /\ offsets' = IF arr.var /\ Marked(t.index) THEN Append(offsets, t.offset)
                  ELSE offsets
    /\ book' = IF arr.indexed THEN BookWith(t) ELSE book

\* Mutant: the last item cached is cached again when a tracker passes by it.
MutCacheOnPass(t) ==
    IF t.index >= last /\ t.index < N THEN AddItem(t) ELSE UNCHANGED cacheVars
\* An item that comes next to the cached ones is added to them.
CacheOnPass(t) ==
    IF t.index = last + 1 THEN AddItem(t) ELSE UNCHANGED cacheVars

\* Evaluating a key may fail; past the array it does (its file ends there).
KeyFails(i) == arr.indexed /\ (i = arr.bad \/ i >= N)

-----------------------------------------------------------------------------
(***************************************************************************)
(* Ends of calls.                                                          *)
(***************************************************************************)
Return(t, status) ==
    /\ tk' = t
    /\ ret' = status
    /\ op' = NoOp
    /\ xtk' = Rewound
    /\ twin' = -1
    /\ UNCHANGED <<arr, win>>

Give(t) == Return(t, IF t.at = "item" THEN "ok" ELSE "no_item")

Continue(o, t) ==
    /\ op' = o
    /\ xtk' = t
    /\ UNCHANGED <<arr, win, tk, ret, twin>>

\* A call begins: the tracker of the client is t from now on.
Begin(o, t, x) ==
    /\ op' = [o EXCEPT !.known = last]
    /\ tk' = t
    /\ xtk' = x
    /\ ret' = "ok" /\ twin' = -1
    /\ UNCHANGED <<arr, win>>
    /\ UNCHANGED cacheVars

Free == op.fn = "none" /\ ret # "abort"

\* The goto_nth_item() of the array, then what then says.
CallNth(i, then, t) ==
    Begin([NoOp EXCEPT !.fn = "nth", !.nth = i, !.then = then], t, t)

-----------------------------------------------------------------------------
(***************************************************************************)
(* The calls of the client.                                                *)
(***************************************************************************)
Init ==
    /\ arr \in Arrays
    /\ last = -1 /\ lastOffset = Unknown
    /\ offsets = <<>> /\ book = EmptyBook
    /\ win = Whole
    /\ tk = Rewound /\ xtk = Rewound
    /\ op = NoOp
    /\ ret = "ok" /\ twin = -1

\* tracker_goto_first_item_internal(), on an array or on a slice of it.
First(t) ==
    LET u == [Dangling(t) EXCEPT !.offset = Unknown]
    IN  \/ /\ ~win.sliced
           /\ Give(FirstItem(t))
           /\ UNCHANGED cacheVars
        \/ /\ win.sliced /\ win.from = win.to
           /\ Give([u EXCEPT !.at = "end", !.index = win.from,
                             !.offset = win.start])
           /\ UNCHANGED cacheVars
        \/ /\ win.sliced /\ win.from # win.to
           /\ CallNth(win.from, "first", u)

GotoFirst == Free /\ First(tk)

\* Going on needs the location of the item: with the offsets, or when the end
\* of the slice is next.
LocationMissing ==
    /\ tk.offset = Unknown
    /\ tk.need \/ EndsSlice(tk)

\* tracker_goto_next_item()
GotoNext ==
    /\ Free
    /\ \/ tk.at = "nil" /\ First(tk)
       \/ tk.at = "end" /\ Give(tk) /\ UNCHANGED cacheVars
       \/ /\ tk.at = "item" /\ LocationMissing
          /\ CallNth(tk.index, "move", [tk EXCEPT !.need = TRUE])
       \/ /\ tk.at = "item" /\ ~LocationMissing
          /\ IF NoRoom(tk) THEN Return(tk, "error") ELSE Give(NextInBox(tk))
          /\ UNCHANGED cacheVars

\* tracker_goto_nth_item(), of an array or of a slice.
GotoNth(i) ==
    /\ Free
    /\ \/ /\ win.sliced /\ i >= win.to - win.from
          /\ Return(tk, "no_item") /\ UNCHANGED cacheVars
       \/ /\ win.sliced => i < win.to - win.from
          /\ CallNth(win.from + i, "give", tk)

\* The item at which the box ends, counted from where it starts: its span is to
\* fit in that of the array.
EndItem == IF win.sliced THEN ItemAt(win.start) + win.to - win.from ELSE N

\* tracker_compute_item_offset(), for whoever asks for the offset of an item.
ItemOffset ==
    /\ Free
    /\ \/ /\ tk.at = "end"
          /\ IF EndItem > N THEN Return([tk EXCEPT !.need = TRUE], "error")
             ELSE Return([tk EXCEPT !.need = TRUE, !.offset = Off(EndItem)], "ok")
          /\ UNCHANGED cacheVars
       \/ /\ tk.at = "item" /\ tk.offset = Unknown
          /\ CallNth(tk.index, "give", [tk EXCEPT !.need = TRUE])

\* tracker_rewind()
Rewind ==
    /\ Free
    /\ Return(Rewound, "ok")
    /\ UNCHANGED cacheVars

SliceFrom(t) == IF t.index = -1 THEN 0 ELSE t.index

\* box_new_slice_box() and tracker_enter_slice_internal(), once it is known
\* where the first item t starts.
EnterAt(t, to) ==
    /\ win' = [from |-> SliceFrom(t), to |-> to, sliced |-> TRUE,
               start |-> IF t.index = -1 THEN 0 ELSE t.offset]
    /\ tk' = [Dangling(t) EXCEPT !.offset = Unknown]
    /\ op' = NoOp /\ xtk' = Rewound /\ ret' = "ok" /\ twin' = -1
    /\ UNCHANGED arr

\* tracker_enter_slice(), up to a tracker on item to of the same array.
EnterSlice(to) ==
    /\ Free
    /\ ~win.sliced
    /\ to >= SliceFrom(tk)
    /\ \/ /\ tk.at = "item" /\ tk.offset = Unknown
          /\ Begin([NoOp EXCEPT !.fn = "nth", !.nth = tk.index, !.to = to,
                               !.then = "slice"],
                   [tk EXCEPT !.need = TRUE], [tk EXCEPT !.need = TRUE])
       \/ /\ tk.at = "end" /\ tk.index # -1 /\ tk.offset = Unknown
          /\ EnterAt([tk EXCEPT !.need = TRUE, !.offset = Off(N)], to)
          /\ UNCHANGED cacheVars
       \/ /\ tk.at = "nil" \/ tk.index = -1 \/ tk.offset # Unknown
          /\ EnterAt(tk, to)
          /\ UNCHANGED cacheVars

\* tracker_return_from_slice()
ReturnFromSlice ==
    /\ Free /\ arr \in Left
    /\ win.sliced
    /\ win' = Whole
    /\ ret' = "ok" /\ twin' = -1
    /\ UNCHANGED <<arr, tk, xtk, op>> /\ UNCHANGED cacheVars

\* tracker_goto_nth_item_with_key(): the n-th twin, of the slice or of the array.
GotoNthWithKey(k, n) ==
    /\ Free /\ arr.indexed
    /\ Begin([NoOp EXCEPT !.fn = "with_key", !.key = k, !.nth = n,
                         !.from = win.from, !.to = win.to], tk, tk)

\* tracker_goto_next_item_with_key(): a tracker that is on no item, be it at the
\* end, goes to the first item that has the key.
GotoNextWithKey(k) ==
    /\ Free /\ arr.indexed
    /\ \/ tk.at # "item" /\ GotoNthWithKey(k, 0)
       \/ /\ tk.at = "item"
          /\ Begin([NoOp EXCEPT !.fn = "next_key", !.key = k,
                               !.from = tk.index + 1, !.to = win.to], tk, tk)

TwinCall(read) ==
    [op EXCEPT !.fn = "twin", !.phase = "start", !.nth = tk.index,
               !.key = Key(read), !.from = win.from, !.known = last]

\* The key of the item is read from where the tracker t is on it.
TwinsAt(t) ==
    LET read == ItemAt(t.offset) IN
    IF t.offset = Off(N) \/ KeyFails(read) THEN Return(tk, "error")
    ELSE Continue(TwinCall(read), xtk)

\* tracker_get_item_key_multi(): the rank of the item among those of its key.
GetTwin ==
    /\ Free /\ arr.indexed /\ tk.at = "item"
    /\ \/ /\ tk.offset = Unknown
          /\ Begin([NoOp EXCEPT !.fn = "nth", !.nth = tk.index, !.then = "twin"],
                   tk, [tk EXCEPT !.need = TRUE])
       \/ tk.offset # Unknown /\ TwinsAt(tk) /\ UNCHANGED cacheVars

-----------------------------------------------------------------------------
(***************************************************************************)
(* Going to the n-th item.                                                 *)
(***************************************************************************)
\* The item is reached: what the call wanted to do there.
Reach(t) ==
    \/ op.then = "give" /\ Return(t, "ok")
    \/ /\ op.then = "first"
       /\ IF t.need
          THEN Return([t EXCEPT !.offset = win.start],
                      IF win.start = Off(N) THEN "error" ELSE "ok")
          ELSE Return(t, "ok")
    \/ op.then = "move" /\ Give(NextInBox(t))
    \/ op.then = "slice" /\ EnterAt(t, op.to)
    \/ op.then = "twin" /\ TwinsAt(t)

\* Mutant: the walk never goes back to a mark.
MutWalkFrom(i) == IF last = -1 THEN FirstItem(LastCached) ELSE LastCached
\* Where a walk to item i starts: at a mark before it, or where the cache ends.
WalkFrom(i) ==
    IF i < last THEN AtMark(MarkOf(i))
    ELSE IF last = -1 THEN FirstItem(LastCached) ELSE LastCached

Counted == ~arr.var \/ ~arr.slack

\* tracker_goto_nth_item__array_const_item_size(), ..._var_item_size() and
\* ..._non_slack_var_item_size()
StartNth ==
    /\ op.fn = "nth" /\ op.phase = "start"
    /\ UNCHANGED cacheVars
    /\ LET i == op.nth IN
       \/ Counted /\ i >= N /\ Return(tk, "no_item")
       \/ /\ Counted /\ i < N /\ ~xtk.need
          /\ Reach(At(xtk, i, xtk.offset))
       \/ /\ ~arr.var /\ i < N /\ xtk.need
          /\ Reach(At(xtk, i, Off(i)))
       \/ /\ arr.var /\ (arr.slack \/ (i < N /\ xtk.need))
          /\ \/ /\ WalkFrom(i).at = "end"
                /\ Return(tk, "no_item")
             \/ /\ WalkFrom(i).at = "item"
                /\ Continue([op EXCEPT !.phase = "walk"], WalkFrom(i))

\* The loop of tracker_goto_nth_item__array_var_item_size().
WalkNth ==
    /\ op.fn = "nth" /\ op.phase = "walk"
    /\ \/ /\ xtk.index = last + 1 /\ KeyFails(xtk.index)
          /\ Return(tk, "error") /\ UNCHANGED cacheVars
       \/ /\ ~(xtk.index = last + 1 /\ KeyFails(xtk.index))
          /\ CacheOnPass(xtk)
          /\ LET next == NextItem(xtk) IN
             \/ xtk.index = op.nth /\ Reach(xtk)
             \/ xtk.index # op.nth /\ next.at = "end" /\ Return(tk, "no_item")
             \/ xtk.index # op.nth /\ next.at = "item" /\ Continue(op, next)

-----------------------------------------------------------------------------
(***************************************************************************)
(* Looking keys up: in the marks that may have the key, then past the last *)
(* cached item.                                                            *)
(***************************************************************************)
ToTail == Continue([op EXCEPT !.phase = "tail"], xtk)

CookieFrom(from) == LookupFrom(book, MarkOf(from))

\* box_index_cache_lookup_key_twins(): the next item of a key is looked up in
\* the book only by a tracker that is before the last cached item.
OpenLookup ==
    /\ op.fn \in {"with_key", "next_key", "twin"} /\ op.phase = "start"
    /\ UNCHANGED cacheVars
    /\ \/ op.fn = "next_key" /\ op.from > last /\ ToTail
       \/ /\ op.fn = "next_key" => op.from <= last
          /\ Continue([op EXCEPT !.phase = "mark",
                                !.cookie = CookieFrom(op.from)], xtk)

\* index_cache_iterator_next_twin(): the next mark that may have the key.  The
\* offset of a mark that does not exist is not looked up: the program aborts.
NextMark ==
    /\ op.phase = "mark"
    /\ UNCHANGED cacheVars
    /\ LET c == NextCandidate(book, op.key, op.cookie)
           m == CookieMark(c)
       IN  \/ m = NoMark /\ ToTail
           \/ /\ m # NoMark /\ arr.var /\ m >= Len(offsets)
              /\ Return(tk, "abort")
           \/ /\ m # NoMark /\ (arr.var => m < Len(offsets))
              /\ Continue([op EXCEPT !.phase = "scan", !.cookie = c], AtMark(m))

\* tracker_goto_next_key_match__array() evaluates a key, or fails to.
KeyFailed ==
    KeyFails(xtk.index) /\ Return(tk, "error") /\ UNCHANGED cacheVars
KeyRead == ~KeyFails(xtk.index) /\ CacheOnPass(xtk)

ScannedMark == CookieMark(op.cookie)

\* Mutant: the search goes on to the first item of the next mark.
MutScanEnd == MarkStart(ScannedMark + 1) + 1
ScanEnd == MarkStart(ScannedMark + 1)

\* Mutant: the items of the mark that lie before the first are given as well.
MutTwinInScan ==
    Key(xtk.index) = op.key
\* The items of the mark that lie before the first one are skipped.
TwinInScan ==
    /\ Key(xtk.index) = op.key
    /\ ScannedMark = MarkOf(op.from) => xtk.index >= op.from

\* The item has the key: is it the one?  A lookup of the twins of an item ends
\* at the item, one of the n-th item with a key counts them.
IsTheOne(count) ==
    \/ op.fn = "next_key"
    \/ op.fn = "with_key" /\ count = op.nth
    \/ op.fn = "twin" /\ xtk.index = op.nth

Found(count) ==
    IF op.fn # "twin" THEN Return(xtk, "ok")
    ELSE /\ ret' = "ok" /\ twin' = count
         /\ op' = NoOp /\ xtk' = Rewound
         /\ UNCHANGED <<arr, win, tk>>

\* On to the next item, with so many twins; at the end, to phase atEnd.
GoOn(count, atEnd) ==
    LET next == NextItem(xtk) IN
    IF next.at = "end"
    THEN Continue([op EXCEPT !.count = count, !.phase = atEnd], next)
    ELSE Continue([op EXCEPT !.count = count], next)

\* index_cache_iterator_next_twin(), in a mark.
Scan ==
    /\ op.phase = "scan"
    /\ \/ /\ xtk.index = ScanEnd
          /\ Continue([op EXCEPT !.phase = "mark"], xtk)
          /\ UNCHANGED cacheVars
       \/ xtk.index # ScanEnd /\ KeyFailed
       \/ /\ xtk.index # ScanEnd
          /\ KeyRead
          /\ \/ ~TwinInScan /\ GoOn(op.count, "mark")
             \/ TwinInScan /\ op.to # -1 /\ xtk.index >= op.to /\ ToTail
             \/ /\ TwinInScan /\ (op.to # -1 => xtk.index < op.to)
                /\ IF IsTheOne(op.count + 1) THEN Found(op.count + 1)
                   ELSE GoOn(op.count + 1, "tail")

\* "Browse the yet-uncached tail", from the last cached item on.
OpenTail ==
    /\ op.phase = "tail"
    /\ UNCHANGED cacheVars
    /\ LET first == Onward(LastCached) IN
       \/ op.to # -1 /\ last >= op.to /\ Return(tk, "no_item")
       \/ /\ op.to # -1 => last < op.to
          /\ IF first.at = "end" THEN Return(tk, "no_item")
             ELSE Continue([op EXCEPT !.phase = "tailscan"], first)

\* Twins of the item that lie before the slice do not count.
TwinsSoFar == IF xtk.index >= op.from THEN op.count + 1 ELSE op.count

TailScan ==
    /\ op.phase = "tailscan"
    /\ \/ /\ xtk.index = op.to
          /\ Return(tk, "no_item") /\ UNCHANGED cacheVars
       \/ xtk.index # op.to /\ KeyFailed
       \/ /\ xtk.index # op.to
          /\ KeyRead
          /\ IF Key(xtk.index) # op.key THEN GoOn(op.count, "over")
             ELSE IF IsTheOne(TwinsSoFar) THEN Found(TwinsSoFar)
             ELSE GoOn(TwinsSoFar, "over")

\* The end of the array, in the tail.
Over == op.phase = "over" /\ Return(tk, "no_item") /\ UNCHANGED cacheVars

-----------------------------------------------------------------------------
Call ==
    \/ GotoFirst \/ GotoNext \/ ItemOffset \/ Rewind
    \/ \E i \in 0 .. N : GotoNth(i) \/ EnterSlice(i)
    \/ ReturnFromSlice
    \/ \E k \in Word : GotoNextWithKey(k) \/ \E n \in 0 .. MaxTwin : GotoNthWithKey(k, n)
    \/ GetTwin

Step ==
    StartNth \/ WalkNth \/ OpenLookup \/ NextMark \/ Scan \/ OpenTail \/ TailScan \/ Over

Next == Call \/ Step

\* The library runs a call to its end.
Spec == Init /\ [][Next]_vars /\ WF_vars(Step)

-----------------------------------------------------------------------------
(***************************************************************************)
(* Properties.                                                             *)
(***************************************************************************)
\* What the book holds of the first n items of the array: the bits of the keys of
\* each mark and of each page, by the prefixes of their hashes.
BitsOf(S) == UNION {Hash[Key(i)].bits : i \in S}
BookOf(n) ==
    [marks |-> [m \in 1 .. (MarkOf(n - 1) + 1) |->
                  [s \in Short |->
                     BitsOf({i \in 0 .. (n - 1) :
                               MarkOf(i) = m - 1 /\ Hash[Key(i)].short = s})]],
     pages |-> [p \in 1 .. (PageOf(MarkOf(n - 1)) + 1) |->
                  [l \in Long |->
                     BitsOf({i \in 0 .. (n - 1) :
                               PageOf(MarkOf(i)) = p - 1 /\ Hash[Key(i)].long = l})]]]

\* Whatever the trackers did, in or out of slices, whichever marks their lookups
\* began from and whether they failed: what is cached is the first items of the
\* array, in order, at their offsets (tracker_index_cache_add_item()).
CacheIsPrefix ==
    /\ last # -1 => lastOffset = Off(last)
    /\ arr.var => /\ Len(offsets) = MarkOf(last) + 1
                  /\ \A m \in 0 .. MarkOf(last) : offsets[m + 1] = Off(MarkStart(m))
    /\ arr.indexed => book = BookOf(last + 1)

\* A tracker that is to know where its item is, by whichever way it came to the
\* item, knows it right (TRACKER_NEED_ITEM_OFFSET): unless it returned from a
\* slice, which leaves it on an item with the offset of another.
OffsetIsRight ==
    arr \notin Left =>
      /\ tk.at = "item" /\ tk.need /\ tk.offset # Unknown => tk.offset = Off(tk.index)
      /\ xtk.at = "item" /\ xtk.need /\ xtk.index < N /\ xtk.offset # Unknown
            => xtk.offset = Off(xtk.index)

Returns(fn) == op.fn = fn /\ op'.fn = "none"

\* Item i is given for i if the array has one, and none otherwise, unless a key
\* on the way cannot be evaluated.
NthIsRight ==
    [][Returns("nth") /\ op.then = "give" =>
         \/ ret' = "ok" /\ tk'.index = op.nth /\ op.nth < N
         \/ ret' = "no_item" /\ op.nth >= N
         \/ ret' = "error" /\ arr.bad \in 0 .. op.nth]_vars

\* The items with the key of the call, within its bounds.
Twins ==
    {i \in 0 .. (N - 1) :
       /\ Key(i) = op.key
       /\ i >= op.from
       /\ op.to = -1 \/ i < op.to}
Rank(i) == Cardinality({j \in Twins : j < i})

\* The marks a lookup starts from are those cached, or the next one.
WithinReach == MarkOf(op.from) <= MarkOf(op.known) + 1

\* However much was cached before the call, and whatever other keys the book
\* confuses with the key: the n-th twin is the n-th, or there is none; from an
\* item that is cached, the next item with a key is the first after it; and an
\* item has the rank it is said to have among the twins of the slice
\* (array_index_cache.c: "the index of the current tracker item's key amongst
\* all items sharing @ref item_key").  Only a key that cannot be evaluated makes a
\* lookup fail.
LookupIsRight ==
    [][/\ LET rank == IF op.fn = "with_key" THEN op.nth ELSE 0 IN
          \/ Returns("with_key") /\ WithinReach
          \/ Returns("next_key") /\ op.from - 1 <= op.known
          => \/ ret' = "ok" /\ tk'.index \in Twins /\ Rank(tk'.index) = rank
             \/ ret' = "no_item" /\ Cardinality(Twins) <= rank
             \/ ret' = "error" /\ arr.bad # -1
       /\ Returns("twin") /\ WithinReach /\ op.nth \in Twins
          => \/ ret' = "ok" /\ twin' = Rank(op.nth)
             \/ ret' = "error" /\ arr.bad # -1]_vars

\* No page is added to the book while a lookup holds a cookie, which points to a
\* page: adding one moves them all (realloc in bloom_book_add_mark()).
CookieStaysValid ==
    [][op.cookie.page # NoPage /\ op.phase \in {"mark", "scan"}
         => Len(book'.pages) = Len(book.pages)]_vars

\* The assertion of array_get_mark_offset_at_index().
MarkExists == ret # "abort"

\* Every call ends.
Termination == []<>(op.fn = "none")

=============================================================================
