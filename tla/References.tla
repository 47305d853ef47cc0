----------------------------- MODULE References -----------------------------
(***************************************************************************)
(* Who holds what: the boxes of data items (core/browse.c, core/expr.c),   *)
(* the data sources under them, and the objects of the python client that  *)
(* hold boxes, values and views of bytes (modelmodule.c).  A box is freed  *)
(* with its last reference, and drops those it has on its parent and scope.*)
(***************************************************************************)
EXTENDS Sources

CONSTANTS
    Box,        \* the identities of boxes, a range of integers from 1
    Handle,     \* the objects of the client
    Chains,     \* the filters of an item, from the one that is its type
    MaxDepth,   \* BOX_MAX_DEPTH_LEVEL
    MaxViews,   \* how many views of bytes there are at once
    Risky       \* what the client does although the library does not expect it

ASSUME ReferenceAssumption ==
    /\ Box = 1 .. Cardinality(Box) /\ IsFiniteSet(Box) /\ IsFiniteSet(Handle)
    /\ MaxDepth \in Nat /\ MaxViews \in Nat
    /\ Chains \subseteq Seq({"object", "bytes", "buffer"}) \ {<<>>}
    /\ Risky \subseteq {"leave", "rebuffer", "notify", "move_viewed", "untracked"}

VARIABLES
    boxes,      \* the boxes
    handles,    \* what each object of the client holds
    views,      \* views of bytes: of an object, the source and its contents then
    board       \* the data sources that the board has names for

vars == <<boxes, handles, views, board, src, cache, file, opened>>

Nowhere == <<>>

(***************************************************************************)
(* A box: its filter; who it refers to; the item it was made for, if it was*)
(* for one (track_path); the data source it gives, and if it owns it       *)
(* (BOX_DATA_SOURCE); if it is filled in (BOX_FILTER_APPLIED); the source  *)
(* or the path that a filter without input reads from.                     *)
(***************************************************************************)
Filters == {"object", "bytes", "buffer", "slice", "source", "file"}
NoBox == [kind |-> "free", use |-> 0, parent |-> None, scope |-> None, item |-> Nowhere,
          ds |-> None, owns |-> FALSE, applied |-> FALSE, depth |-> 0, from |-> None]

\* ast_node_is_trackable(); Tracker_set_default_iter_mode()
Trackable(kind) == kind \in {"object", "bytes", "slice"}
Container(kind) == kind \in {"object", "slice"}

\* The state that a call works on, one change after the other.
Nothing == [ds |-> None, path |-> Lost]
Now == [boxes |-> boxes, src |-> src, cache |-> cache, opened |-> Nothing]
Free(st) == {b \in Box : st.boxes[b].kind = "free"}

AcquireBox(st, b) == IF b = None THEN st ELSE [st EXCEPT !.boxes[b].use = @ + 1]

\* Mutant: the scope of a box is not released with it.
MutReleaseNext(w) ==
    LET b == Head(w.todo)
        x == w.st.boxes[b]
    IN  IF w.todo = <<>> THEN w
        ELSE IF b = None THEN [w EXCEPT !.todo = Tail(@)]
        ELSE IF x.use # 1 THEN [w EXCEPT !.todo = Tail(@), !.st.boxes[b].use = @ - 1]
        ELSE [st   |-> [w.st EXCEPT !.boxes[b] = NoBox,
                                    !.src = IF x.owns THEN ReleaseSource(@, x.ds) ELSE @],
              todo |-> <<x.parent>> \o Tail(w.todo)]
\* box_delete_non_null(), box_free(): the next of the references that are to be
\* released; the last one on a box frees it, and its own are the next.
ReleaseNext(w) ==
    LET b == Head(w.todo)
        x == w.st.boxes[b]
    IN  IF w.todo = <<>> THEN w
        ELSE IF b = None THEN [w EXCEPT !.todo = Tail(@)]
        ELSE IF x.use # 1 THEN [w EXCEPT !.todo = Tail(@), !.st.boxes[b].use = @ - 1]
        ELSE [st   |-> [w.st EXCEPT !.boxes[b] = NoBox,
                                    !.src = IF x.owns THEN ReleaseSource(@, x.ds) ELSE @],
              todo |-> <<x.parent, x.scope>> \o Tail(w.todo)]

\* box_delete(): until none is left, which each box adds one to at most.
MaxReleases == 2 * Cardinality(Box) + 1
DeleteBox(st, b) ==
    LET after[n \in 0 .. MaxReleases] ==
            IF n = 0 THEN [st |-> st, todo |-> <<b>>] ELSE ReleaseNext(after[n - 1])
    IN  after[MaxReleases].st

\* box_construct(): a box that is too deep is freed before it refers to any.
NewBox(st, kind, parent, scope, item, from) ==
    LET b == Min(Free(st))
        d == IF parent = None THEN 0 ELSE st.boxes[parent].depth
        x == [kind |-> kind, use |-> 1, parent |-> parent, scope |-> scope, item |-> item,
              ds |-> None, owns |-> kind \in {"source", "file"}, applied |-> FALSE,
              depth |-> IF parent = None THEN 0 ELSE d + 1, from |-> from]
    IN  IF parent # None /\ d = MaxDepth THEN [st |-> st, box |-> None]
        ELSE [st |-> AcquireBox(AcquireBox([st EXCEPT !.boxes[b] = x], parent), scope),
              box |-> b]

-----------------------------------------------------------------------------
(***************************************************************************)
(* What a box gives: the data of the box it is in, or a source of its own. *)
(***************************************************************************)
Overlay(st, b, ds) == [st EXCEPT !.boxes[b].ds = ds, !.boxes[b].applied = TRUE]
Owner(st, b, ds) ==
    [st EXCEPT !.boxes[b].ds = ds, !.boxes[b].owns = TRUE, !.boxes[b].applied = TRUE]
Ok(st) == [st |-> st, ok |-> TRUE]
Failed(st) == [st |-> st, ok |-> FALSE]

\* box_apply_local_filter(): a filter gives part of its input, a value in memory
\* (if there is a source for it, here), or fails as it reads or as the size of its
\* input is computed (browse.c:1223).
LocalFilter(st, b) ==
    LET x  == st.boxes[b]
        in == IF x.parent = None THEN None ELSE st.boxes[x.parent].ds
    IN  CASE x.kind = "source" ->
               {Ok(Owner([st EXCEPT !.src = AcquireSource(@, x.from)], b, x.from))}
          [] x.kind = "file" ->
               {IF o.ds = None THEN Failed(st)
                ELSE Ok(Owner([st EXCEPT !.src = o.src, !.cache = o.cache,
                                         !.opened = [ds |-> o.ds, path |-> x.from]],
                              b, o.ds)) :
                    o \in {Opening(st.src, st.cache, x.from, m) :
                            m \in Matches(st.src, st.cache, x.from)}}
          [] x.kind = "buffer" ->
               {Failed(st), Ok(Overlay(st, b, in))}
               \cup (IF Fresh(st.src) = {} THEN {}
                     ELSE {Ok(Owner([st EXCEPT !.src = NewSource(@, "memory", Lost, 0)],
                                    b, Min(Fresh(st.src))))})
          [] OTHER -> {Failed(st), Ok(Overlay(st, b, in))}

\* The boxes around a box, from itself to the one that is in none.
Around(bs, b) ==
    LET up[i \in 0 .. bs[b].depth] == IF i = 0 THEN b ELSE bs[up[i - 1]].parent IN up

\* box_apply_filter_internal(): what may be left of it, when the filters of the boxes
\* around are applied first.
Apply(st, b) ==
    LET up == Around(st.boxes, b)
        d  == st.boxes[b].depth
        Then(u, a) ==
            IF u.ok /\ ~u.st.boxes[a].applied THEN LocalFilter(u.st, a) ELSE {u}
        after[n \in 0 .. d + 1] ==
            IF n = 0 THEN {Ok(st)}
            ELSE UNION {Then(u, up[d + 1 - n]) : u \in after[n - 1]}
    IN  after[d + 1]

ApplyParent(st, b) ==
    IF st.boxes[b].parent = None THEN {Ok(st)} ELSE Apply(st, st.boxes[b].parent)

-----------------------------------------------------------------------------
(***************************************************************************)
(* From an item to its box: one for its type, and one for each filter that *)
(* follows, in the box of the one before, which is its scope too.          *)
(***************************************************************************)
\* Mutant: the box is not released when the filter that follows fails.
MutWrapped(n, kind) ==
    LET m == NewBox(n.st, kind, n.box, n.box, Nowhere, None)
    IN  IF n.box = None THEN n
        ELSE [st |-> IF m.box = None THEN m.st ELSE DeleteBox(m.st, n.box), box |-> m.box]
\* expr_transform_dpath_operator_filter(), expr_transform_dpath_filter(): a filter of
\* what is in a box, which is released.
Wrapped(n, kind) ==
    LET m == NewBox(n.st, kind, n.box, n.box, Nowhere, None)
    IN  IF n.box = None THEN n ELSE [st |-> DeleteBox(m.st, n.box), box |-> m.box]

\* What is left after some filters is a reference on the last box, or none.
Filtered(st, b, filters) ==
    LET after[i \in 0 .. Len(filters)] ==
            IF i = 0 THEN [st |-> st, box |-> b] ELSE Wrapped(after[i - 1], filters[i])
    IN  after[Len(filters)]

\* tracker_create_item_box_internal(): the item is located first.
ItemBox(st, b, chain) ==
    {IF u.ok THEN NewBox(u.st, Head(chain), b, b, chain, None)
     ELSE [st |-> u.st, box |-> None] : u \in ApplyParent(st, b)}

\* tracker_get_filtered_item_box_internal()
FilteredItem(st, b, chain) ==
    {IF n.box = None THEN n ELSE Filtered(n.st, n.box, Tail(chain)) :
        n \in ItemBox(st, b, chain)}

\* A chain of filters that starts with a source.
FilteredSource(st, kind, from, filters) ==
    LET n == NewBox(st, kind, None, None, Nowhere, from) IN Filtered(n.st, n.box, filters)

-----------------------------------------------------------------------------
(***************************************************************************)
(* The objects of the client: a Tracker, in a box and on an item or on     *)
(* none; a DataItem, an item (in a box, through a tracker of its own) or a *)
(* box.  A DataItem keeps the value it read, with the box or the source it *)
(* is in, and the box of the bytes that it exports.                        *)
(***************************************************************************)
NoValue == [box |-> None, ds |-> None, data |-> Gone]
NoHandle ==
    [kind |-> "none", box |-> None, item |-> Nowhere, value |-> NoValue, filtered |-> None]
TrackerIn(b, item) == [NoHandle EXCEPT !.kind = "tracker", !.box = b, !.item = item]
ItemIn(b, item) == [NoHandle EXCEPT !.kind = "item", !.box = b, !.item = item]
BoxItem(b) == [NoHandle EXCEPT !.kind = "box", !.box = b]

IsDataItem(h) == handles[h].kind \in {"item", "box"}
IsTracker(h)  == handles[h].kind = "tracker"
OnItem(h)     == handles[h].item # Nowhere
Unused(h)     == handles[h].kind = "none"
Viewed(h)     == \E v \in views : v.of = h
KindOf(h)     == boxes[handles[h].box].kind

\* Bounds: there is room for the boxes a call makes, in a box and each other, as far
\* down as they are made.
Room(b, n) ==
    LET d == IF b = None THEN n ELSE MaxDepth - boxes[b].depth
    IN  Cardinality(Free(Now)) >= Min({n, d})
ItemRoom(h) == Room(handles[h].box, Len(handles[h].item))

Done(st, hs) ==
    /\ boxes' = st.boxes /\ src' = st.src /\ cache' = st.cache /\ opened' = st.opened
    /\ handles' = hs
    /\ UNCHANGED <<views, board, file>>

\* The box of what a DataItem is of: none is left if it fails.
BoxOf(h) ==
    IF handles[h].kind = "item" THEN FilteredItem(Now, handles[h].box, handles[h].item)
    ELSE {[st |-> AcquireBox(Now, handles[h].box), box |-> handles[h].box]}
LastFilter(h) == IF OnItem(h) THEN Last(handles[h].item) ELSE KindOf(h)

\* Board_add_data_source(): the board keeps what it is given.
AddSource ==
    /\ Fresh(src) # {} /\ board = <<>>
    /\ \/ /\ src' = NewSource(src, "memory", Lost, 0)
          /\ board' = Append(board, Min(Fresh(src)))
          /\ opened' = Nothing /\ UNCHANGED cache
       \/ \E p \in Path : \E m \in Matches(src, cache, p) :
             LET o == Opening(src, cache, p, m) IN
             /\ src' = o.src /\ cache' = o.cache
             /\ board' = Append(board, o.ds)
             /\ opened' = [ds |-> o.ds, path |-> p]
    /\ UNCHANGED <<boxes, handles, views, file>>

\* Board_eval_expr(): a source, by name or by path, and filters.
EvalExpr(h) ==
    /\ Unused(h)
    /\ \E chain \in Chains :
       /\ Room(None, Len(chain) + 1)
       /\ \E n \in {FilteredSource(Now, "source", board[i], chain) : i \in DOMAIN board}
                   \cup {FilteredSource(Now, "file", p, chain) : p \in Path} :
             Done(n.st, IF n.box = None THEN handles
                        ELSE [handles EXCEPT ![h] = BoxItem(n.box)])

\* Tracker_new_from_DataItem(): the type error of what is not a container comes
\* with the tracker made.
Track(h, g) ==
    /\ IsDataItem(h) /\ Unused(g)
    /\ Container(LastFilter(h)) \/ "untracked" \in Risky
    /\ ItemRoom(h)
    /\ \E n \in BoxOf(h) :
          Done(n.st, IF n.box = None \/ ~Container(LastFilter(h)) THEN handles
                     ELSE [handles EXCEPT ![g] = TrackerIn(n.box, Nowhere)])

\* Tracker_new_from_Tracker(), tracker_item_to_shallow_PyObject(): a copy of the
\* tracker, for another one, or for the item that it is on.
Copy(h, g) ==
    /\ IsTracker(h) /\ Unused(g)
    /\ LET t == handles[h] IN
       \E x \in {TrackerIn(t.box, t.item)}
                \cup (IF OnItem(h) THEN {ItemIn(t.box, t.item)} ELSE {}) :
          Done(AcquireBox(Now, t.box), [handles EXCEPT ![g] = x])

\* A move to another item of the box, or to none.
Move(h) ==
    /\ IsTracker(h) /\ Container(KindOf(h))
    /\ \E item \in Chains \cup {Nowhere} :
          Done(Now, [handles EXCEPT ![h].item = item])

\* tracker_enter_item_internal(): the tracker has moved when the filter fails.
Enter(h) ==
    /\ IsTracker(h) /\ OnItem(h) /\ ItemRoom(h)
    /\ Viewed(h) => "move_viewed" \in Risky
    /\ \E n \in FilteredItem(Now, handles[h].box, handles[h].item) :
          IF n.box = None THEN Done(n.st, handles)
          ELSE \E r \in Apply(DeleteBox(n.st, handles[h].box), n.box) :
                  Done(r.st, [handles EXCEPT ![h] = TrackerIn(n.box, Nowhere)])

\* The box a tracker came into its box by: of those around it, the first one
\* that is in a box with items.
Inner(b) ==
    LET up == Around(boxes, b)
        d  == boxes[b].depth
    IN  up[Min({i \in 0 .. d : i = d \/ Trackable(boxes[up[i + 1]].kind)})]

\* tracker_return_internal(): what it gives up is its reference on that box,
\* although it has one on the box it is in; of a slice it keeps the item.
Return(h) ==
    /\ IsTracker(h)
    /\ Viewed(h) => "move_viewed" \in Risky
    /\ LET t  == handles[h]
           b  == Inner(t.box)
           up == boxes[b].parent
       IN  /\ b # t.box /\ up # None => "leave" \in Risky
           /\ IF up = None THEN Done(Now, [handles EXCEPT ![h].item = Nowhere])
              ELSE Done(DeleteBox(AcquireBox(Now, up), b),
                        [handles EXCEPT ![h] =
                            TrackerIn(up, IF KindOf(h) = "slice" THEN t.item
                                          ELSE boxes[b].item)])

\* DataItem_eval_attr(): the item of that name, once the DataItem is of a box.
GetAttr(h, g) ==
    /\ IsDataItem(h) /\ Unused(g) /\ Container(LastFilter(h))
    /\ ItemRoom(h)
    /\ \E n \in BoxOf(h) :
       IF n.box = None THEN Done(n.st, handles)
       ELSE \E item \in Chains \cup {Nowhere} :
            LET st  == DeleteBox(n.st, handles[h].box)
                hs  == [handles EXCEPT ![h].kind = "box", ![h].box = n.box, ![h].item = Nowhere]
            IN  IF item = Nowhere THEN Done(st, hs)
                ELSE Done(AcquireBox(st, n.box), [hs EXCEPT ![g] = ItemIn(n.box, item)])

\* DataItem_get_slice(), box_new_slice_box()
Slice(h, g) ==
    /\ handles[h].kind = "box" /\ Unused(g) /\ Container(KindOf(h)) /\ Room(handles[h].box, 1)
    /\ LET b == handles[h].box IN
       \E u \in ApplyParent(Now, b) :
          LET n == NewBox(u.st, "slice", b, boxes[b].scope, Nowhere, None)
          IN  IF ~u.ok THEN Done(u.st, handles)
              ELSE IF n.box = None THEN Done(n.st, handles)
              ELSE Done(n.st, [handles EXCEPT ![g] = BoxItem(n.box)])

\* expr_evaluate_ancestor(), of a box that is the input of a filter.
Ancestor(h, g) ==
    /\ handles[h].kind = "box" /\ Unused(g)
    /\ LET b  == handles[h].box
           x  == boxes[b]
           up == IF x.item = Nowhere /\ x.kind # "slice" /\ x.parent # None
                 THEN x.parent ELSE b
       IN  Done(DeleteBox(AcquireBox(AcquireBox(Now, b), up), b),
                [handles EXCEPT ![g] = BoxItem(up)])

\* box_read_value_internal(): a range of a source, which the value holds, or bytes
\* that a filter read, of which it holds the box.
Value(st, b) ==
    LET x == st.boxes[b]
        v(holder, ds) == [box |-> holder, ds |-> ds, data |-> st.src[x.ds].data]
    IN  IF x.kind = "buffer" /\ ~x.owns
        THEN [st |-> AcquireBox(st, b), value |-> v(b, None)]
        ELSE [st |-> [st EXCEPT !.src = AcquireSource(@, x.ds)], value |-> v(None, x.ds)]

\* DataItem_get_value(): read once.
GetValue(h) ==
    /\ IsDataItem(h) /\ handles[h].value = NoValue /\ ItemRoom(h)
    /\ \E n \in BoxOf(h) :
       IF n.box = None THEN Done(n.st, handles)
       ELSE \E r \in Apply(n.st, n.box) :
            LET v == Value(r.st, n.box)
            IN  IF ~r.ok THEN Done(DeleteBox(r.st, n.box), handles)
                ELSE Done(DeleteBox(v.st, n.box), [handles EXCEPT ![h].value = v.value])

\* A view of the bytes that a box gives.
Viewing(h, st, b) ==
    LET ds == st.boxes[b].ds
    IN  views' = views \cup {[of |-> h, ds |-> ds, data |-> st.src[ds].data]}
Keep(st) == boxes' = st.boxes /\ src' = st.src /\ cache' = st.cache /\ opened' = st.opened

\* DataItem_bf_getbuffer(): the box of an earlier view is given up first.
GetBuffer(h) ==
    /\ IsDataItem(h) /\ Cardinality(views) < MaxViews /\ ItemRoom(h)
    /\ Viewed(h) => "rebuffer" \in Risky
    /\ \E n \in {[m EXCEPT !.st = DeleteBox(@, handles[h].filtered)] : m \in BoxOf(h)} :
       \E r \in IF n.box = None THEN {Failed(n.st)} ELSE Apply(n.st, n.box) :
          /\ Keep(IF r.ok THEN r.st ELSE DeleteBox(r.st, n.box))
          /\ handles' = [handles EXCEPT ![h].filtered = IF r.ok THEN n.box ELSE None]
          /\ IF r.ok THEN Viewing(h, r.st, n.box) ELSE UNCHANGED views
    /\ UNCHANGED <<board, file>>

\* Tracker_bf_getbuffer(): it is the tracker that keeps the box, of which the view
\* is of the input; what has items gives the data it is in (Overlay).
TrackerBuffer(h) ==
    /\ IsTracker(h) /\ OnItem(h) /\ Cardinality(views) < MaxViews
    /\ \E r \in Apply(Now, handles[h].box) :
          /\ Keep(r.st)
          /\ IF r.ok THEN Viewing(h, r.st, handles[h].box) ELSE UNCHANGED views
    /\ UNCHANGED <<handles, board, file>>

DropView ==
    /\ \E v \in views : views' = views \ {v}
    /\ UNCHANGED <<boxes, handles, board, src, cache, file, opened>>

\* DataItem_clear(), Tracker_clear(): once no view is left of the object.
Drop(h) ==
    /\ ~Unused(h) /\ ~Viewed(h)
    /\ LET x  == handles[h]
           st == DeleteBox(DeleteBox(DeleteBox(Now, x.box), x.value.box), x.filtered)
       IN  Done([st EXCEPT !.src = ReleaseSource(@, x.value.ds)],
                [handles EXCEPT ![h] = NoHandle])

\* The client changes a file, and says so, when nothing that was read of it is left.
FileChange ==
    /\ \/ "notify" \in Risky
       \/ views = {} /\ \A h \in Handle : handles[h].value = NoValue
    /\ \E p \in Path : ChangeFile(p)
    /\ UNCHANGED <<boxes, handles, views, board>>

Init ==
    /\ boxes = [b \in Box |-> NoBox]
    /\ handles = [h \in Handle |-> NoHandle]
    /\ views = {} /\ board = <<>>
    /\ SourcesInit

Next ==
    \/ AddSource \/ DropView \/ FileChange
    \/ \E h \in Handle : EvalExpr(h) \/ Move(h) \/ Enter(h) \/ Return(h) \/ GetValue(h)
                           \/ GetBuffer(h) \/ TrackerBuffer(h) \/ Drop(h)
    \/ \E h, g \in Handle : Track(h, g) \/ Copy(h, g) \/ GetAttr(h, g) \/ Slice(h, g)
                              \/ Ancestor(h, g)

Spec == Init /\ [][Next]_vars

-----------------------------------------------------------------------------
\* A box and a data source are used as often as there is something that refers to
\* them: a client, a box inside, a value, the board (browse.h:183).
UsesOfBox(b) ==
    Cardinality({h \in Handle : handles[h].box = b})
    + Cardinality({h \in Handle : handles[h].value.box = b})
    + Cardinality({h \in Handle : handles[h].filtered = b})
    + Cardinality({c \in Box : boxes[c].parent = b})
    + Cardinality({c \in Box : boxes[c].scope = b})
UsesOfSource(s) ==
    Cardinality({i \in DOMAIN board : board[i] = s})
    + Cardinality({b \in Box : boxes[b].owns /\ boxes[b].ds = s})
    + Cardinality({h \in Handle : handles[h].value.ds = s})
CountsAreRight ==
    /\ \A b \in Box : boxes[b].use = UsesOfBox(b) /\ (boxes[b].use = 0 <=> boxes[b] = NoBox)
    /\ \A s \in Source : src[s].use = UsesOfSource(s)

\* The bytes of a value that was kept, or of a view, are still there: their source
\* was not freed, closed or mapped again under them (modelmodule.c:2598).
BytesAreThere ==
    /\ \A v \in views : src[v.ds].kind # "free" /\ src[v.ds].data = v.data
    /\ \A h \in Handle :
          LET v  == handles[h].value
              ds == IF v.box # None THEN boxes[v.box].ds ELSE v.ds
          IN  v # NoValue => src[ds].kind # "free" /\ src[ds].data = v.data

\* A client that drops all it has leaves no box behind (browse.c:1328).
NothingIsLeft ==
    (\A h \in Handle : Unused(h)) => \A b \in Box : boxes[b] = NoBox
=============================================================================
