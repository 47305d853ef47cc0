---------------------------- MODULE FieldTracker ----------------------------
(***************************************************************************)
(* A tracker on the fields of structures (core/browse.c and the tracker of *)
(* scope.c, with the offsets of filters/composite.c).  Its client walks    *)
(* over items; inside, it enters anonymous fields and leaves them.  It     *)
(* keeps no offset until it is asked for one; from then on it adds sizes   *)
(* as it moves, backward for fields that are placed from the end.          *)
(***************************************************************************)
EXTENDS Structs

CONSTANTS
    MaxNth,           \* the highest rank a run asks for
    CallsInAnonymous  \* of the calls that forget the field the tracker is on or
                      \* leave its box, those made in an anonymous field

ASSUME FieldAssumption ==
    MaxNth \in Nat /\ CallsInAnonymous \subseteq {"first", "end", "return", "rewind"}

VARIABLES
    tk,         \* the tracker
    op, ret     \* the last call of the client, and what it returned

vars == <<schema, tk, op, ret>>

Unset == -1

(***************************************************************************)
(* The box the tracker is in; where it is in it (nil has no dpath); the    *)
(* field (0 for none, kept at the end); the offset of the item, or of its  *)
(* end when the tracker is reversed; TRACKER_NEED_ITEM_OFFSET, REVERSED.   *)
(***************************************************************************)
NewTracker ==
    [box |-> <<>>, at |-> "nil", cur |-> 0, offset |-> Unset, need |-> FALSE, rev |-> FALSE]

FieldOf(t) == FieldsOf(t.box)[t.cur]

\* What a call leaves: a tracker, and "ok", "none" or "oob" (out of bounds).
Res(t, r) == [tk |-> t, ret |-> r]
Tracker == [box : Seq(Nat), at : {"nil", "item", "end"}, cur : Nat, offset : Int,
            need : BOOLEAN, rev : BOOLEAN]
Result  == [tk : Tracker, ret : {"ok", "none", "oob"}]

Dangling(t) == [t EXCEPT !.at = "nil", !.cur = 0]
Rewound(t)  == [Dangling(t) EXCEPT !.need = FALSE, !.offset = Unset]
Ended(t)    == [t EXCEPT !.at = "end"]
Flipped(t)  == [t EXCEPT !.rev = ~@]
SetField(t, i) == [t EXCEPT !.at = "item", !.cur = i]

\* tracker_check_item(), with the size of the item.  Data is too short for the root
\* alone: what is around an inner box has room for all of its fields.
NoFit[t \in Tracker] ==
    LET size == Size[t.box, t.cur] IN
    \/ size < 0
    \/ IF t.rev THEN t.offset - size < 0 ELSE t.offset + size > schema.data

\* The end a tracker starts from (tracker_set_item_offset_at_box()).
Edge[t \in Tracker] == IF t.rev THEN BoxEnd(t.box) ELSE BoxStart[t.box]

Advanced[t \in Tracker] ==
    [t EXCEPT !.offset = IF t.rev THEN @ - Size[t.box, t.cur] ELSE @ + Size[t.box, t.cur]]

\* The fields before or after one, in the direction of the tracker, that are there.
Following(t, i) ==
    IF t.rev THEN {j \in Live(TypeOf(t.box)) : j < i}
    ELSE {j \in Live(TypeOf(t.box)) : j > i}
Nearest(t, js) == IF t.rev THEN Max(js) ELSE Min(js)
AllFields(t) == Live(TypeOf(t.box))

\* tracker_return_internal(): back on the field whose box the tracker is in.
Returned[t \in Tracker] ==
    IF t.box = <<>> THEN Res(Dangling(t), "none")
    ELSE LET o == IF t.need THEN Edge[t] ELSE t.offset
         IN  Res([SetField(t, Last(t.box)) EXCEPT !.box = Front(@), !.offset = o], "ok")

\* Mutant: the offset flag survives in the box that is entered.
MutInside(t) == [Dangling(t) EXCEPT !.box = Append(@, t.cur), !.offset = Unset]
\* tracker_enter_item_internal(), once the box of the item is there.
Inside(t) == [Rewound(t) EXCEPT !.box = Append(@, t.cur)]

\* tracker_goto_field_int_recur(): to the first item in an anonymous field,
\* however deep; x is the copy that enters, t the tracker if there is none.  The
\* data has room for an anonymous field: there is a box to enter (browse.c:2669).
AtField[t \in Tracker, x \in Tracker, i \in Nat] ==
    LET on == SetField(x, i)
        in == Inside(on)
    IN  IF ~Anonymous(FieldOf(on)) THEN Res(on, "ok")
        ELSE IF AllFields(in) = {} THEN Res(t, "none")
        ELSE AtField[t, in, Nearest(in, AllFields(in))]

GotoField(t, i, flat) == IF flat THEN Res(SetField(t, i), "ok") ELSE AtField[t, t, i]

\* Out of the anonymous fields the tracker is in.
Base[t \in Tracker] == IF InAnonymous(t.box) THEN Base[Returned[t].tk] ELSE t

\* tracker_goto_first_field_internal()
FirstField[t \in Tracker, flat \in BOOLEAN] ==
    LET In[b \in Tracker] ==
            IF AllFields(b) = {} THEN Res(Ended(b), "none")
            ELSE GotoField(b, Nearest(b, AllFields(b)), flat)
        b == IF ~flat /\ t.cur # 0 THEN Base[t] ELSE t
    IN  In[[b EXCEPT !.offset = IF b.need THEN Edge[b] ELSE @]]

\* Mutant: the walk ends where the anonymous field does.
MutGoesOn(t, flat) == FALSE
\* After the last field of an anonymous one, the walk goes on around it.
GoesOn(t, flat) == ~flat /\ InAnonymous(t.box)

\* tracker_goto_next_field_internal()
NextField[t \in Tracker, flat \in BOOLEAN] ==
    LET From[u \in Tracker] ==
            LET next == Following(u, u.cur) IN
            IF next # {} THEN GotoField(u, Nearest(u, next), flat)
            ELSE IF GoesOn(u, flat) THEN NextField[Returned[u].tk, flat]
            ELSE Res(Ended(u), "none")
    IN  IF t.need /\ NoFit[t] THEN Res(t, "oob")
        ELSE From[IF t.need THEN Advanced[t] ELSE t]

-----------------------------------------------------------------------------
(***************************************************************************)
(* The offset of an item, when it is asked for.                            *)
(***************************************************************************)
WalkTo[r \in Result, i \in Nat] ==
    IF r.ret = "ok" /\ r.tk.cur # i THEN WalkTo[NextField[r.tk, TRUE], i] ELSE r

\* tracker_reverse_direction_internal(), where the walk to a field ends.
TurnedBack[r \in Result] ==
    IF r.ret # "ok" THEN r
    ELSE IF r.tk.need /\ NoFit[r.tk] THEN Res(r.tk, "oob")
    ELSE Res(Flipped(IF r.tk.need THEN Advanced[r.tk] ELSE r.tk), "ok")

\* The fields of a trailer are walked from the end, and those of a box that is
\* aligned to the right unless they are in its header.
FromEnd(t) ==
    IF RightAligned[t.box] THEN ~IsHeader(TypeOf(t.box), t.cur)
    ELSE IsTrailer(TypeOf(t.box), t.cur)

\* Mutant: the tracker is left at the end of the item it was walked to.
MutWalked(t) ==
    LET w == WalkTo[FirstField[Flipped(t), TRUE], t.cur] IN
    IF FromEnd(t) = t.rev THEN WalkTo[FirstField[t, TRUE], t.cur]
    ELSE Res(Flipped(w.tk), w.ret)
\* tracker_goto_field_internal(), flat, on the field the tracker is on.  A walk that
\* fails leaves the tracker in the other direction (browse.c:2722).
Walked(t) ==
    IF FromEnd(t) = t.rev THEN WalkTo[FirstField[t, TRUE], t.cur]
    ELSE TurnedBack[WalkTo[FirstField[Flipped(t), TRUE], t.cur]]

\* tracker_compute_item_offset(), tracker_get_item_offset_internal()
Located[t \in Tracker] ==
    IF t.offset # Unset THEN Res(t, IF t.at = "item" THEN "ok" ELSE "none")
    ELSE CASE t.at = "nil" -> Res(t, "none")
           [] t.at = "end" -> Res([t EXCEPT !.need = TRUE,
                                            !.offset = IF t.rev THEN BoxStart[t.box]
                                                       ELSE BoxEnd(t.box)], "ok")
           [] OTHER        -> Walked([t EXCEPT !.need = TRUE])

\* tracker_get_item_location_internal(): the size is checked, once located.
Fitting[r \in Result] ==
    IF r.ret = "ok" /\ r.tk.at = "item" /\ NoFit[r.tk] THEN Res(r.tk, "oob") ELSE r
Location(t) == Fitting[Located[t]]

-----------------------------------------------------------------------------
(***************************************************************************)
(* Moves to items: hidden fields are not items.                            *)
(***************************************************************************)
SkipHidden[r \in Result] ==
    IF r.ret = "ok" /\ Hidden(FieldOf(r.tk)) THEN SkipHidden[NextField[r.tk, FALSE]] ELSE r

FirstOfScope(t) == SkipHidden[FirstField[t, FALSE]]
NextOfScope(t)  == SkipHidden[NextField[t, FALSE]]

\* tracker_goto_first_item_internal(): the offset is that of the box again.
FirstItem(t) ==
    LET At[u \in Tracker, r \in {"ok", "none"}] ==
            CASE r = "none" -> Res(Ended(u), r)
              [] r = "ok" /\ u.need /\ NoFit[u] -> Res(u, "oob")
              [] OTHER -> Res(u, r)
        From[r \in Result] ==
            IF r.ret = "oob" THEN r
            ELSE At[[r.tk EXCEPT !.offset = IF r.tk.need THEN Edge[r.tk] ELSE @], r.ret]
    IN  From[FirstOfScope([Dangling(t) EXCEPT !.offset = Unset])]

\* tracker_goto_next_item_internal()
NextItem(t) ==
    CASE t.at = "end" -> Res(t, "none")
      [] t.at = "nil" -> FirstItem(t)
      [] OTHER        -> NextOfScope(t)

CountTo[r \in Result, n \in Nat] ==
    IF r.ret = "ok" /\ n > 0 THEN CountTo[NextOfScope(r.tk), n - 1] ELSE r

\* tracker_goto_nth_item__scope(): on a copy, kept if the item is there.
NthItem(t, n) ==
    LET Kept[r \in Result] == IF r.ret = "ok" THEN r ELSE Res(t, r.ret)
    IN  Kept[CountTo[FirstOfScope(t), n]]

SeekName[r \in Result, name \in Names] ==
    IF r.ret = "ok" /\ FieldOf(r.tk).name # name
    THEN SeekName[NextField[r.tk, FALSE], name] ELSE r

\* tracker_goto_nth_item_with_key__scope(), for the only twin.
NamedItem(t, name) == SeekName[FirstField[t, FALSE], name]

\* tracker_goto_end_internal()
EndOf(t) ==
    LET o == IF t.rev THEN BoxStart[t.box] ELSE BoxEnd(t.box)
    IN  Res(Ended([t EXCEPT !.cur = 0, !.offset = IF t.need THEN o ELSE @]), "ok")

\* tracker_enter_item_internal(): the item is located on a copy, for its box.
EnterItem(t) ==
    IF t.at # "item" THEN Res(t, "none")
    ELSE LET On[r \in {"ok", "oob"}] == Res(IF r = "ok" THEN Inside(t) ELSE t, r)
         IN  On[Located[t].ret]

-----------------------------------------------------------------------------
Call(fn, arg, r) ==
    /\ op' = [fn |-> fn, arg |-> arg]
    /\ \E res \in {r} : tk' = res.tk /\ ret' = res.ret
    /\ UNCHANGED schema

Init ==
    /\ schema \in Schemas
    /\ tk = NewTracker
    /\ op = [fn |-> "none", arg |-> 0] /\ ret = "ok"

Allowed(fn) == InAnonymous(tk.box) => fn \in CallsInAnonymous

GotoFirstItem == Allowed("first") /\ Call("first", 0, FirstItem(tk))
GotoNextItem == Call("next", 0, NextItem(tk))
GotoNthItem == \E n \in 0 .. MaxNth : Call("nth", n, NthItem(tk, n))
GotoNamedItem == \E name \in Names : Call("named", name, NamedItem(tk, name))
GotoEnd == Allowed("end") /\ Call("end", 0, EndOf(tk))
Rewind == Allowed("rewind") /\ Call("rewind", 0, Res(Rewound(tk), "ok"))
GetLocation == Call("location", 0, Location(tk))
\* The client only enters structures.
Enter == (tk.at = "item" => FieldOf(tk).sub # Leaf) /\ Call("enter", 0, EnterItem(tk))
Return == Allowed("return") /\ Call("return", 0, Returned[tk])

Next ==
    \/ GotoFirstItem \/ GotoNextItem \/ GotoNthItem \/ GotoNamedItem \/ GotoEnd
    \/ Rewind \/ GetLocation \/ Enter \/ Return

Spec == Init /\ [][Next]_vars

-----------------------------------------------------------------------------
\* The offset of a tracker on an item is where the item is, however it came to be
\* known: the tracker was asked for it, and moved on, in or out of anonymous
\* fields, forward or from the end (browse.h:188).
OffsetIsRight ==
    tk.at = "item" /\ tk.offset # Unset =>
        tk.offset = IF tk.rev THEN Finish(tk.box, tk.cur) ELSE Begin(tk.box, tk.cur)

\* A tracker that keeps its offset has one to move from on every item, or
\* tracker_goto_next_field_internal() aborts (browse.c:2811).
ReadyToMove == tk.at = "item" /\ tk.need => tk.offset # Unset

\* Of the statements with a name, the one that the compiler settles on is the one
\* that is found in the data, if it is there.
NameIsResolved ==
    \A name \in Names :
        LET m == Resolved(tk.box, name)
            there(k) == Holds(FieldsOf(SubSeq(m.box, 1, k - 1))[m.box[k]])
        IN  \/ m = Lookup[tk.box, name]
            \/ m # NoMember /\ ~Holds(StatementOf(m))
            \/ m # NoMember /\ \E k \in Len(tk.box) + 1 .. Len(m.box) : ~there(k)

-----------------------------------------------------------------------------
(***************************************************************************)
(* The list the tracker is a cursor on: that of the structure around the   *)
(* anonymous fields it is in.                                              *)
(***************************************************************************)
Items == Visible[Base[tk].box]

Position ==
    CASE tk.at = "nil" -> 0
      [] tk.at = "end" -> Len(Items) + 1
      [] OTHER -> SelectInSeq(Items, LAMBDA it : it.box = tk.box /\ it.field = tk.cur)

Cursors == INSTANCE Cursor WITH items <- Items, pos <- Position

\* A tracker that is rewound is at the beginning (modelmodule.c:3553): the item that
\* comes next is the first one.
RewoundIsAtBeginning ==
    [][op.fn = "rewind" /\ op'.fn = "next" /\ Items # <<>> => Position' = 1]_vars

\* The tracker does what a cursor on the list of the items does: it goes through
\* them once each, in order, whatever it is asked on the way.  A failed location
\* of a field of the trailer leaves it backward (MCFieldTrackerShort.cfg).
IsCursor == Cursors!Spec
=============================================================================
