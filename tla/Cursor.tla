------------------------------- MODULE Cursor -------------------------------
(***************************************************************************)
(* What a tracker promises: it is a cursor on the list of items that its   *)
(* client sees in a structure, as long as they fit in the data.            *)
(***************************************************************************)
EXTENDS Integers, Sequences

VARIABLES
    items,      \* the items, with their names, of the structure it is in
    pos,        \* nowhere (0), on an item, or past the last one
    op,         \* the last call, and its argument
    ret         \* what it returned

AtEnd == Len(items) + 1
Position == 0 .. AtEnd

\* The call moves the cursor to a position that is an item, or past the last one.
Reach(i) ==
    /\ items' = items
    /\ pos' = i
    /\ ret' = IF i = AtEnd THEN "none" ELSE "ok"

Stay == items' = items /\ pos' = pos

First == op'.fn = "first" /\ Reach(1)

Next ==
    /\ op'.fn = "next"
    /\ IF pos = AtEnd THEN Stay /\ ret' = "none" ELSE Reach(pos + 1)

\* The item of some rank: without one the cursor does not move.
Nth ==
    /\ op'.fn = "nth"
    /\ IF op'.arg < Len(items) THEN Reach(op'.arg + 1) ELSE Stay /\ ret' = "none"

\* The first item with a name: without one the cursor is past the last item.
Find ==
    LET with == {i \in 1 .. Len(items) : items[i].name = op'.arg} IN
    /\ op'.fn = "named"
    /\ IF with = {} THEN Reach(AtEnd)
       ELSE Reach(CHOOSE i \in with : \A j \in with : i <= j)

End == op'.fn = "end" /\ items' = items /\ pos' = AtEnd /\ ret' = "ok"

Rewind == op'.fn = "rewind" /\ items' = items /\ pos' = 0

\* Where an item is does not move the cursor, found or not.
Query == op'.fn = "location" /\ Stay

\* Another structure: nowhere in one that is entered, and on the item of the one
\* that is returned to.
Enter == op'.fn = "enter" /\ IF ret' = "ok" THEN pos' = 0 ELSE Stay
Return ==
    /\ op'.fn = "return"
    /\ IF ret' = "ok" THEN pos' \in 1 .. Len(items') ELSE items' = items /\ pos' = 0

\* An item that does not fit in the data stops a call that goes past it, there.
Fail ==
    /\ ret' = "oob" /\ op'.fn \in {"first", "next", "nth", "named", "enter", "location"}
    /\ items' = items

Step == First \/ Next \/ Nth \/ Find \/ End \/ Rewind \/ Query \/ Enter \/ Return \/ Fail

Start == pos = 0
Spec == Start /\ [][Step]_<<items, pos, op, ret>>
=============================================================================
