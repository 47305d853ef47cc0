----------------------------- MODULE BoxSizing -----------------------------
(***************************************************************************)
(* The lazy computation of the sizes of one box (core/browse.c) with the   *)
(* size backends of its node (filters/*.c).                                *)
(*                                                                         *)
(* A box lies in its parent.  One end of it, the boundary, is fixed when   *)
(* it is made; the other end is known only when somebody asks, and five of *)
(* them are kept: the least the box may span, the output it uses, what it  *)
(* spans, the most it may span, and the slack its parent leaves it.  Each  *)
(* is computed once, with calls to the functions that compute the others,  *)
(* so the calls nest; the model keeps their stack.  Offsets are distances  *)
(* from the boundary: a right-aligned box mirrors a left-aligned one.      *)
(***************************************************************************)
EXTENDS Integers, Sequences

CONSTANT Boxes          \* the boxes a run chooses from, records of BoxRecord

Unknown == -1
Sizes   == {"min", "used", "span", "max", "slack"}
Attrs   == {"minspan", "span", "maxspan"}
Kinds   == {"composite", "array", "byte_array", "byte", "slice", "filter"}

(***************************************************************************)
(* What a box is made with.  flags are the facts the compiler finds about  *)
(* its node: variable and fills (of ITEMFLAG); counted, constItems (the    *)
(* items have one size); greedy (a child takes all the space it may);      *)
(* sizer, integer, data (what a filter computes); inside (the data it      *)
(* yields lie in its input); brokenParent (what the parent computes for    *)
(* its child is an error).  An attribute may be declared and have no       *)
(* value, when its condition does not hold or its expression comes to an   *)
(* item that is not there (BITPUNCH_NO_ITEM, item.c:240 and 282); reads    *)
(* says that evaluating one reads a child whose size depends on this box.  *)
(***************************************************************************)
Flags == {"variable", "fills", "counted", "constItems", "greedy",
          "sizer", "integer", "data", "inside", "brokenParent"}

BoxRecord ==
    [kind : Kinds, flags : SUBSET Flags,
     declared : SUBSET Attrs, enabled : SUBSET Attrs, attr : [Attrs -> Int],
     reads : BOOLEAN,
     hard : Nat,        \* ast_node_get_min_span_size()
     content : Nat,     \* bytes the children, or one item of a filter, take
     out : Nat,         \* bytes the filter yields
     parent : Nat,      \* end of the parent known when the box was made
     alloc : Nat,       \* what the parent allots to its child
     item : BOOLEAN,    \* an item box (BOX_OVERLAY), or a filter box
     ralign : BOOLEAN]

ASSUME BoxesAssumption ==
    \A b \in Boxes : b \in BoxRecord /\ b.enabled \subseteq b.declared

VARIABLES
    node,       \* the box as it was made; never changes
    box,        \* the size kept in each of its offsets, or Unknown
    overlay,    \* BOX_OVERLAY: the output lies in the input
    computing,  \* COMPUTING_SPAN_SIZE
    items,      \* n_items of a slack byte array, or Unknown
    stack,      \* the calls being made, the running one first
    ret,        \* what the last call returned
    failed      \* the queries that ever failed

vars == <<node, box, overlay, computing, items, stack, ret, failed>>

Has(flag) == flag \in node.flags

-----------------------------------------------------------------------------
(***************************************************************************)
(* The backends the compiler gives to each kind of node.                   *)
(***************************************************************************)
MinBackend ==
    IF node.kind = "composite" /\ node.declared \cap {"span", "minspan"} # {}
    THEN "expr" ELSE "hardMin"

SpanBackend ==
    CASE node.kind = "composite" /\ "span" \in node.declared -> "expr"
      [] node.kind = "filter" -> IF Has("sizer") THEN "itemSize" ELSE "asSlack"
      [] OTHER -> "asUsed"

MaxBackend ==
    IF node.kind = "composite" /\ node.declared \cap {"span", "maxspan"} # {}
    THEN "expr"
    ELSE IF \/ node.kind = "byte"
            \/ node.kind \in {"composite", "byte_array"} /\ ~Has("variable")
    THEN "asSpan"
    ELSE "asSlack"

UsedBackend ==
    IF node.kind = "filter" THEN IF Has("integer") THEN "asSpan" ELSE "apply"
    ELSE IF node.kind = "slice" THEN "count"
    ELSE IF node.kind = "byte" \/ ~Has("variable") THEN "const"
    ELSE IF node.kind \in {"composite", "byte_array"} /\ Has("fills")
    THEN "asMaxSpan"
    ELSE IF node.kind = "byte_array"
    THEN IF Has("counted") THEN "count" ELSE "asSlack"
    ELSE IF node.kind = "array" /\ Has("constItems")
    THEN IF Has("counted") THEN "count" ELSE "slackItems"
    ELSE "contents"

-----------------------------------------------------------------------------
(***************************************************************************)
(* Setting a size: box_set_end_offset() and, for a right-aligned box, its  *)
(* mirror box_set_start_offset().  The new size is compared with the       *)
(* nearest known size that may not be smaller and the nearest that may not *)
(* be larger; the used size takes part only in an overlay.                 *)
(***************************************************************************)
SizeIn(b, s) == IF s = "parent" THEN node.parent ELSE b[s]

KnownIn(b, s) ==
    /\ SizeIn(b, s) # Unknown
    /\ s = "used" => overlay

AtMost ==
    [min |-> <<"used", "span", "max", "parent">>,
     used |-> <<"span", "max", "parent">>,
     span |-> <<"max", "parent">>,
     max |-> <<>>,
     slack |-> <<"parent">>]

AtLeast ==
    [min |-> <<>>,
     used |-> <<"min">>,
     span |-> <<"used", "min">>,
     max |-> <<"span", "used", "min">>,
     slack |-> <<"span", "used", "min">>]

IsNearest(b, q, i) ==
    /\ KnownIn(b, q[i])
    /\ \A j \in 1..(i - 1) : ~KnownIn(b, q[j])

WithinBounds(b, s, v) ==
    /\ \A i \in DOMAIN AtMost[s] :
          IsNearest(b, AtMost[s], i) => v <= SizeIn(b, AtMost[s][i])
    /\ \A i \in DOMAIN AtLeast[s] :
          IsNearest(b, AtLeast[s], i) => v >= SizeIn(b, AtLeast[s][i])
    /\ (\A i \in DOMAIN AtLeast[s] : ~KnownIn(b, AtLeast[s][i]))
          => v >= node.hard

\* box_check_start_offset() tests the other side's offset type here.
AtFiltersDiscretion(s) == s = "used" /\ ~overlay /\ ~node.ralign

\* Mutant: no bound is checked.
MutFits(b, s, v) == v >= node.hard
Fits(b, s, v) == AtFiltersDiscretion(s) \/ WithinBounds(b, s, v)

Set(b, s, v) == [b EXCEPT ![s] = v]

-----------------------------------------------------------------------------
(***************************************************************************)
(* Calls and returns.  A frame is a function and the place in it where it  *)
(* goes on: "start", or the name of the call it waits for.                 *)
(***************************************************************************)
Functions == Sizes
Places == {"start", "backend", "min", "max", "span", "used", "slack",
           "expr", "bound", "item", "contents", "apply"}
Frame  == [fn : Functions, at : Places]
Status == {"ok", "error"}

top == Head(stack)
At(f, place) == stack # <<>> /\ top = [fn |-> f, at |-> place]

Goto(place) ==
    stack' = <<[fn |-> top.fn, at |-> place]>> \o Tail(stack)

Call(f, place) ==
    stack' = <<[fn |-> f, at |-> "start"], [fn |-> top.fn, at |-> place]>>
                \o Tail(stack)

\* Mutant: COMPUTING_SPAN_SIZE is cleared on success only.
MutReturn(status) ==
    /\ stack' = Tail(stack)
    /\ ret' = status
    /\ failed' = IF Len(stack) = 1 /\ status = "error"
                 THEN failed \cup {top.fn} ELSE failed
    /\ computing' = (computing /\ ~(top.fn = "max" /\ top.at # "start"
                                    /\ status = "ok"))
Return(status) ==
    /\ stack' = Tail(stack)
    /\ ret' = status
    /\ failed' = IF Len(stack) = 1 /\ status = "error"
                 THEN failed \cup {top.fn} ELSE failed
    /\ computing' = (computing /\ ~(top.fn = "max" /\ top.at # "start"))

\* Mutant of SetAndReturn: a status that callers do not know is returned.
MutRefused(s, v) ==
    IF Fits(box, s, v) THEN box' = Set(box, s, v) /\ Return("ok")
    ELSE Return("refused") /\ UNCHANGED box

\* The last thing a backend does: set a size and return what that returned.
SetAndReturn(s, v) ==
    IF Fits(box, s, v) THEN box' = Set(box, s, v) /\ Return("ok")
    ELSE Return("error") /\ UNCHANGED box

\* Set one size and then another, unless the first is refused.
SetTwoAndReturn(s, v, t, w) ==
    IF Fits(box, s, v) /\ ~Fits(Set(box, s, v), t, w)
    THEN box' = Set(box, s, v) /\ Return("error")
    ELSE IF Fits(box, s, v)
    THEN box' = Set(Set(box, s, v), t, w) /\ Return("ok")
    ELSE Return("error") /\ UNCHANGED box

Same   == UNCHANGED <<node, overlay, items>>
NoSet  == Same /\ UNCHANGED box
Silent == NoSet /\ UNCHANGED <<ret, failed, computing>>

Go(place)      == Goto(place) /\ Silent
Ask(f, place)  == Call(f, place) /\ Silent
Done(status)   == Return(status) /\ NoSet
Store(s, v)    == SetAndReturn(s, v) /\ Same
Store2(s, v, t, w) == SetTwoAndReturn(s, v, t, w) /\ Same

\* Evaluating an attribute may need the most space this box may span.
Evaluate ==
    IF node.reads THEN Ask("max", "expr")
    ELSE /\ Goto("expr") /\ ret' = "ok"
         /\ NoSet /\ UNCHANGED <<failed, computing>>

\* The first of the attributes of q that has a value is the one that counts.
Enabled(q) == \E i \in DOMAIN q : q[i] \in node.enabled
First(q)   == IF q[1] \in node.enabled THEN q[1] ELSE q[2]
Value(q)   == node.attr[First(q)]
Bad(q)     == Enabled(q) /\ Value(q) < 0

\* A call failed: with an error, never with BITPUNCH_NO_ITEM, as no function that sizes
\* a box makes one; what an expression gives of it is a matter of enabled.
Failed == ret = "error" /\ Done("error")

-----------------------------------------------------------------------------
(***************************************************************************)
(* The functions.                                                          *)
(***************************************************************************)
\* box_compute_min_span_size() and its backends.
MinStart ==
    /\ At("min", "start")
    /\ \/ box.min # Unknown /\ Done("ok")
       \/ box.min = Unknown /\ MinBackend = "hardMin" /\ Store("min", node.hard)
       \/ box.min = Unknown /\ MinBackend = "expr" /\ Evaluate

MinAttrs == <<"minspan", "span">>

MinExpr ==
    /\ At("min", "expr")
    /\ \/ Failed
       \/ ret = "ok" /\ Bad(MinAttrs) /\ Done("error")
       \/ ret = "ok" /\ ~Enabled(MinAttrs) /\ Store("min", node.hard)
       \/ /\ ret = "ok" /\ Enabled(MinAttrs) /\ ~Bad(MinAttrs)
          /\ IF First(MinAttrs) = "span"
             THEN Store2("min", Value(MinAttrs), "max", Value(MinAttrs))
             ELSE Store("min", Value(MinAttrs))

\* box_compute_span_size() and its backends.
SpanStart ==
    /\ At("span", "start")
    /\ IF box.span # Unknown THEN Done("ok") ELSE Ask("min", "min")

SpanAfterMin ==
    /\ At("span", "min")
    /\ \/ Failed
       \/ ret = "ok" /\ computing /\ Go("backend")
       \/ ret = "ok" /\ ~computing /\ Ask("max", "max")

\* Mutant: the most the box may span is taken for its span.
MutSpanAfterMax ==
    /\ At("span", "max")
    /\ Failed \/ (ret = "ok" /\ Store("span", box.max))
SpanAfterMax ==
    /\ At("span", "max")
    /\ \/ Failed
       \/ ret = "ok" /\ box.min = box.max /\ Store("span", box.max)
       \/ ret = "ok" /\ box.min # box.max /\ Go("backend")

SpanCallBackend ==
    /\ At("span", "backend")
    /\ \/ SpanBackend = "expr" /\ Evaluate
       \/ SpanBackend = "asUsed" /\ Ask("used", "used")
       \/ SpanBackend = "asSlack" /\ Ask("slack", "slack")
       \/ SpanBackend = "itemSize" /\ Ask("max", "item")

\* Mutant: without a value of its own, the box asks its backend again.
MutSpanExpr ==
    /\ At("span", "expr")
    /\ \/ Failed
       \/ ret = "ok" /\ Bad(<<"span">>) /\ Done("error")
       \/ ret = "ok" /\ ~Enabled(<<"span">>) /\ Go("backend")
       \/ /\ ret = "ok" /\ Enabled(<<"span">>) /\ ~Bad(<<"span">>)
          /\ Store("span", Value(<<"span">>))
SpanExpr ==
    /\ At("span", "expr")
    /\ \/ Failed
       \/ ret = "ok" /\ Bad(<<"span">>) /\ Done("error")
       \/ ret = "ok" /\ ~Enabled(<<"span">>) /\ Ask("used", "used")
       \/ /\ ret = "ok" /\ Enabled(<<"span">>) /\ ~Bad(<<"span">>)
          /\ Store("span", Value(<<"span">>))

SpanAfterCall ==
    \/ At("span", "used")  /\ (Failed \/ (ret = "ok" /\ Store("span", box.used)))
    \/ At("span", "slack") /\ (Failed \/ (ret = "ok" /\ Store("span", box.slack)))
    \/ At("span", "item")  /\ (Failed \/ (ret = "ok" /\ Store("span", node.content)))

\* box_compute_max_span_size() and its backends.
MaxIsDone == box.max # Unknown \/ computing

MaxStart ==
    /\ At("max", "start")
    /\ IF MaxIsDone THEN Done("ok")
       ELSE /\ computing' = TRUE
            /\ Goto("backend")
            /\ NoSet /\ UNCHANGED <<ret, failed>>

MaxCallBackend ==
    /\ At("max", "backend")
    /\ \/ MaxBackend = "expr" /\ Evaluate
       \/ MaxBackend = "asSpan" /\ Ask("span", "span")
       \/ MaxBackend = "asSlack" /\ Ask("slack", "slack")

MaxAttrs == <<"maxspan", "span">>

MaxExpr ==
    /\ At("max", "expr")
    /\ \/ Failed
       \/ ret = "ok" /\ Bad(MaxAttrs) /\ Done("error")
       \/ ret = "ok" /\ ~Enabled(MaxAttrs) /\ Ask("slack", "slack")
       \/ ret = "ok" /\ Enabled(MaxAttrs) /\ ~Bad(MaxAttrs)
                     /\ Ask("slack", "bound")

Lesser(a, b) == IF a < b THEN a ELSE b

MaxBound ==
    /\ At("max", "bound")
    /\ \/ Failed
       \/ /\ ret = "ok"
          /\ IF First(MaxAttrs) = "span"
             THEN Store2("max", Lesser(Value(MaxAttrs), box.slack),
                         "min", Value(MaxAttrs))
             ELSE Store("max", Lesser(Value(MaxAttrs), box.slack))

MaxAfterCall ==
    \/ At("max", "span")  /\ (Failed \/ (ret = "ok" /\ Store("max", box.span)))
    \/ At("max", "slack") /\ (Failed \/ (ret = "ok" /\ Store("max", box.slack)))

\* The limit the children see: the closest end of this box known so far.
IsClosest(q, i) ==
    /\ SizeIn(box, q[i]) # Unknown
    /\ \A j \in 1..(i - 1) : SizeIn(box, q[j]) = Unknown

KnownEnd(q) == SizeIn(box, q[CHOOSE i \in DOMAIN q : IsClosest(q, i)])

ChildLimit ==
    IF computing THEN KnownEnd(<<"max", "slack", "parent">>)
    ELSE KnownEnd(<<"used", "span", "max", "slack", "parent">>)

\* box_compute_used_size() and its backends.
ItemSize == 2           \* bytes of the items of a slack array of fixed items

UsedStart ==
    /\ At("used", "start")
    /\ \/ box.used # Unknown /\ Done("ok")
       \/ /\ box.used = Unknown
          /\ \/ UsedBackend = "const" /\ Store("used", node.hard)
             \/ UsedBackend = "count" /\ Store("used", node.content)
             \/ UsedBackend \in {"asMaxSpan", "slackItems"} /\ Ask("max", "max")
             \/ UsedBackend = "asSlack" /\ items # Unknown /\ Store("used", items)
             \/ UsedBackend = "asSlack" /\ items = Unknown /\ Ask("slack", "slack")
             \/ UsedBackend = "asSpan" /\ Ask("span", "span")
             \/ /\ UsedBackend = "contents"
                /\ IF Has("constItems") THEN Store("used", node.content)
                   ELSE IF computing THEN Go("contents")
                   ELSE Ask("max", "contents")
             \/ /\ UsedBackend = "apply"
                /\ Ask(IF node.ralign THEN "span" ELSE "max", "apply")

UsedAfterCall ==
    \/ At("used", "max") /\ (Failed \/ (ret = "ok" /\ Store("used",
            IF UsedBackend = "asMaxSpan" THEN box.max
            ELSE box.max - (box.max % ItemSize))))
    \/ At("used", "span")  /\ (Failed \/ (ret = "ok" /\ Store("used", box.span)))

\* The items of a slack byte array are counted from the start of its span,
\* which in a right-aligned box is not known yet, and is then taken for -1.
SlackItems ==
    IF ~node.ralign THEN box.slack
    ELSE IF box.span # Unknown THEN box.span ELSE node.parent + 1

UsedOfSlack ==
    /\ At("used", "slack")
    /\ \/ Failed
       \/ /\ ret = "ok"
          /\ items' = SlackItems
          /\ SetAndReturn("used", SlackItems)
          /\ UNCHANGED <<node, overlay>>

UsedOfContents ==
    /\ At("used", "contents")
    /\ \/ ~computing /\ Failed
       \/ /\ computing \/ ret = "ok"
          /\ \/ Has("greedy") /\ Store("used", ChildLimit)
             \/ /\ ~Has("greedy")
                /\ IF node.content <= ChildLimit THEN Store("used", node.content)
                   ELSE Done("error")

\* The output of a filter is another data source, bytes of its input, or the span of
\* the box.
UsedByFilter ==
    /\ At("used", "apply")
    /\ UsedBackend = "apply"
    /\ \/ Failed
       \/ /\ ret = "ok" /\ Has("data")
          /\ box' = Set(box, "used", node.out)
          /\ overlay' = (overlay \/ Has("inside"))
          /\ Return("ok")
          /\ UNCHANGED <<node, items>>
       \/ /\ ret = "ok" /\ ~Has("data")
          /\ overlay' = TRUE
          /\ Call("span", "span")
          /\ UNCHANGED <<node, box, items, ret, failed, computing>>

\* box_compute_slack_size(): the parent's own computation may fail.
SlackStart ==
    /\ At("slack", "start")
    /\ \/ box.slack # Unknown /\ Done("ok")
       \/ box.slack = Unknown /\ Has("brokenParent") /\ Done("error")
       \/ box.slack = Unknown /\ ~Has("brokenParent") /\ Store("slack", node.alloc)

-----------------------------------------------------------------------------
Init ==
    /\ node \in Boxes
    /\ box = [s \in Sizes |-> Unknown]
    /\ overlay = node.item
    /\ computing = FALSE
    /\ items = Unknown
    /\ stack = <<>>
    /\ ret = "ok"
    /\ failed = {}

\* Anybody may ask for any size, at any time no answer is being computed.
Query(s) ==
    /\ stack = <<>>
    /\ stack' = <<[fn |-> s, at |-> "start"]>>
    /\ Silent

\* A structure or array put on a filtered output shares its bytes.
ApplyOverlay ==
    /\ stack = <<>>
    /\ ~overlay
    /\ node.kind # "filter"
    /\ overlay' = TRUE
    /\ UNCHANGED <<node, box, computing, items, stack, ret, failed>>

Step ==
    \/ MinStart \/ MinExpr
    \/ SpanStart \/ SpanAfterMin \/ SpanAfterMax \/ SpanCallBackend
    \/ SpanExpr \/ SpanAfterCall
    \/ MaxStart \/ MaxCallBackend \/ MaxExpr \/ MaxBound \/ MaxAfterCall
    \/ UsedStart \/ UsedAfterCall \/ UsedOfSlack \/ UsedOfContents
    \/ UsedByFilter
    \/ SlackStart

Next == Step \/ ApplyOverlay \/ \E s \in Sizes : Query(s)

\* A computation is ordinary sequential code: nothing stops it.
Spec == Init /\ [][Next]_vars /\ WF_vars(Step)

-----------------------------------------------------------------------------
(***************************************************************************)
(* Properties.                                                             *)
(***************************************************************************)
\* The type invariant.
TypeOK ==
    /\ node \in BoxRecord
    /\ box \in [Sizes -> Int]
    /\ overlay \in BOOLEAN /\ computing \in BOOLEAN /\ items \in Int
    /\ stack \in Seq(Frame)
    /\ ret \in Status
    /\ failed \subseteq Sizes

InOrder(s, t) ==
    box[s] # Unknown /\ box[t] # Unknown => box[s] <= box[t]

\* Every size of an item whose bytes are its own goes through the same checks
\* from the start.  A filter writes its output offsets without any check, and
\* what a structure put on a filtered output uses is not checked before it
\* becomes an overlay.
Checked == node.item /\ UsedBackend # "apply"

\* The sizes of a box that are known are nested, in whatever order they were
\* computed and even after a computation failed half-way: what a box must
\* span is within what its output uses, that within what it spans, and that
\* within the most it may span.
SizesNested ==
    /\ box.min # Unknown => box.min >= node.hard
    /\ Checked \/ ~overlay =>
          InOrder("min", "span") /\ InOrder("min", "max") /\ InOrder("span", "max")
    /\ Checked =>
          InOrder("min", "used") /\ InOrder("used", "span") /\ InOrder("used", "max")

\* A computation that reports success leaves the size it was asked for known
\* (asserted by box_compute_offset_internal()).
AnswersAreKnown ==
    [][Len(stack) = 1 /\ stack' = <<>> /\ ret' = "ok"
          => box'[top.fn] # Unknown]_vars

\* At most one of @minspan, @span and @maxspan: with more of them the least size
\* may be overwritten by the computation of the greatest.
Consistent == \A a, b \in node.declared : a = b

\* What each size is by definition, whoever asks first.
OneOf(q, default) == IF Enabled(q) THEN Value(q) ELSE default

MinOf == IF MinBackend = "expr" THEN OneOf(MinAttrs, node.hard) ELSE node.hard

MaxOf ==
    CASE MaxBackend = "asSpan" -> node.hard
      [] MaxBackend = "asSlack" -> node.alloc
      [] MaxBackend = "expr" ->
            IF "maxspan" \in node.enabled
            THEN Lesser(node.attr["maxspan"], node.alloc)
            ELSE OneOf(<<"span">>, node.alloc)

UsedOr(span) ==
    CASE UsedBackend = "const" -> node.hard
      [] UsedBackend = "asMaxSpan" -> MaxOf
      [] UsedBackend = "asSlack" -> node.alloc
      [] UsedBackend = "slackItems" -> MaxOf - (MaxOf % ItemSize)
      [] UsedBackend = "asSpan" -> span
      [] UsedBackend = "apply" -> IF Has("data") THEN node.out ELSE span
      [] OTHER -> IF UsedBackend = "contents" /\ Has("greedy")
                     /\ ~Has("constItems")
                  THEN MaxOf ELSE node.content

SpanOf ==
    IF MinOf = MaxOf THEN MaxOf
    ELSE CASE SpanBackend = "expr" -> OneOf(<<"span">>, UsedOr(Unknown))
           [] SpanBackend = "asUsed" -> UsedOr(Unknown)
           [] SpanBackend = "asSlack" -> node.alloc
           [] SpanBackend = "itemSize" -> node.content

SizeOf ==
    [min |-> MinOf, max |-> MaxOf, span |-> SpanOf, used |-> UsedOr(SpanOf),
     slack |-> node.alloc]

\* The sizes do not depend on the order in which they are asked for: as long
\* as nothing failed, each one known is the one its definition gives.
OrderDoesNotMatter ==
    failed = {} /\ ret = "ok" /\ Consistent =>
        \A s \in Sizes : box[s] # Unknown => box[s] = SizeOf[s]

\* Every computation comes to an end, though the functions call each other.
Termination == stack # <<>> ~> stack = <<>>

=============================================================================
