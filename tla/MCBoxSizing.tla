---------------------------- MODULE MCBoxSizing ----------------------------
(***************************************************************************)
(* Small sets of boxes for TLC: sizes of at most three or four bytes, and  *)
(* only the flags a kind of node can have.                                 *)
(***************************************************************************)
EXTENDS BoxSizing, FiniteSets

NoAttrs == [a \in Attrs |-> 0]

Plain == [kind |-> "byte", flags |-> {}, declared |-> {}, enabled |-> {},
          attr |-> NoAttrs, reads |-> FALSE, hard |-> 0, content |-> 0,
          out |-> 0, parent |-> 3, alloc |-> 3, item |-> TRUE,
          ralign |-> FALSE]

\* Every box of one kind with one set of flags, over small sizes.
BoxesOf(kind, flags) ==
    {[Plain EXCEPT !.kind = kind, !.flags = flags, !.hard = h, !.content = c,
                   !.alloc = a, !.item = i, !.ralign = r] :
        h \in 0..1, c \in {1, 2, 4}, a \in 2..3, i \in BOOLEAN, r \in BOOLEAN}

\* With one attribute that may be conditional, negative or read a child.
WithAttr(boxes, a, values) ==
    {[b EXCEPT !.declared = {a}, !.enabled = e, !.attr[a] = v, !.reads = rd] :
        b \in boxes, e \in {{}, {a}}, v \in values, rd \in BOOLEAN}

CompositeFlags == {{}, {"variable"}, {"variable", "fills"},
                   {"variable", "greedy"}, {"variable", "constItems"},
                   {"variable", "brokenParent"}}

Composites == UNION {BoxesOf("composite", f) : f \in CompositeFlags}

VarComposites ==
    UNION {BoxesOf("composite", f) :
             f \in {{"variable"}, {"variable", "greedy"},
                    {"variable", "constItems"}}}

Arrays ==
    UNION {BoxesOf("array", f) :
             f \in {{}, {"variable"}, {"variable", "greedy"},
                    {"variable", "constItems"},
                    {"variable", "constItems", "counted"}}}

Bytes ==
    BoxesOf("byte", {}) \cup BoxesOf("slice", {"variable"}) \cup
    UNION {BoxesOf("byte_array", f) :
             f \in {{}, {"variable", "fills"}, {"variable"},
                    {"variable", "counted"}}}

\* The output of a filter that is an item lies in the bytes of the item.
Filters ==
    {[b EXCEPT !.out = o] :
        b \in UNION {BoxesOf("filter", f) :
                       f \in {g \in SUBSET {"sizer", "integer", "data", "inside"} :
                                "inside" \in g => "data" \in g}},
        o \in 0..1}

Attributed ==
    UNION {WithAttr({b \in VarComposites : b.content # 2 /\ ~b.ralign},
                    a, {-1, 1, 3}) : a \in Attrs}

\* @minspan and @maxspan together, and @span with one of them.
Contradictory ==
    {[b EXCEPT !.declared = d, !.enabled = d,
               !.attr = [x \in Attrs |-> IF x = "minspan" THEN v ELSE w]] :
        b \in {x \in VarComposites : x.item /\ ~x.ralign},
        d \in {e \in SUBSET Attrs : Cardinality(e) >= 2},
        v \in 1..2, w \in 1..3}

PlainBoxes == Composites \cup Arrays \cup Bytes \cup Filters

AllBoxes == PlainBoxes \cup Attributed \cup Contradictory
=============================================================================
