-------------------------- MODULE BoxSizingProofs --------------------------
(***************************************************************************)
(* Theorems about BoxSizing, for every set of boxes: the state keeps its   *)
(* type, and the sizes of a box stay nested whatever is asked, in whatever *)
(* order, with whatever failures; then what the sizes are.                 *)
(*                                                                         *)
(* For the nesting: a size is written in one place only, after a check     *)
(* against its nearest known neighbours; if the known sizes are nested     *)
(* before, the nearest neighbours bound the new one on both sides, and all *)
(* the others by transitivity.                                             *)
(***************************************************************************)
EXTENDS BoxSizing, TLAPS

\* SizesNested, of any valuation of the sizes.
Ordered(b, s, t) == b[s] # Unknown /\ b[t] # Unknown => b[s] <= b[t]

Nested(b) ==
    /\ b.min # Unknown => b.min >= node.hard
    /\ Checked \/ ~overlay =>
          Ordered(b, "min", "span") /\ Ordered(b, "min", "max")
            /\ Ordered(b, "span", "max")
    /\ Checked =>
          Ordered(b, "min", "used") /\ Ordered(b, "used", "span")
            /\ Ordered(b, "used", "max")

\* An item box is an overlay from the start.
ItemIsOverlay == node.item => overlay

IInv == TypeOK /\ ItemIsOverlay /\ Nested(box)

-----------------------------------------------------------------------------
\* What the check of a new least span compares it with.
LEMMA BoundsOfMin ==
    ASSUME NEW b \in [Sizes -> Int], NEW v \in Int, node \in BoxRecord,
           overlay \in BOOLEAN, WithinBounds(b, "min", v)
    PROVE  /\ v >= node.hard
           /\ overlay /\ b.used # Unknown => v <= b.used
           /\ ~(overlay /\ b.used # Unknown) /\ b.span # Unknown => v <= b.span
           /\ ~(overlay /\ b.used # Unknown) /\ b.span = Unknown
                /\ b.max # Unknown => v <= b.max
<1> DEFINE q == AtMost["min"]
<1>1. /\ q = <<"used", "span", "max", "parent">>
      /\ AtLeast["min"] = <<>>
  BY DEF AtMost, AtLeast
<1>2. DOMAIN q = 1..4 /\ q[1] = "used" /\ q[2] = "span" /\ q[3] = "max"
  BY <1>1
<1>3. v >= node.hard
  BY <1>1 DEF WithinBounds
<1>4. \A i \in 1..4 : IsNearest(b, q, i) => v <= SizeIn(b, q[i])
  BY <1>2 DEF WithinBounds
<1>5. overlay /\ b.used # Unknown => IsNearest(b, q, 1)
  BY <1>2 DEF IsNearest, KnownIn, SizeIn
<1>6. ~(overlay /\ b.used # Unknown) /\ b.span # Unknown => IsNearest(b, q, 2)
  BY <1>2 DEF IsNearest, KnownIn, SizeIn
<1>7. ~(overlay /\ b.used # Unknown) /\ b.span = Unknown /\ b.max # Unknown
        => IsNearest(b, q, 3)
  BY <1>2 DEF IsNearest, KnownIn, SizeIn
<1> QED
  BY <1>2, <1>3, <1>4, <1>5, <1>6, <1>7 DEF SizeIn

\* What the check of a new used size compares it with, in an overlay.
LEMMA BoundsOfUsed ==
    ASSUME NEW b \in [Sizes -> Int], NEW v \in Int, node \in BoxRecord,
           overlay \in BOOLEAN, WithinBounds(b, "used", v)
    PROVE  /\ b.min # Unknown => v >= b.min
           /\ b.span # Unknown => v <= b.span
           /\ b.span = Unknown /\ b.max # Unknown => v <= b.max
<1> DEFINE q == AtMost["used"]
           r == AtLeast["used"]
<1>1. q = <<"span", "max", "parent">> /\ r = <<"min">>
  BY DEF AtMost, AtLeast
<1>2. /\ DOMAIN q = 1..3 /\ q[1] = "span" /\ q[2] = "max"
      /\ DOMAIN r = 1..1 /\ r[1] = "min"
  BY <1>1
<1>3. /\ \A i \in 1..3 : IsNearest(b, q, i) => v <= SizeIn(b, q[i])
      /\ \A i \in 1..1 : IsNearest(b, r, i) => v >= SizeIn(b, r[i])
  BY <1>2 DEF WithinBounds
<1>4. b.min # Unknown => IsNearest(b, r, 1)
  BY <1>2 DEF IsNearest, KnownIn, SizeIn
<1>5. b.span # Unknown => IsNearest(b, q, 1)
  BY <1>2 DEF IsNearest, KnownIn, SizeIn
<1>6. b.span = Unknown /\ b.max # Unknown => IsNearest(b, q, 2)
  BY <1>2 DEF IsNearest, KnownIn, SizeIn
<1> QED
  BY <1>2, <1>3, <1>4, <1>5, <1>6 DEF SizeIn

\* What the check of a new span compares it with.
LEMMA BoundsOfSpan ==
    ASSUME NEW b \in [Sizes -> Int], NEW v \in Int, node \in BoxRecord,
           overlay \in BOOLEAN, WithinBounds(b, "span", v)
    PROVE  /\ overlay /\ b.used # Unknown => v >= b.used
           /\ ~(overlay /\ b.used # Unknown) /\ b.min # Unknown => v >= b.min
           /\ b.max # Unknown => v <= b.max
<1> DEFINE q == AtMost["span"]
           r == AtLeast["span"]
<1>1. q = <<"max", "parent">> /\ r = <<"used", "min">>
  BY DEF AtMost, AtLeast
<1>2. /\ DOMAIN q = 1..2 /\ q[1] = "max"
      /\ DOMAIN r = 1..2 /\ r[1] = "used" /\ r[2] = "min"
  BY <1>1
<1>3. /\ \A i \in 1..2 : IsNearest(b, q, i) => v <= SizeIn(b, q[i])
      /\ \A i \in 1..2 : IsNearest(b, r, i) => v >= SizeIn(b, r[i])
  BY <1>2 DEF WithinBounds
<1>4. overlay /\ b.used # Unknown => IsNearest(b, r, 1)
  BY <1>2 DEF IsNearest, KnownIn, SizeIn
<1>5. ~(overlay /\ b.used # Unknown) /\ b.min # Unknown => IsNearest(b, r, 2)
  BY <1>2 DEF IsNearest, KnownIn, SizeIn
<1>6. b.max # Unknown => IsNearest(b, q, 1)
  BY <1>2 DEF IsNearest, KnownIn, SizeIn
<1> QED
  BY <1>2, <1>3, <1>4, <1>5, <1>6 DEF SizeIn

\* What the check of a new greatest span compares it with.
LEMMA BoundsOfMax ==
    ASSUME NEW b \in [Sizes -> Int], NEW v \in Int, node \in BoxRecord,
           overlay \in BOOLEAN, WithinBounds(b, "max", v)
    PROVE  /\ b.span # Unknown => v >= b.span
           /\ b.span = Unknown /\ overlay /\ b.used # Unknown => v >= b.used
           /\ b.span = Unknown /\ ~(overlay /\ b.used # Unknown)
                /\ b.min # Unknown => v >= b.min
<1> DEFINE r == AtLeast["max"]
<1>1. r = <<"span", "used", "min">>
  BY DEF AtLeast
<1>2. DOMAIN r = 1..3 /\ r[1] = "span" /\ r[2] = "used" /\ r[3] = "min"
  BY <1>1
<1>3. \A i \in 1..3 : IsNearest(b, r, i) => v >= SizeIn(b, r[i])
  BY <1>2 DEF WithinBounds
<1>4. b.span # Unknown => IsNearest(b, r, 1)
  BY <1>2 DEF IsNearest, KnownIn, SizeIn
<1>5. b.span = Unknown /\ overlay /\ b.used # Unknown => IsNearest(b, r, 2)
  BY <1>2 DEF IsNearest, KnownIn, SizeIn
<1>6. b.span = Unknown /\ ~(overlay /\ b.used # Unknown) /\ b.min # Unknown
        => IsNearest(b, r, 3)
  BY <1>2 DEF IsNearest, KnownIn, SizeIn
<1> QED
  BY <1>2, <1>3, <1>4, <1>5, <1>6 DEF SizeIn

\* A size that passes the check leaves the sizes nested.
LEMMA SetKeepsNested ==
    ASSUME NEW b \in [Sizes -> Int], NEW s \in Sizes, NEW v \in Int,
           node \in BoxRecord, overlay \in BOOLEAN, ItemIsOverlay,
           Nested(b), Fits(b, s, v)
    PROVE  Nested(Set(b, s, v)) /\ Set(b, s, v) \in [Sizes -> Int]
<1> DEFINE c == Set(b, s, v)
<1>1. /\ c \in [Sizes -> Int]
      /\ c[s] = v
      /\ \A x \in Sizes \ {s} : c[x] = b[x]
  BY DEF Set
<1>2. Checked => overlay
  BY DEF Checked, ItemIsOverlay
<1>3. s # "used" \/ overlay => WithinBounds(b, s, v)
  BY DEF Fits, AtFiltersDiscretion
<1>4. CASE s = "min"
  BY <1>1, <1>2, <1>3, <1>4, BoundsOfMin DEF Nested, Ordered, Sizes, Unknown
<1>5. CASE s = "used"
  <2>1. CASE overlay
    BY <1>1, <1>2, <1>3, <1>5, <2>1, BoundsOfUsed
      DEF Nested, Ordered, Sizes, Unknown
  <2>2. CASE ~overlay
    BY <1>1, <1>2, <1>5, <2>2 DEF Nested, Ordered, Sizes, Unknown
  <2> QED
    BY <2>1, <2>2
<1>6. CASE s = "span"
  BY <1>1, <1>2, <1>3, <1>6, BoundsOfSpan DEF Nested, Ordered, Sizes, Unknown
<1>7. CASE s = "max"
  BY <1>1, <1>2, <1>3, <1>7, BoundsOfMax DEF Nested, Ordered, Sizes, Unknown
<1>8. CASE s = "slack"
  BY <1>1, <1>8 DEF Nested, Ordered, Sizes, Unknown
<1> QED
  BY <1>1, <1>4, <1>5, <1>6, <1>7, <1>8 DEF Sizes

-----------------------------------------------------------------------------
\* Pushing and popping frames.
LEMMA StackType ==
    ASSUME NEW st \in Seq(Frame), st # <<>>
    PROVE  /\ Head(st) \in Frame
           /\ Tail(st) \in Seq(Frame)
           /\ \A f \in Frame : <<f>> \o Tail(st) \in Seq(Frame)
           /\ \A f, g \in Frame : <<f, g>> \o Tail(st) \in Seq(Frame)
<1>1. Head(st) \in Frame /\ Tail(st) \in Seq(Frame)
  OBVIOUS
<1>2. ASSUME NEW f \in Frame
      PROVE  <<f>> \o Tail(st) \in Seq(Frame)
  <2>1. <<f>> \in Seq(Frame)
    OBVIOUS
  <2> QED
    BY <1>1, <2>1
<1>3. ASSUME NEW f \in Frame, NEW g \in Frame
      PROVE  <<f, g>> \o Tail(st) \in Seq(Frame)
  <2>1. <<f, g>> \in Seq(Frame)
    OBVIOUS
  <2> QED
    BY <1>1, <2>1
<1> QED
  BY <1>1, <1>2, <1>3

\* The part of a state the computations write, once a step leaves node alone.
LEMMA ControlType ==
    ASSUME IInv, stack # <<>>, NEW status \in Status, Return(status)
    PROVE  /\ stack' \in Seq(Frame)
           /\ ret' \in Status
           /\ failed' \subseteq Sizes
           /\ computing' \in BOOLEAN
<1>1. top \in Frame /\ Tail(stack) \in Seq(Frame)
  BY StackType DEF IInv, TypeOK, top
<1>2. top.fn \in Sizes
  BY <1>1 DEF Frame, Functions
<1>3. computing \in BOOLEAN /\ failed \subseteq Sizes
  BY DEF IInv, TypeOK
<1>4. stack' \in Seq(Frame) /\ ret' \in Status
  BY <1>1 DEF Return
<1>5. failed' \subseteq Sizes
  BY <1>2, <1>3 DEF Return
<1>6. computing' \in BOOLEAN
  BY <1>3, Zenon DEF Return
<1> QED
  BY <1>4, <1>5, <1>6

\* What a step keeps when it leaves the node, the overlay and the sizes alone.
LEMMA SameSizes ==
    ASSUME IInv, NoSet,
           stack' \in Seq(Frame), ret' \in Status, failed' \subseteq Sizes,
           computing' \in BOOLEAN
    PROVE  IInv'
BY DEF IInv, TypeOK, NoSet, Same, ItemIsOverlay, Nested, Ordered, Checked,
       UsedBackend, Has

\* A return to the caller, with or without a change of what it answers.
LEMMA DoneKeeps ==
    ASSUME IInv, stack # <<>>, NEW status \in Status, Done(status)
    PROVE  IInv'
BY ControlType, SameSizes DEF Done

\* Going on in the same call.
LEMMA GoKeeps ==
    ASSUME IInv, stack # <<>>, NEW place \in Places, Go(place)
    PROVE  IInv'
<1>1. top \in Frame
  BY StackType DEF IInv, TypeOK, top
<1>2. [fn |-> top.fn, at |-> place] \in Frame
  BY <1>1 DEF Frame
<1>3. stack' \in Seq(Frame)
  BY <1>2, StackType DEF Go, Goto, IInv, TypeOK
<1> QED
  BY <1>3, SameSizes DEF Go, Silent, IInv, TypeOK

\* Calling another computation.
LEMMA AskKeeps ==
    ASSUME IInv, stack # <<>>, NEW f \in Functions, NEW place \in Places,
           Ask(f, place)
    PROVE  IInv'
<1>1. top \in Frame
  BY StackType DEF IInv, TypeOK, top
<1>2. /\ [fn |-> f, at |-> "start"] \in Frame
      /\ [fn |-> top.fn, at |-> place] \in Frame
  BY <1>1 DEF Frame, Places
<1>3. stack' \in Seq(Frame)
  BY <1>2, StackType DEF Ask, Call, IInv, TypeOK
<1> QED
  BY <1>3, SameSizes DEF Ask, Silent, IInv, TypeOK

\* Evaluating an attribute.
LEMMA EvaluateKeeps ==
    ASSUME IInv, stack # <<>>, Evaluate
    PROVE  IInv'
<1>1. CASE node.reads
  BY <1>1, AskKeeps DEF Evaluate, Functions, Sizes, Places
<1>2. CASE ~node.reads
  <2>1. top \in Frame
    BY StackType DEF IInv, TypeOK, top
  <2>2. [fn |-> top.fn, at |-> "expr"] \in Frame
    BY <2>1 DEF Frame, Places
  <2>3. stack' \in Seq(Frame)
    BY <1>2, <2>2, StackType DEF Evaluate, Goto, IInv, TypeOK
  <2> QED
    BY <1>2, <2>3, SameSizes DEF Evaluate, IInv, TypeOK, Status
<1> QED
  BY <1>1, <1>2

\* What a step keeps when it gives the sizes new values that are nested.
LEMMA NewSizes ==
    ASSUME IInv, UNCHANGED <<node, overlay>>, items' \in Int,
           Nested(box'), box' \in [Sizes -> Int],
           stack' \in Seq(Frame), ret' \in Status,
           failed' \subseteq Sizes, computing' \in BOOLEAN
    PROVE  IInv'
BY DEF IInv, TypeOK, ItemIsOverlay, Nested, Ordered, Checked,
       UsedBackend, Has

\* Setting one size and returning, whatever becomes of the count of items.
LEMMA SetKeeps ==
    ASSUME IInv, stack # <<>>, NEW s \in Sizes, NEW v \in Int,
           SetAndReturn(s, v), UNCHANGED <<node, overlay>>, items' \in Int
    PROVE  IInv'
<1>1. CASE Fits(box, s, v)
  <2>1. Return("ok") /\ box' = Set(box, s, v)
    BY <1>1 DEF SetAndReturn
  <2>2. Nested(box') /\ box' \in [Sizes -> Int]
    BY <1>1, <2>1, SetKeepsNested DEF IInv, TypeOK
  <2> QED
    BY <2>1, <2>2, ControlType, NewSizes DEF Status, IInv, TypeOK
<1>2. CASE ~Fits(box, s, v)
  <2>1. Return("error") /\ box' = box
    BY <1>2 DEF SetAndReturn
  <2> QED
    BY <2>1, ControlType, NewSizes DEF Status, IInv, TypeOK
<1> QED
  BY <1>1, <1>2

\* Setting one size and returning.
LEMMA StoreKeeps ==
    ASSUME IInv, stack # <<>>, NEW s \in Sizes, NEW v \in Int, Store(s, v)
    PROVE  IInv'
<1>1. items' \in Int
  BY DEF Store, Same, IInv, TypeOK
<1> QED
  BY <1>1, SetKeeps DEF Store, Same

\* Setting two sizes, the second only if the first is accepted.
LEMMA Store2Keeps ==
    ASSUME IInv, stack # <<>>, NEW s \in Sizes, NEW v \in Int,
           NEW t \in Sizes, NEW w \in Int, Store2(s, v, t, w)
    PROVE  IInv'
<1> DEFINE b == Set(box, s, v)
<1>0. Fits(box, s, v) => Nested(b) /\ b \in [Sizes -> Int]
  BY SetKeepsNested DEF IInv, TypeOK
<1>1. CASE Fits(box, s, v) /\ ~Fits(b, t, w)
  <2>1. Return("error") /\ box' = b /\ Same
    BY <1>1 DEF Store2, SetTwoAndReturn
  <2> QED
    BY <1>0, <1>1, <2>1, ControlType, NewSizes
      DEF Status, IInv, TypeOK, Same
<1>2. CASE Fits(box, s, v) /\ Fits(b, t, w)
  <2>1. Return("ok") /\ box' = Set(b, t, w) /\ Same
    BY <1>2 DEF Store2, SetTwoAndReturn
  <2>2. Nested(box') /\ box' \in [Sizes -> Int]
    <3> HIDE DEF b
    <3> QED
      BY <1>0, <1>2, <2>1, SetKeepsNested DEF IInv, TypeOK
  <2> QED
    BY <2>1, <2>2, ControlType, NewSizes
      DEF Status, IInv, TypeOK, Same
<1>3. CASE ~Fits(box, s, v)
  <2>1. Return("error") /\ box' = box /\ Same
    BY <1>3 DEF Store2, SetTwoAndReturn
  <2> QED
    BY <2>1, ControlType, NewSizes
      DEF Status, IInv, TypeOK, Same
<1> QED
  BY <1>1, <1>2, <1>3

-----------------------------------------------------------------------------
\* The attribute that counts has an integer value.
LEMMA ValueIsInt ==
    ASSUME node \in BoxRecord
    PROVE  /\ Value(MinAttrs) \in Int
           /\ Value(MaxAttrs) \in Int
           /\ Enabled(<<"span">>) => Value(<<"span">>) \in Int
<1>1. node.attr \in [Attrs -> Int]
  BY DEF BoxRecord
<1>2. First(MinAttrs) \in Attrs /\ First(MaxAttrs) \in Attrs
  BY DEF First, MinAttrs, MaxAttrs, Attrs
<1>3. ASSUME Enabled(<<"span">>)
      PROVE  First(<<"span">>) \in Attrs
  <2>1. "span" \in node.enabled
    BY <1>3 DEF Enabled
  <2> QED
    BY <2>1 DEF First, Attrs
<1> QED
  BY <1>1, <1>2, <1>3 DEF Value

\* The children always have a limit: the end of the parent, if nothing else.
LEMMA ChildLimitIsInt ==
    ASSUME TypeOK
    PROVE  ChildLimit \in Int
<1>1. node.parent \in Int /\ node.parent # Unknown
  BY DEF TypeOK, BoxRecord, Unknown
<1>2. \A s \in Sizes : SizeIn(box, s) \in Int
  BY <1>1 DEF TypeOK, SizeIn, Sizes
<1>3. SizeIn(box, "parent") = node.parent
  BY DEF SizeIn
<1>4. CASE computing
  <2> DEFINE q == <<"max", "slack", "parent">>
  <2>1. DOMAIN q = 1..3 /\ q[1] = "max" /\ q[2] = "slack" /\ q[3] = "parent"
    OBVIOUS
  <2>2. \E i \in DOMAIN q : IsClosest(q, i)
    <3>1. CASE SizeIn(box, "max") # Unknown
      BY <2>1, <3>1 DEF IsClosest
    <3>2. CASE SizeIn(box, "max") = Unknown /\ SizeIn(box, "slack") # Unknown
      BY <2>1, <3>2 DEF IsClosest
    <3>3. CASE SizeIn(box, "max") = Unknown /\ SizeIn(box, "slack") = Unknown
      BY <1>1, <1>3, <2>1, <3>3 DEF IsClosest
    <3> QED
      BY <3>1, <3>2, <3>3
  <2>3. \A i \in DOMAIN q : SizeIn(box, q[i]) \in Int
    BY <1>1, <1>2, <1>3, <2>1 DEF Sizes
  <2>4. KnownEnd(q) \in Int
    BY <2>2, <2>3 DEF KnownEnd
  <2> QED
    BY <1>4, <2>4 DEF ChildLimit
<1>5. CASE ~computing
  <2> DEFINE q == <<"used", "span", "max", "slack", "parent">>
  <2>1. /\ DOMAIN q = 1..5
        /\ q[1] = "used" /\ q[2] = "span" /\ q[3] = "max" /\ q[4] = "slack"
        /\ q[5] = "parent"
    OBVIOUS
  <2>2. \E i \in DOMAIN q : IsClosest(q, i)
    <3> DEFINE U(s) == SizeIn(box, s) = Unknown
    <3>1. CASE ~U("used")
      BY <2>1, <3>1 DEF IsClosest
    <3>2. CASE U("used") /\ ~U("span")
      BY <2>1, <3>2 DEF IsClosest
    <3>3. CASE U("used") /\ U("span") /\ ~U("max")
      BY <2>1, <3>3 DEF IsClosest
    <3>4. CASE U("used") /\ U("span") /\ U("max") /\ ~U("slack")
      BY <2>1, <3>4 DEF IsClosest
    <3>5. CASE U("used") /\ U("span") /\ U("max") /\ U("slack")
      BY <1>1, <1>3, <2>1, <3>5 DEF IsClosest
    <3> QED
      BY <3>1, <3>2, <3>3, <3>4, <3>5
  <2>3. \A i \in DOMAIN q : SizeIn(box, q[i]) \in Int
    BY <1>1, <1>2, <1>3, <2>1 DEF Sizes
  <2>4. KnownEnd(q) \in Int
    BY <2>2, <2>3 DEF KnownEnd
  <2> QED
    BY <1>5, <2>4 DEF ChildLimit
<1> QED
  BY <1>4, <1>5

-----------------------------------------------------------------------------
\* The computation of the least span.
LEMMA MinKeeps ==
    ASSUME IInv, MinStart \/ MinExpr
    PROVE  IInv'
<1>1. node \in BoxRecord /\ node.hard \in Int
  BY DEF IInv, TypeOK, BoxRecord
<1>2. CASE MinStart
  <2>1. stack # <<>>
    BY <1>2 DEF MinStart, At
  <2>2. Done("ok") \/ Store("min", node.hard) \/ Evaluate
    BY <1>2 DEF MinStart
  <2> QED
    BY <1>1, <2>1, <2>2, DoneKeeps, StoreKeeps, EvaluateKeeps DEF Sizes, Status
<1>3. CASE MinExpr
  <2>1. stack # <<>>
    BY <1>3 DEF MinExpr, At
  <2>2. \/ Done("error")
        \/ Store("min", node.hard)
        \/ Store2("min", Value(MinAttrs), "max", Value(MinAttrs))
        \/ Store("min", Value(MinAttrs))
    BY <1>3 DEF MinExpr, Failed
  <2> QED
    BY <1>1, <2>1, <2>2, ValueIsInt, DoneKeeps, StoreKeeps, Store2Keeps
      DEF Sizes, Status
<1> QED
  BY <1>2, <1>3

\* The computation of the span.
LEMMA SpanKeeps ==
    ASSUME IInv,
           \/ SpanStart \/ SpanAfterMin \/ SpanAfterMax \/ SpanCallBackend
           \/ SpanExpr \/ SpanAfterCall
    PROVE  IInv'
<1>1. /\ node \in BoxRecord /\ node.content \in Int
      /\ \A s \in Sizes : box[s] \in Int
  BY DEF IInv, TypeOK, BoxRecord
<1>2. stack # <<>>
  BY DEF SpanStart, SpanAfterMin, SpanAfterMax, SpanCallBackend, SpanExpr,
         SpanAfterCall, At
<1>3. CASE SpanStart
  <2>1. Done("ok") \/ Ask("min", "min")
    BY <1>3 DEF SpanStart
  <2> QED
    BY <1>2, <2>1, DoneKeeps, AskKeeps
      DEF Sizes, Status, Functions, Places
<1>4. CASE SpanAfterMin
  <2>1. Done("error") \/ Go("backend") \/ Ask("max", "max")
    BY <1>4 DEF SpanAfterMin, Failed
  <2> QED
    BY <1>2, <2>1, DoneKeeps, AskKeeps, GoKeeps
      DEF Sizes, Status, Functions, Places
<1>5. CASE SpanAfterMax
  <2>1. Done("error") \/ Store("span", box["max"]) \/ Go("backend")
    BY <1>5 DEF SpanAfterMax, Failed
  <2> QED
    BY <1>1, <1>2, <2>1, DoneKeeps, StoreKeeps, GoKeeps
      DEF Sizes, Status, Places
<1>6. CASE SpanCallBackend
  <2>1. \/ Evaluate \/ Ask("used", "used") \/ Ask("slack", "slack")
        \/ Ask("max", "item")
    BY <1>6 DEF SpanCallBackend
  <2> QED
    BY <1>2, <2>1, EvaluateKeeps, AskKeeps DEF Sizes, Functions, Places
<1>7. CASE SpanExpr
  <2>1. \/ Done("error") \/ Ask("used", "used")
        \/ Enabled(<<"span">>) /\ Store("span", Value(<<"span">>))
    BY <1>7 DEF SpanExpr, Failed
  <2> QED
    BY <1>1, <1>2, <2>1, ValueIsInt, DoneKeeps, StoreKeeps, AskKeeps
      DEF Sizes, Status, Functions, Places
<1>8. CASE SpanAfterCall
  <2>1. \/ Done("error") \/ Store("span", box["used"])
        \/ Store("span", box["slack"]) \/ Store("span", node.content)
    BY <1>8 DEF SpanAfterCall, Failed
  <2> QED
    BY <1>1, <1>2, <2>1, DoneKeeps, StoreKeeps DEF Sizes, Status
<1> QED
  BY <1>3, <1>4, <1>5, <1>6, <1>7, <1>8

\* The computation of the most the box may span.
LEMMA MaxKeeps ==
    ASSUME IInv,
           \/ MaxStart \/ MaxCallBackend \/ MaxExpr \/ MaxBound \/ MaxAfterCall
    PROVE  IInv'
<1>1. node \in BoxRecord /\ \A s \in Sizes : box[s] \in Int
  BY DEF IInv, TypeOK
<1>2. stack # <<>>
  BY DEF MaxStart, MaxCallBackend, MaxExpr, MaxBound, MaxAfterCall, At
<1>3. CASE MaxStart
  <2>1. CASE MaxIsDone
    BY <1>2, <1>3, <2>1, DoneKeeps DEF MaxStart, Status
  <2>2. CASE ~MaxIsDone
    <3>1. top \in Frame
      BY <1>2, StackType DEF IInv, TypeOK, top
    <3>2. [fn |-> top.fn, at |-> "backend"] \in Frame
      BY <3>1 DEF Frame, Places
    <3>3. stack' \in Seq(Frame)
      BY <1>2, <1>3, <2>2, <3>2, StackType DEF MaxStart, Goto, IInv, TypeOK
    <3> QED
      BY <1>3, <2>2, <3>3, SameSizes DEF MaxStart, IInv, TypeOK
  <2> QED
    BY <2>1, <2>2
<1>4. CASE MaxCallBackend
  <2>1. Evaluate \/ Ask("span", "span") \/ Ask("slack", "slack")
    BY <1>4 DEF MaxCallBackend
  <2> QED
    BY <1>2, <2>1, EvaluateKeeps, AskKeeps DEF Sizes, Functions, Places
<1>5. CASE MaxExpr
  <2>1. Done("error") \/ Ask("slack", "slack") \/ Ask("slack", "bound")
    BY <1>5 DEF MaxExpr, Failed
  <2> QED
    BY <1>2, <2>1, DoneKeeps, AskKeeps DEF Sizes, Status, Functions, Places
<1>6. CASE MaxBound
  <2> DEFINE v == Lesser(Value(MaxAttrs), box["slack"])
  <2>1. v \in Int
    BY <1>1, ValueIsInt DEF Lesser, Sizes
  <2>2. \/ Done("error")
        \/ Store2("max", v, "min", Value(MaxAttrs))
        \/ Store("max", v)
    BY <1>6 DEF MaxBound, Failed
  <2> HIDE DEF v
  <2> QED
    BY <1>1, <1>2, <2>1, <2>2, ValueIsInt, DoneKeeps, StoreKeeps, Store2Keeps
      DEF Sizes, Status
<1>7. CASE MaxAfterCall
  <2>1. \/ Done("error") \/ Store("max", box["span"])
        \/ Store("max", box["slack"])
    BY <1>7 DEF MaxAfterCall, Failed
  <2> QED
    BY <1>1, <1>2, <2>1, DoneKeeps, StoreKeeps DEF Sizes, Status
<1> QED
  BY <1>3, <1>4, <1>5, <1>6, <1>7

\* The computation of the used size.
LEMMA UsedKeeps ==
    ASSUME IInv,
           \/ UsedStart \/ UsedAfterCall \/ UsedOfSlack
           \/ UsedOfContents \/ UsedByFilter
    PROVE  IInv'
<1>1. /\ node \in BoxRecord
      /\ node.content \in Int /\ node.hard \in Int /\ node.out \in Int
      /\ node.parent \in Int /\ items \in Int
      /\ \A s \in Sizes : box[s] \in Int
  BY DEF IInv, TypeOK, BoxRecord
<1>2. stack # <<>>
  BY DEF UsedStart, UsedAfterCall, UsedOfSlack, UsedOfContents, UsedByFilter,
         At
<1>3. CASE UsedStart
  <2>1. \/ Done("ok") \/ Store("used", node.hard) \/ Store("used", node.content)
        \/ Ask("max", "max") \/ Ask("slack", "slack") \/ Ask("span", "span")
        \/ Store("used", items) \/ Go("contents") \/ Ask("max", "contents")
        \/ Ask("span", "apply") \/ Ask("max", "apply")
    BY <1>3 DEF UsedStart
  <2> QED
    BY <1>1, <1>2, <2>1, DoneKeeps, StoreKeeps, AskKeeps, GoKeeps
      DEF Sizes, Status, Functions, Places
<1>4. CASE UsedAfterCall
  <2> DEFINE v == IF UsedBackend = "asMaxSpan" THEN box["max"]
                  ELSE box["max"] - (box["max"] % ItemSize)
  <2>1. box["max"] \in Int
    BY <1>1 DEF Sizes
  <2>2. box["max"] - (box["max"] % ItemSize) \in Int
    BY <2>1 DEF ItemSize
  <2>3. v \in Int
    <3> HIDE DEF UsedBackend
    <3> QED
      BY <2>1, <2>2
  <2>4. Done("error") \/ Store("used", v) \/ Store("used", box["span"])
    BY <1>4 DEF UsedAfterCall, Failed
  <2> HIDE DEF v
  <2> QED
    BY <1>1, <1>2, <2>3, <2>4, DoneKeeps, StoreKeeps DEF Sizes, Status
<1>5. CASE UsedOfContents
  <2>1. \/ Done("error") \/ Store("used", ChildLimit)
        \/ Store("used", node.content)
    BY <1>5 DEF UsedOfContents, Failed
  <2>2. ChildLimit \in Int
    BY ChildLimitIsInt DEF IInv
  <2> QED
    BY <1>1, <1>2, <2>1, <2>2, DoneKeeps, StoreKeeps DEF Sizes, Status
<1>6. CASE UsedByFilter
  <2>1. CASE Failed
    BY <1>2, <2>1, DoneKeeps DEF Failed, Status
  <2>2. CASE /\ box' = Set(box, "used", node.out) /\ Return("ok")
             /\ overlay' = (overlay \/ Has("inside")) /\ UNCHANGED <<node, items>>
             /\ UsedBackend = "apply"
    <3>1. box' \in [Sizes -> Int] /\ \A s \in Sizes \ {"used"} : box'[s] = box[s]
      BY <1>1, <2>2 DEF Set, IInv, TypeOK
    <3>2. ~Checked /\ ~Checked'
      BY <2>2 DEF Checked, UsedBackend, Has
    <3>3. TypeOK' /\ ItemIsOverlay'
      <4>1. stack' \in Seq(Frame) /\ ret' \in Status /\ failed' \subseteq Sizes
            /\ computing' \in BOOLEAN
        BY <1>2, <2>2, ControlType DEF Status, IInv, TypeOK
      <4>2. overlay' \in BOOLEAN /\ (node.item => overlay')
        BY <2>2 DEF IInv, TypeOK, ItemIsOverlay
      <4> QED
        BY <2>2, <3>1, <4>1, <4>2 DEF IInv, TypeOK, ItemIsOverlay
    <3>4. Nested(box)'
      <4>1. ~overlay' => ~overlay
        BY <2>2
      <4>2. /\ (box'.min # Unknown => box'.min >= node'.hard)
            /\ (~overlay' => /\ Ordered(box', "min", "span") /\ Ordered(box', "min", "max")
                            /\ Ordered(box', "span", "max"))
        BY <2>2, <3>1, <4>1 DEF IInv, Nested, Ordered, Sizes
      <4> QED
        BY <3>2, <4>2 DEF Nested, Ordered
    <3> QED
      BY <3>3, <3>4 DEF IInv
  <2>3. CASE /\ overlay' = TRUE /\ Call("span", "span")
             /\ UNCHANGED <<node, box, items, ret, failed, computing>>
             /\ UsedBackend = "apply"
    <3>1. top \in Frame
      BY <1>2, StackType DEF IInv, TypeOK, top
    <3>2. /\ [fn |-> "span", at |-> "start"] \in Frame
          /\ [fn |-> top.fn, at |-> "span"] \in Frame
      BY <3>1 DEF Frame, Places, Functions, Sizes
    <3>3. stack' \in Seq(Frame)
      BY <1>2, <2>3, <3>2, StackType DEF Call, IInv, TypeOK
    <3>4. TypeOK' /\ ItemIsOverlay'
      BY <2>3, <3>3 DEF IInv, TypeOK, ItemIsOverlay
    <3>5. ~Checked /\ ~Checked' /\ overlay'
      BY <2>3 DEF Checked, UsedBackend, Has
    <3>6. Nested(box)'
      BY <2>3, <3>5 DEF IInv, Nested
    <3> QED
      BY <3>4, <3>6 DEF IInv
  <2>4. UsedBackend = "apply"
    BY <1>6 DEF UsedByFilter
  <2> QED
    BY <1>6, <2>1, <2>2, <2>3, <2>4 DEF UsedByFilter
<1>7. CASE UsedOfSlack
  <2>1. SlackItems \in Int
    <3>1. box["slack"] \in Int /\ box["span"] \in Int
      BY <1>1 DEF Sizes
    <3> QED
      BY <1>1, <3>1 DEF SlackItems
  <2>2. CASE Failed
    BY <1>2, <2>2, DoneKeeps DEF Failed, Status
  <2>3. CASE /\ items' = SlackItems /\ SetAndReturn("used", SlackItems)
             /\ UNCHANGED <<node, overlay>>
    BY <1>2, <2>1, <2>3, SetKeeps DEF Sizes
  <2> QED
    BY <1>7, <2>2, <2>3 DEF UsedOfSlack
<1> QED
  BY <1>3, <1>4, <1>5, <1>6, <1>7

\* The space the parent allots, a new query, and the filter of a box applied.
LEMMA OtherKeeps ==
    ASSUME IInv, SlackStart \/ ApplyOverlay \/ (\E s \in Sizes : Query(s))
    PROVE  IInv'
<1>1. CASE SlackStart
  <2>1. stack # <<>> /\ node.alloc \in Int
    BY <1>1 DEF SlackStart, At, IInv, TypeOK, BoxRecord
  <2>2. Done("ok") \/ Done("error") \/ Store("slack", node.alloc)
    BY <1>1 DEF SlackStart
  <2> QED
    BY <2>1, <2>2, DoneKeeps, StoreKeeps DEF Sizes, Status
<1>2. CASE ApplyOverlay
  <2>1. ~node.item /\ overlay' = TRUE
    BY <1>2 DEF ApplyOverlay, IInv, ItemIsOverlay
  <2>2. ~Checked' /\ node' = node /\ box' = box
    BY <1>2, <2>1 DEF ApplyOverlay, Checked
  <2>3. Nested(box)'
    BY <2>1, <2>2 DEF IInv, Nested
  <2> QED
    BY <1>2, <2>1, <2>2, <2>3 DEF ApplyOverlay, IInv, TypeOK, ItemIsOverlay
<1>3. ASSUME NEW s \in Sizes, Query(s)
      PROVE  IInv'
  <2>1. [fn |-> s, at |-> "start"] \in Frame
    BY DEF Frame, Functions, Places
  <2>2. stack' \in Seq(Frame)
    BY <1>3, <2>1 DEF Query
  <2> QED
    BY <1>3, <2>2, SameSizes DEF Query, Silent, IInv, TypeOK
<1> QED
  BY <1>1, <1>2, <1>3

\* A box that was just made has no size to compare.
LEMMA InitIInv == Init => IInv
<1> SUFFICES ASSUME Init PROVE IInv
  OBVIOUS
<1>1. TypeOK
  <2>1. node \in BoxRecord
    BY BoxesAssumption DEF Init
  <2>2. overlay \in BOOLEAN
    BY <2>1 DEF Init, BoxRecord
  <2>3. box \in [Sizes -> Int]
    BY DEF Init, Unknown
  <2>4. computing \in BOOLEAN
    BY DEF Init
  <2>7. items \in Int
    BY DEF Init, Unknown
  <2>6. stack \in Seq(Frame)
    <3>1. << >> \in Seq(Frame)
      OBVIOUS
    <3> QED
      BY <3>1 DEF Init
  <2>5. ret \in Status /\ failed \subseteq Sizes
    BY DEF Init, Status
  <2> QED
    BY <2>1, <2>2, <2>3, <2>4, <2>5, <2>6, <2>7 DEF TypeOK
<1>2. \A s \in Sizes : box[s] = Unknown
  BY DEF Init
<1>3. Nested(box)
  BY <1>2 DEF Nested, Ordered, Sizes
<1> QED
  BY <1>1, <1>3 DEF Init, IInv, ItemIsOverlay

\* Every step keeps the inductive invariant.
LEMMA NextIInv == IInv /\ [Next]_vars => IInv'
<1> SUFFICES ASSUME IInv, [Next]_vars PROVE IInv'
  OBVIOUS
<1>1. CASE MinStart \/ MinExpr
  BY <1>1, MinKeeps
<1>2. CASE \/ SpanStart \/ SpanAfterMin \/ SpanAfterMax \/ SpanCallBackend
           \/ SpanExpr \/ SpanAfterCall
  BY <1>2, SpanKeeps
<1>3. CASE \/ MaxStart \/ MaxCallBackend \/ MaxExpr \/ MaxBound \/ MaxAfterCall
  BY <1>3, MaxKeeps
<1>4. CASE \/ UsedStart \/ UsedAfterCall \/ UsedOfSlack
           \/ UsedOfContents \/ UsedByFilter
  BY <1>4, UsedKeeps
<1>5. CASE SlackStart \/ ApplyOverlay \/ (\E s \in Sizes : Query(s))
  BY <1>5, OtherKeeps
<1>6. CASE UNCHANGED vars
  <2>1. NoSet /\ stack' = stack /\ ret' = ret /\ failed' = failed
          /\ computing' = computing
    BY <1>6 DEF vars, NoSet, Same
  <2> QED
    BY <2>1, SameSizes DEF IInv, TypeOK
<1> QED
  BY <1>1, <1>2, <1>3, <1>4, <1>5, <1>6 DEF Next, Step

\* The state of a box being sized always has its type.
THEOREM TypeCorrect == Spec => []TypeOK
<1>1. IInv => TypeOK
  BY DEF IInv
<1> QED
  BY <1>1, InitIInv, NextIInv, PTL DEF Spec

\* Whatever sizes are asked for, in whatever order and with whatever failures,
\* the known sizes of every box stay nested (box_check_end_offset() is enough,
\* though it looks at one neighbour on each side only).
THEOREM SizesNestedAlways == Spec => []SizesNested
<1>1. IInv => SizesNested
  BY DEF IInv, Nested, Ordered, SizesNested, InOrder
<1> QED
  BY <1>1, InitIInv, NextIInv, PTL DEF Spec

-----------------------------------------------------------------------------
(***************************************************************************)
(* The sizes do not depend on the order in which they are asked for, and a *)
(* computation that reports success has made its size known.               *)
(*                                                                         *)
(* Unlike the nesting of the sizes, which one comparison keeps, these need *)
(* the whole recursion: where a function goes on is where its node takes   *)
(* it (GoodFrames), with the answer it asked for (Calls, Answered), one    *)
(* computation of the greatest span at a time (OneComputes), above which   *)
(* nothing asks for a span or a used size unless the node has a fixed size *)
(* (Above), and an error stops every caller (ErrorsGoUp).                  *)
(***************************************************************************)

\* Nothing ever failed, and the attributes agree: what OrderDoesNotMatter is
\* about.
Sound == failed = {} /\ ret = "ok" /\ Consistent

\* What a function may have called from the place where it goes on.
CalledAt(place) ==
    CASE place \in Sizes -> {place}
      [] place \in {"expr", "item", "contents"} -> {"max"}
      [] place = "bound" -> {"slack"}
      [] place = "apply" -> {"max", "span"}
      [] OTHER -> {}

\* The frame that has set COMPUTING_SPAN_SIZE.
Computes(f) == f.fn = "max" /\ f.at # "start"

-----------------------------------------------------------------------------
\* A frame is where its node takes it.
MinFrame(f) ==
    \/ f.at = "start"
    \/ f.at = "expr" /\ MinBackend = "expr"

\* The bounds do not decide the span: its backend does.
Apart == MinOf # MaxOf \/ MaxBackend = "asSpan"

SpanFrame(f) ==
    \/ f.at \in {"start", "min"}
    \/ f.at = "max" /\ box.min # Unknown
    \/ /\ Sound => Apart
       /\ \/ f.at = "backend"
          \/ f.at = "expr" /\ SpanBackend = "expr"
          \/ f.at = "used" /\ SpanBackend = "asUsed"
          \/ f.at = "used" /\ SpanBackend = "expr" /\ ~Enabled(<<"span">>)
          \/ f.at = "slack" /\ SpanBackend = "asSlack"
          \/ f.at = "item" /\ SpanBackend = "itemSize"

MaxFrame(f) ==
    \/ f.at \in {"start", "backend"}
    \/ f.at = "expr" /\ MaxBackend = "expr"
    \/ f.at = "bound" /\ MaxBackend = "expr" /\ Enabled(MaxAttrs) /\ ~Bad(MaxAttrs)
    \/ f.at = "slack" /\ MaxBackend = "expr" /\ ~Enabled(MaxAttrs)
    \/ f.at = "slack" /\ MaxBackend = "asSlack"
    \/ f.at = "span" /\ MaxBackend = "asSpan"

UsedFrame(f) ==
    \/ f.at = "start"
    \/ f.at = "max" /\ UsedBackend \in {"asMaxSpan", "slackItems"}
    \/ f.at = "slack" /\ UsedBackend = "asSlack"
    \/ f.at = "span" /\ UsedBackend = "asSpan"
    \/ f.at = "span" /\ UsedBackend = "apply" /\ ~Has("data")
    \/ f.at = "contents" /\ UsedBackend = "contents" /\ ~Has("constItems")
    \/ f.at = "apply" /\ UsedBackend = "apply"

GoodFrame(f) ==
    /\ f.fn = "min" => MinFrame(f)
    /\ f.fn = "span" => SpanFrame(f)
    /\ f.fn = "max" => MaxFrame(f)
    /\ f.fn = "used" => UsedFrame(f)
    /\ f.fn = "slack" => f.at = "start"

Good == {f \in Frame : GoodFrame(f)}

-----------------------------------------------------------------------------
\* The inductive invariant: the calls.
GoodFrames == \A k \in 1 .. Len(stack) : stack[k] \in Good

Calls == \A k \in 2 .. Len(stack) : stack[k - 1].fn \in CalledAt(stack[k].at)

OneComputes ==
    computing <=> \E k \in 1 .. Len(stack) : Computes(stack[k])

Above ==
    \A j, k \in 1 .. Len(stack) :
        j < k /\ Computes(stack[k]) =>
            /\ ~Computes(stack[j])
            /\ stack[j].fn \in {"span", "used"} => MaxBackend = "asSpan"

StackInv == GoodFrames /\ Calls /\ OneComputes /\ Above

\* The inductive invariant: what the calls answer.
Answered ==
    stack # <<>> /\ ret = "ok" =>
        /\ top.at \in Sizes =>
              box[top.at] # Unknown \/ (top.at = "max" /\ computing)
        /\ top.at = "bound" => box.slack # Unknown
        /\ top.at = "contents" => box.max # Unknown \/ computing

ErrorsGoUp ==
    failed = {} /\ ret = "error" => stack # <<>> /\ CalledAt(top.at) # {}

\* The inductive invariant: the sizes.
Natural(v) == v = Unknown \/ v \in Nat

NaturalSizes == (\A s \in Sizes : Natural(box[s])) /\ Natural(items)

SlackIsAlloc ==
    box.slack # Unknown => box.slack = node.alloc /\ node.alloc <= node.parent

SizesRight ==
    Sound => /\ \A s \in Sizes : box[s] # Unknown => box[s] = SizeOf[s]
             /\ items # Unknown => items = node.alloc

SizesInv == NaturalSizes /\ SlackIsAlloc /\ SizesRight

EnabledDeclared == node.enabled \subseteq node.declared

OrderInv ==
    /\ IInv /\ EnabledDeclared
    /\ StackInv /\ Answered /\ ErrorsGoUp /\ SizesInv

\* A computation that ends without an error, and nobody waits for, has made the
\* size it was asked for known.
Answers ==
    Len(stack) = 1 /\ stack' = <<>> /\ ret' = "ok" => box'[top.fn] # Unknown

-----------------------------------------------------------------------------
\* What a node says of itself, and of its sizes, changes with the node only.
LEMMA SameNode ==
    ASSUME node' = node
    PROVE  /\ MinBackend' = MinBackend /\ SpanBackend' = SpanBackend
           /\ MaxBackend' = MaxBackend /\ UsedBackend' = UsedBackend
           /\ MinOf' = MinOf /\ MaxOf' = MaxOf /\ SizeOf' = SizeOf
           /\ (Consistent' <=> Consistent)
           /\ (EnabledDeclared' <=> EnabledDeclared)
<1>1. /\ MinBackend' = MinBackend /\ SpanBackend' = SpanBackend
      /\ MaxBackend' = MaxBackend /\ UsedBackend' = UsedBackend
  BY DEF MinBackend, SpanBackend, MaxBackend, UsedBackend, Has
<1>2. MinOf' = MinOf /\ MaxOf' = MaxOf
  BY <1>1 DEF MinOf, MaxOf, OneOf, Enabled, Value, First
<1>3. \A u : UsedOr(u)' = UsedOr(u)
  BY <1>1, <1>2 DEF UsedOr, Has
<1>4. SpanOf' = SpanOf
  BY <1>1, <1>2, <1>3 DEF SpanOf, OneOf, Enabled, Value, First, UsedOr, Has
<1>5. UsedOr(SpanOf)' = UsedOr(SpanOf)
  BY <1>1, <1>2, <1>4 DEF UsedOr, Has
<1> QED
  BY <1>1, <1>2, <1>4, <1>5 DEF SizeOf, Consistent, EnabledDeclared

\* A good frame stays good while the least span stays known.
LEMMA FramesStay ==
    ASSUME node' = node, Sound' => Sound, box.min # Unknown => box'.min # Unknown
    PROVE  Good \subseteq Good'
<1> SUFFICES ASSUME NEW f \in Frame, GoodFrame(f)
             PROVE  GoodFrame(f)'
  BY DEF Good
<1>1. MinFrame(f) => MinFrame(f)'
  BY SameNode DEF MinFrame
<1>2. SpanFrame(f) => SpanFrame(f)'
  BY SameNode DEF SpanFrame, Apart, Enabled
<1>3. MaxFrame(f) => MaxFrame(f)'
  BY SameNode DEF MaxFrame, Enabled, Bad, Value, First
<1>4. UsedFrame(f) => UsedFrame(f)'
  BY SameNode DEF UsedFrame, Has
<1> QED
  BY <1>1, <1>2, <1>3, <1>4 DEF GoodFrame

-----------------------------------------------------------------------------
\* Where the frames are after a frame changes its place, calls or returns.
LEMMA Places1 ==
    ASSUME NEW S, NEW st \in Seq(S), st # <<>>, NEW g \in S
    PROVE  LET s == <<g>> \o Tail(st)
           IN  /\ s \in Seq(S) /\ Len(s) = Len(st) /\ s[1] = g
               /\ \A k \in 2 .. Len(st) : s[k] = st[k]
<1> DEFINE s == <<g>> \o Tail(st)
<1>1. Tail(st) \in Seq(S) /\ Len(Tail(st)) = Len(st) - 1 /\ Len(st) \in Nat \ {0}
      /\ \A k \in 1 .. (Len(st) - 1) : Tail(st)[k] = st[k + 1]
  OBVIOUS
<1>2. <<g>> \in Seq(S) /\ Len(<<g>>) = 1 /\ <<g>>[1] = g
  OBVIOUS
<1>3. s \in Seq(S) /\ Len(s) = Len(st) /\ s[1] = g
  BY <1>1, <1>2
<1>4. ASSUME NEW k \in 2 .. Len(st) PROVE s[k] = st[k]
  <2>1. k - 1 \in 1 .. (Len(st) - 1) /\ (k - 1) + 1 = k
    BY <1>1
  <2>2. s[k] = Tail(st)[k - 1]
    BY <1>1, <1>2, <2>1
  <2> QED
    BY <1>1, <2>1, <2>2
<1> QED
  BY <1>3, <1>4

\* The same, with a new frame on top.
LEMMA Places2 ==
    ASSUME NEW S, NEW st \in Seq(S), st # <<>>, NEW f \in S, NEW g \in S
    PROVE  LET s == <<f, g>> \o Tail(st)
           IN  /\ s \in Seq(S) /\ Len(s) = Len(st) + 1 /\ s[1] = f /\ s[2] = g
               /\ \A k \in 3 .. (Len(st) + 1) : s[k] = st[k - 1]
<1> DEFINE s == <<f, g>> \o Tail(st)
<1>1. Tail(st) \in Seq(S) /\ Len(Tail(st)) = Len(st) - 1 /\ Len(st) \in Nat \ {0}
      /\ \A k \in 1 .. (Len(st) - 1) : Tail(st)[k] = st[k + 1]
  OBVIOUS
<1>2. <<f, g>> \in Seq(S) /\ Len(<<f, g>>) = 2 /\ <<f, g>>[1] = f /\ <<f, g>>[2] = g
  OBVIOUS
<1>3. s \in Seq(S) /\ Len(s) = Len(st) + 1 /\ s[1] = f /\ s[2] = g
  BY <1>1, <1>2
<1>4. ASSUME NEW k \in 3 .. (Len(st) + 1) PROVE s[k] = st[k - 1]
  <2>1. k - 2 \in 1 .. (Len(st) - 1) /\ (k - 2) + 1 = k - 1
    BY <1>1
  <2>2. s[k] = Tail(st)[k - 2]
    BY <1>1, <1>2, <2>1
  <2> QED
    BY <1>1, <2>1, <2>2
<1> QED
  BY <1>3, <1>4

\* The same, without the frame on top.
LEMMA Places0 ==
    ASSUME NEW S, NEW st \in Seq(S), st # <<>>
    PROVE  /\ Tail(st) \in Seq(S) /\ Len(Tail(st)) = Len(st) - 1
           /\ Len(st) \in Nat \ {0} /\ Head(st) = st[1]
           /\ \A k \in 1 .. (Len(st) - 1) : Tail(st)[k] = st[k + 1]
OBVIOUS
\* A function goes on in another place: max may be the one that sets
\* COMPUTING_SPAN_SIZE.
LEMMA Moved ==
    ASSUME stack \in Seq(Frame), StackInv, stack # <<>>,
           NEW place \in Places \ {"start"}, Goto(place),
           node' = node, Good \subseteq Good',
           [fn |-> top.fn, at |-> place] \in Good',
           computing' <=> computing \/ top.fn = "max",
           top.fn = "max" /\ top.at = "start" => ~computing
    PROVE  StackInv'
<1> DEFINE g == [fn |-> top.fn, at |-> place]
<1>0. g \in Frame
  BY DEF Good
<1>1. /\ Len(stack') = Len(stack) /\ stack'[1] = g /\ Len(stack) \in Nat \ {0}
      /\ \A k \in 2 .. Len(stack) : stack'[k] = stack[k]
  BY <1>0, Places1, Places0 DEF Goto
<1>2. top = stack[1] /\ g.fn = top.fn /\ g.at = place
  BY Places0 DEF top
<1> HIDE DEF g
<1>3. GoodFrames'
  BY <1>1 DEF GoodFrames, StackInv, g
<1>4. Calls'
  <2> SUFFICES ASSUME NEW k \in 2 .. Len(stack)
               PROVE  stack'[k - 1].fn \in CalledAt(stack'[k].at)
    BY <1>1 DEF Calls
  <2>1. stack[k - 1].fn \in CalledAt(stack[k].at) /\ stack'[k] = stack[k]
    BY <1>1 DEF StackInv, Calls
  <2>2. stack'[k - 1].fn = stack[k - 1].fn
    <3>1. CASE k = 2
      BY <1>1, <1>2, <3>1
    <3>2. CASE k # 2
      BY <1>1, <3>2
    <3> QED
      BY <3>1, <3>2
  <2> QED
    BY <2>1, <2>2
<1>5. OneComputes'
  <2>1. CASE top.fn = "max"
    <3>1. Computes(stack'[1])
      BY <1>1, <1>2, <2>1 DEF Computes
    <3> QED
      BY <1>1, <2>1, <3>1 DEF OneComputes
  <2>2. CASE top.fn # "max"
    <3>1. ~Computes(stack'[1]) /\ ~Computes(stack[1])
      BY <1>1, <1>2, <2>2 DEF Computes
    <3>2. \A k \in 1 .. Len(stack) : Computes(stack'[k]) <=> Computes(stack[k])
      BY <1>1, <3>1
    <3> QED
      BY <1>1, <2>2, <3>2 DEF OneComputes, StackInv
  <2> QED
    BY <2>1, <2>2
<1>6. Above'
  <2> SUFFICES ASSUME NEW j \in 1 .. Len(stack), NEW k \in 1 .. Len(stack), j < k,
                      Computes(stack'[k])
               PROVE  /\ ~Computes(stack'[j])
                      /\ stack'[j].fn \in {"span", "used"} => MaxBackend = "asSpan"
    BY <1>1, SameNode DEF Above
  <2>1. Computes(stack[k]) /\ k \in 2 .. Len(stack)
    BY <1>1
  <2>2. /\ ~Computes(stack[j]) /\ computing
        /\ stack[j].fn \in {"span", "used"} => MaxBackend = "asSpan"
    BY <2>1 DEF StackInv, Above, OneComputes
  <2>3. CASE j = 1
    BY <1>1, <1>2, <2>2, <2>3 DEF Computes
  <2>4. CASE j # 1
    BY <1>1, <2>2, <2>4
  <2> QED
    BY <2>3, <2>4
<1> QED
  BY <1>3, <1>4, <1>5, <1>6 DEF StackInv

\* A function calls another.
LEMMA Pushed ==
    ASSUME stack \in Seq(Frame), StackInv, stack # <<>>,
           NEW f \in Functions, NEW place \in Places \ {"start"},
           Call(f, place), f \in CalledAt(place),
           node' = node, Good \subseteq Good', computing' = computing,
           [fn |-> top.fn, at |-> place] \in Good',
           top.fn = "max" => top.at # "start",
           f \in {"span", "used"} /\ computing => MaxBackend = "asSpan"
    PROVE  StackInv'
<1> DEFINE g == [fn |-> top.fn, at |-> place]
           h == [fn |-> f, at |-> "start"]
<1>0. g \in Frame /\ h \in Frame
  BY DEF Good, Frame, Places
<1>1. /\ Len(stack') = Len(stack) + 1 /\ stack'[1] = h /\ stack'[2] = g
      /\ \A k \in 3 .. (Len(stack) + 1) : stack'[k] = stack[k - 1]
      /\ Len(stack) \in Nat \ {0}
  BY <1>0, Places2, Places0 DEF Call
<1>2. /\ top = stack[1] /\ g.fn = top.fn /\ g.at = place
      /\ h.fn = f /\ h.at = "start"
  BY Places0 DEF top
<1>3. h \in Good'
  BY <1>0, <1>2 DEF Good, GoodFrame, MinFrame, SpanFrame, MaxFrame, UsedFrame
<1>a. Computes(g) <=> Computes(stack[1])
  BY <1>2 DEF Computes
<1>b. ~Computes(h)
  BY <1>2 DEF Computes
<1>c. g \in Good'
  OBVIOUS
<1> HIDE DEF g, h
<1>4. GoodFrames'
  <2> SUFFICES ASSUME NEW k \in 1 .. (Len(stack) + 1)
               PROVE  stack'[k] \in Good'
    BY <1>1 DEF GoodFrames
  <2>1. CASE k = 1
    BY <1>1, <1>3, <2>1
  <2>2. CASE k = 2
    BY <1>1, <1>c, <2>2
  <2>3. CASE k \in 3 .. (Len(stack) + 1)
    <3>1. k - 1 \in 1 .. Len(stack)
      BY <1>1, <2>3
    <3> QED
      BY <1>1, <2>3, <3>1 DEF GoodFrames, StackInv
  <2> QED
    BY <1>1, <2>1, <2>2, <2>3
<1>5. Calls'
  <2> SUFFICES ASSUME NEW k \in 2 .. (Len(stack) + 1)
               PROVE  stack'[k - 1].fn \in CalledAt(stack'[k].at)
    BY <1>1 DEF Calls
  <2>1. CASE k = 2
    BY <1>1, <1>2, <2>1
  <2>2. CASE k = 3
    <3>1. 2 \in 2 .. Len(stack) /\ stack'[3] = stack[2] /\ stack'[2].fn = stack[1].fn
      BY <1>1, <1>2, <2>2
    <3>2. stack[2 - 1].fn \in CalledAt(stack[2].at)
      BY <3>1 DEF StackInv, Calls
    <3> QED
      BY <2>2, <3>1, <3>2
  <2>3. CASE k > 3
    <3>1. /\ k - 1 \in 2 .. Len(stack) /\ stack'[k] = stack[k - 1]
          /\ stack'[k - 1] = stack[(k - 1) - 1]
      BY <1>1, <2>3
    <3> QED
      BY <3>1 DEF StackInv, Calls
  <2> QED
    BY <2>1, <2>2, <2>3
<1>6. OneComputes'
  <2>1. ASSUME NEW k \in 1 .. Len(stack), Computes(stack[k])
        PROVE  \E i \in 1 .. Len(stack') : Computes(stack'[i])
    <3>1. CASE k = 1
      BY <1>1, <1>a, <2>1, <3>1
    <3>2. CASE k # 1
      <4>1. k + 1 \in 3 .. (Len(stack) + 1) /\ (k + 1) - 1 = k
        BY <1>1, <3>2
      <4>2. stack'[k + 1] = stack[k]
        BY <1>1, <4>1
      <4>3. k + 1 \in 1 .. Len(stack')
        BY <1>1, <4>1
      <4> QED
        BY <2>1, <4>2, <4>3
    <3> QED
      BY <3>1, <3>2
  <2>2. ASSUME NEW k \in 1 .. Len(stack'), Computes(stack'[k])
        PROVE  \E i \in 1 .. Len(stack) : Computes(stack[i])
    <3>1. k # 1
      BY <1>1, <1>b, <2>2
    <3>2. CASE k = 2
      BY <1>1, <1>a, <2>2, <3>2
    <3>3. CASE k > 2
      <4>1. k \in 3 .. (Len(stack) + 1) /\ k - 1 \in 1 .. Len(stack)
        BY <1>1, <3>3
      <4> QED
        BY <1>1, <2>2, <4>1
    <3> QED
      BY <3>1, <3>2, <3>3
  <2>3. OneComputes
    BY DEF StackInv
  <2> QED
    BY <2>1, <2>2, <2>3 DEF OneComputes
<1>7. Above'
  <2> SUFFICES ASSUME NEW j \in 1 .. (Len(stack) + 1), NEW k \in 1 .. (Len(stack) + 1),
                      j < k, Computes(stack'[k])
               PROVE  /\ ~Computes(stack'[j])
                      /\ stack'[j].fn \in {"span", "used"} => MaxBackend = "asSpan"
    BY <1>1, SameNode DEF Above
  <2>0. \A i \in 2 .. (Len(stack) + 1) :
           (Computes(stack'[i]) <=> Computes(stack[i - 1]))
             /\ stack'[i].fn = stack[i - 1].fn
    <3> SUFFICES ASSUME NEW i \in 2 .. (Len(stack) + 1)
                 PROVE  (Computes(stack'[i]) <=> Computes(stack[i - 1]))
                          /\ stack'[i].fn = stack[i - 1].fn
      OBVIOUS
    <3>1. CASE i = 2
      BY <1>1, <1>2, <1>a, <3>1
    <3>2. CASE i # 2
      BY <1>1, <3>2
    <3> QED
      BY <3>1, <3>2
  <2>1. k - 1 \in 1 .. Len(stack) /\ k \in 2 .. (Len(stack) + 1)
    BY <1>1
  <2>2. Computes(stack[k - 1]) /\ computing
    BY <2>0, <2>1 DEF StackInv, OneComputes
  <2>3. CASE j = 1
    BY <1>1, <1>2, <1>b, <2>2, <2>3
  <2>4. CASE j # 1
    <3>1. j - 1 \in 1 .. Len(stack) /\ j - 1 < k - 1 /\ j \in 2 .. (Len(stack) + 1)
      BY <1>1, <2>4
    <3>2. /\ ~Computes(stack[j - 1])
          /\ stack[j - 1].fn \in {"span", "used"} => MaxBackend = "asSpan"
      BY <2>1, <2>2, <3>1 DEF StackInv, Above
    <3> QED
      BY <2>0, <3>1, <3>2
  <2> QED
    BY <2>3, <2>4
<1> QED
  BY <1>4, <1>5, <1>6, <1>7 DEF StackInv

\* A function returns.
LEMMA Popped ==
    ASSUME stack \in Seq(Frame), StackInv, stack # <<>>,
           NEW status, Return(status), node' = node, Good \subseteq Good',
           computing \in BOOLEAN
    PROVE  StackInv'
<1>1. /\ Len(stack') = Len(stack) - 1 /\ Len(stack) \in Nat \ {0}
      /\ \A k \in 1 .. (Len(stack) - 1) : stack'[k] = stack[k + 1]
      /\ top = stack[1]
  BY Places0 DEF Return, top
<1>2. GoodFrames'
  BY <1>1 DEF GoodFrames, StackInv
<1>3. Calls'
  <2> SUFFICES ASSUME NEW k \in 2 .. (Len(stack) - 1)
               PROVE  stack'[k - 1].fn \in CalledAt(stack'[k].at)
    BY <1>1 DEF Calls
  <2>1. /\ k + 1 \in 2 .. Len(stack) /\ stack'[k] = stack[k + 1]
        /\ stack'[k - 1] = stack[(k + 1) - 1]
    BY <1>1
  <2> QED
    BY <2>1 DEF StackInv, Calls
<1>4. \A j, k \in 1 .. (Len(stack) - 1) :
         /\ stack'[j] = stack[j + 1] /\ stack'[k] = stack[k + 1]
         /\ j + 1 \in 1 .. Len(stack) /\ k + 1 \in 1 .. Len(stack)
         /\ j < k => j + 1 < k + 1
  BY <1>1
<1>5. Above'
  BY <1>1, <1>4, SameNode DEF Above, StackInv
<1>6. computing' <=> computing /\ ~Computes(stack[1])
  BY <1>1 DEF Return, Computes
<1>7. OneComputes'
  <2>1. CASE Computes(stack[1])
    <3>1. \A k \in 1 .. (Len(stack) - 1) : ~Computes(stack[k + 1])
      <4> SUFFICES ASSUME NEW k \in 1 .. (Len(stack) - 1), Computes(stack[k + 1])
                   PROVE  FALSE
        OBVIOUS
      <4>1. 1 \in 1 .. Len(stack) /\ k + 1 \in 1 .. Len(stack) /\ 1 < k + 1
        BY <1>1
      <4> QED
        BY <2>1, <4>1 DEF StackInv, Above
    <3> QED
      BY <1>1, <1>6, <2>1, <3>1 DEF OneComputes
  <2>2. CASE ~Computes(stack[1])
    <3>1. ASSUME NEW k \in 1 .. Len(stack), Computes(stack[k])
          PROVE  \E i \in 1 .. Len(stack') : Computes(stack'[i])
      <4>1. k - 1 \in 1 .. (Len(stack) - 1) /\ (k - 1) + 1 = k
        BY <1>1, <2>2, <3>1
      <4> QED
        BY <1>1, <3>1, <4>1
    <3>2. ASSUME NEW k \in 1 .. Len(stack'), Computes(stack'[k])
          PROVE  \E i \in 1 .. Len(stack) : Computes(stack[i])
      <4>1. k + 1 \in 1 .. Len(stack)
        BY <1>1
      <4> QED
        BY <1>1, <3>2, <4>1
    <3>3. OneComputes
      BY DEF StackInv
    <3> QED
      BY <1>6, <2>2, <3>1, <3>2, <3>3 DEF OneComputes
  <2> QED
    BY <2>1, <2>2
<1> QED
  BY <1>2, <1>3, <1>5, <1>7 DEF StackInv

\* A frame at its start is good.
LEMMA StartIsGood ==
    ASSUME NEW f \in Functions
    PROVE  [fn |-> f, at |-> "start"] \in Good
BY DEF Good, Frame, Places, GoodFrame, MinFrame, SpanFrame, MaxFrame, UsedFrame
-----------------------------------------------------------------------------
\* No error is on its way up, or one was reported.
Heard == failed = {} => ret = "ok"

\* What the inductive invariant says of the state's types.
LEMMA Basics ==
    ASSUME OrderInv
    PROVE  /\ stack \in Seq(Frame) /\ node \in BoxRecord /\ box \in [Sizes -> Int]
           /\ items \in Int /\ computing \in BOOLEAN /\ overlay \in BOOLEAN
           /\ ret \in Status /\ failed \subseteq Sizes
           /\ stack # <<>> => top \in Frame /\ top = stack[1]
           /\ node.hard \in Nat /\ node.content \in Nat /\ node.out \in Nat
           /\ node.parent \in Nat /\ node.alloc \in Nat
<1>1. TypeOK
  BY DEF OrderInv, IInv
<1>2. stack # <<>> => top \in Frame /\ top = stack[1]
  BY <1>1 DEF top, TypeOK
<1> QED
  BY <1>1, <1>2 DEF TypeOK, BoxRecord

\* A function that waits for nobody has heard of no error.
LEMMA NobodyWaits ==
    ASSUME OrderInv, stack = <<>> \/ top.at \in {"start", "backend"}
    PROVE  Heard
<1>1. CalledAt("start") = {} /\ CalledAt("backend") = {}
  BY DEF CalledAt, Sizes
<1> QED
  BY <1>1, Basics DEF OrderInv, ErrorsGoUp, Heard, Status

\* Who gets the answer.
LEMMA Caller ==
    ASSUME OrderInv, stack # <<>>, stack' = Tail(stack), stack' # <<>>
    PROVE  top' \in Frame /\ top.fn \in CalledAt(top'.at) /\ Len(stack) # 1
<1>1. /\ stack' \in Seq(Frame) /\ Len(stack') = Len(stack) - 1
      /\ Len(stack) \in Nat \ {0} /\ top = stack[1]
      /\ \A k \in 1 .. (Len(stack) - 1) : stack'[k] = stack[k + 1]
  BY Basics, Places0
<1>2. Len(stack') # 0
  BY <1>1
<1>3. 1 \in 1 .. (Len(stack) - 1) /\ 2 \in 2 .. Len(stack)
  BY <1>1, <1>2
<1>4. stack'[1] = stack[2] /\ top' = stack'[1] /\ top' \in Frame
  BY <1>1, <1>3 DEF top
<1>5. stack[2 - 1].fn \in CalledAt(stack[2].at)
  BY <1>3 DEF OrderInv, StackInv, Calls
<1> QED
  BY <1>1, <1>2, <1>4, <1>5

\* What a place waits for.
LEMMA WhatIsAwaited ==
    ASSUME NEW place \in Places, NEW f \in CalledAt(place)
    PROVE  /\ place \in Sizes => f = place
           /\ place = "bound" => f = "slack"
           /\ place = "contents" => f = "max"
BY DEF CalledAt, Sizes

\* A return with success keeps the invariant.
LEMMA ReturnOk ==
    ASSUME OrderInv, stack # <<>>, Heard, Return("ok"), node' = node,
           IInv', SizesInv', box.min # Unknown => box'.min # Unknown,
           \/ box'[top.fn] # Unknown
           \/ top.fn = "max" /\ top.at = "start" /\ computing
    PROVE  OrderInv' /\ Answers
<1>1. failed' = failed /\ ret' = "ok" /\ stack' = Tail(stack)
  BY DEF Return
<1>2. Sound' => Sound
  BY <1>1, SameNode DEF Sound, Heard
<1>3. StackInv'
  BY <1>2, FramesStay, Popped, Basics DEF OrderInv
<1>4. EnabledDeclared'
  BY SameNode DEF OrderInv
<1>5. ErrorsGoUp'
  BY <1>1 DEF ErrorsGoUp
<1>6. top.fn = "max" /\ top.at = "start" /\ computing => computing'
  BY Zenon DEF Return
<1>7. Answered'
  <2> SUFFICES ASSUME stack' # <<>>
               PROVE  /\ top'.at \in Sizes =>
                            box'[top'.at] # Unknown \/ (top'.at = "max" /\ computing')
                      /\ top'.at = "bound" => box'["slack"] # Unknown
                      /\ top'.at = "contents" => box'["max"] # Unknown \/ computing'
    BY DEF Answered
  <2>1. top' \in Frame /\ top.fn \in CalledAt(top'.at)
    BY <1>1, Caller
  <2>2. top'.at \in Places
    BY <2>1 DEF Frame
  <2>3. /\ top'.at \in Sizes => top.fn = top'.at
        /\ top'.at = "bound" => top.fn = "slack"
        /\ top'.at = "contents" => top.fn = "max"
    BY <2>1, <2>2, WhatIsAwaited
  <2>4. box'[top.fn] # Unknown \/ (top.fn = "max" /\ computing')
    BY <1>6
  <2> QED
    BY <2>3, <2>4
<1>8. Answers
  <2> SUFFICES ASSUME Len(stack) = 1 PROVE box'[top.fn] # Unknown
    BY DEF Answers
  <2>1. top.fn = "max" /\ top.at = "start" => ~computing
    BY Basics DEF OrderInv, StackInv, OneComputes, Computes
  <2> QED
    BY <2>1
<1> QED
  BY <1>3, <1>4, <1>5, <1>7, <1>8 DEF OrderInv

\* A return with an error does too: it goes up, or is reported.
LEMMA ReturnError ==
    ASSUME OrderInv, stack # <<>>, Return("error"), node' = node,
           IInv', NaturalSizes', SlackIsAlloc',
           box.min # Unknown => box'.min # Unknown
    PROVE  OrderInv' /\ Answers
<1>1. ret' = "error" /\ stack' = Tail(stack) /\ ret' # "ok"
  BY DEF Return
<1>2. ~Sound'
  BY <1>1 DEF Sound
<1>3. StackInv'
  BY <1>2, FramesStay, Popped, Basics DEF OrderInv
<1>4. EnabledDeclared'
  BY SameNode DEF OrderInv
<1>5. ErrorsGoUp'
  <2> SUFFICES ASSUME failed' = {}
               PROVE  stack' # <<>> /\ CalledAt(top'.at) # {}
    BY DEF ErrorsGoUp
  <2>1. Len(stack) # 1
    BY DEF Return
  <2>2. stack' # <<>>
    <3>1. Len(stack') = Len(stack) - 1
      BY <1>1, Basics, Places0
    <3>2. Len(stack) \in Nat \ {0}
      BY Basics, Places0
    <3>3. Len(stack') # 0
      BY <2>1, <3>1, <3>2
    <3> QED
      BY <3>3
  <2>3. top.fn \in CalledAt(top'.at)
    BY <1>1, <2>2, Caller
  <2> QED
    BY <2>2, <2>3
<1>6. Answered' /\ SizesRight' /\ Answers
  BY <1>1, <1>2 DEF Answered, SizesRight, Answers
<1> QED
  BY <1>3, <1>4, <1>5, <1>6 DEF OrderInv, SizesInv

\* What was known stays known.
LEMMA SameBox ==
    ASSUME OrderInv, NoSet
    PROVE  /\ node' = node /\ NaturalSizes' /\ SlackIsAlloc'
           /\ (Sound' => Sound) => SizesRight'
           /\ box.min # Unknown => box'.min # Unknown
<1>1. node' = node /\ box' = box /\ items' = items
  BY DEF NoSet, Same
<1>2. NaturalSizes' /\ SlackIsAlloc'
  BY <1>1 DEF OrderInv, SizesInv, NaturalSizes, SlackIsAlloc, Natural
<1>3. (Sound' => Sound) => SizesRight'
  BY <1>1, SameNode DEF OrderInv, SizesInv, SizesRight
<1> QED
  BY <1>1, <1>2, <1>3

\* Giving up.
LEMMA ErrorOrder ==
    ASSUME OrderInv, stack # <<>>, Done("error")
    PROVE  OrderInv' /\ Answers
<1>1. IInv'
  BY DoneKeeps DEF OrderInv, Status
<1> QED
  BY <1>1, SameBox, ReturnError DEF Done

\* Answering with what is known, or to the computation that asks itself.
LEMMA DoneOrder ==
    ASSUME OrderInv, stack # <<>>, Heard, Done("ok"),
           \/ box[top.fn] # Unknown
           \/ top.fn = "max" /\ top.at = "start" /\ computing
    PROVE  OrderInv' /\ Answers
<1>1. IInv'
  BY DoneKeeps DEF OrderInv, Status
<1>2. Sound' => Sound
  BY SameBox, SameNode DEF Sound, Heard, Done, Return
<1>3. box' = box
  BY DEF Done, NoSet
<1>4. SizesInv'
  BY <1>2, SameBox DEF SizesInv, Done
<1> QED
  BY <1>1, <1>3, <1>4, SameBox, ReturnOk DEF Done
\* The frame of a function that has gone on.
Frame1(place) == [fn |-> top.fn, at |-> place]

\* While the greatest span is being computed, nothing else asks for a span or a
\* used size unless the node has a fixed size.
LEMMA WhileComputing ==
    ASSUME OrderInv, stack # <<>>, computing, top.fn \in {"span", "used"}
    PROVE  MaxBackend = "asSpan"
<1>1. top = stack[1] /\ Len(stack) \in Nat \ {0}
  BY Basics, Places0
<1>2. PICK k \in 1 .. Len(stack) : Computes(stack[k])
  BY DEF OrderInv, StackInv, OneComputes
<1>3. k # 1
  BY <1>1, <1>2 DEF Computes
<1>4. 1 \in 1 .. Len(stack) /\ 1 < k
  BY <1>1, <1>3
<1> QED
  BY <1>1, <1>2, <1>4 DEF OrderInv, StackInv, Above

\* The running frame is good.
LEMMA TopIsGood ==
    ASSUME OrderInv, stack # <<>>
    PROVE  GoodFrame(top) /\ top \in Frame
<1>1. top = stack[1] /\ 1 \in 1 .. Len(stack)
  BY Basics, Places0
<1> QED
  BY <1>1 DEF OrderInv, StackInv, GoodFrames, Good

\* The frame that computes the greatest span has set its flag.
LEMMA MaxComputes ==
    ASSUME OrderInv, stack # <<>>, top.fn = "max", top.at # "start"
    PROVE  computing
<1>1. top = stack[1] /\ 1 \in 1 .. Len(stack)
  BY Basics, Places0
<1> QED
  BY <1>1 DEF OrderInv, StackInv, OneComputes, Computes

\* Going on without a call.
LEMMA GoOrder ==
    ASSUME OrderInv, stack # <<>>, Heard, Go("backend"), top.fn = "span",
           Frame1("backend") \in Good
    PROVE  OrderInv' /\ Answers
<1>1. /\ NoSet /\ ret' = ret /\ failed' = failed /\ computing' = computing
      /\ Goto("backend")
  BY DEF Go, Silent
<1>2. IInv'
  BY GoKeeps DEF OrderInv, Places
<1>3. Sound' <=> Sound
  BY <1>1, SameBox, SameNode DEF Sound
<1>4. Good \subseteq Good'
  BY <1>1, <1>3, SameBox, FramesStay
<1>5. StackInv'
  BY <1>1, <1>4, Basics, SameBox, Moved DEF OrderInv, Frame1, Places
<1>6. stack' # <<>> /\ top'.at = "backend"
  BY <1>1, Basics, Places1 DEF Goto, top
<1>7. Answered' /\ ErrorsGoUp' /\ Answers
  BY <1>1, <1>6 DEF Answered, ErrorsGoUp, Answers, Sizes, Heard
<1> QED
  BY <1>1, <1>2, <1>3, <1>5, <1>7, SameBox, SameNode DEF OrderInv, SizesInv

\* Calling another function.
LEMMA AskOrder ==
    ASSUME OrderInv, stack # <<>>, Heard,
           NEW f \in Functions, NEW place \in Places \ {"start"}, Ask(f, place),
           f \in CalledAt(place), Frame1(place) \in Good,
           top.fn = "max" => top.at # "start",
           top.fn = "max" /\ f \in {"span", "used"} => MaxBackend = "asSpan",
           top.fn \in {"min", "slack"} => f \notin {"span", "used"}
    PROVE  OrderInv' /\ Answers
<1>1. /\ NoSet /\ ret' = ret /\ failed' = failed /\ computing' = computing
      /\ Call(f, place)
  BY DEF Ask, Silent
<1>2. IInv'
  BY AskKeeps DEF OrderInv
<1>3. Sound' <=> Sound
  BY <1>1, SameBox, SameNode DEF Sound
<1>4. Good \subseteq Good'
  BY <1>1, <1>3, SameBox, FramesStay
<1>5. f \in {"span", "used"} /\ computing => MaxBackend = "asSpan"
  <2>1. top.fn \in Sizes
    BY Basics DEF Frame, Functions
  <2> QED
    BY <2>1, WhileComputing DEF Sizes
<1>6. StackInv'
  BY <1>1, <1>4, <1>5, Basics, SameBox, Pushed DEF OrderInv, Frame1
<1>7. stack' # <<>> /\ top'.at = "start"
  <2>1. /\ [fn |-> f, at |-> "start"] \in Frame
        /\ [fn |-> top.fn, at |-> place] \in Frame
    BY Basics DEF Frame, Places
  <2> QED
    BY <1>1, <2>1, Basics, Places2 DEF Call, top
<1>8. Answered' /\ ErrorsGoUp' /\ Answers
  BY <1>1, <1>7 DEF Answered, ErrorsGoUp, Answers, Sizes, Heard
<1> QED
  BY <1>1, <1>2, <1>3, <1>6, <1>8, SameBox, SameNode DEF OrderInv, SizesInv

\* Evaluating an attribute.
LEMMA EvaluateOrder ==
    ASSUME OrderInv, stack # <<>>, Heard, Evaluate, Frame1("expr") \in Good,
           top.fn = "max" => top.at # "start"
    PROVE  OrderInv' /\ Answers
<1>1. CASE node.reads
  BY <1>1, AskOrder DEF Evaluate, CalledAt, Sizes, Functions, Places
<1>2. CASE ~node.reads
  <2>1. /\ NoSet /\ ret' = "ok" /\ failed' = failed /\ computing' = computing
        /\ Goto("expr")
    BY <1>2 DEF Evaluate
  <2>2. IInv'
    BY EvaluateKeeps DEF OrderInv
  <2>3. Sound' => Sound
    BY <2>1, SameBox, SameNode DEF Sound, Heard
  <2>4. Good \subseteq Good'
    BY <2>1, <2>3, SameBox, FramesStay
  <2>5. computing' <=> computing \/ top.fn = "max"
    BY <2>1, MaxComputes
  <2>6. StackInv'
    BY <2>1, <2>4, <2>5, Basics, SameBox, Moved DEF OrderInv, Frame1, Places
  <2>7. stack' # <<>> /\ top'.at = "expr"
    <3>1. [fn |-> top.fn, at |-> "expr"] \in Frame
      BY DEF Frame1, Good
    <3> QED
      BY <2>1, <3>1, Basics, Places1 DEF Goto, top
  <2>8. Answered' /\ ErrorsGoUp' /\ Answers
    BY <2>1, <2>7 DEF Answered, ErrorsGoUp, Answers, Sizes
  <2> QED
    BY <2>1, <2>2, <2>3, <2>6, <2>8, SameBox, SameNode DEF OrderInv, SizesInv
<1> QED
  BY <1>1, <1>2

-----------------------------------------------------------------------------
\* A size that is checked is not negative.
LEMMA CheckedIsNatural ==
    ASSUME NEW b \in [Sizes -> Int], \A s \in Sizes : Natural(b[s]),
           node \in BoxRecord, NEW s \in Sizes, NEW v \in Int,
           WithinBounds(b, s, v)
    PROVE  v \in Nat
<1> DEFINE q == AtLeast[s]
           K(i) == KnownIn(b, q[i])
<1>1. node.hard \in Nat
  BY DEF BoxRecord
<1>2. \A i \in DOMAIN q : IsNearest(b, q, i) => v >= SizeIn(b, q[i])
  BY DEF WithinBounds
<1>3. (\A i \in DOMAIN q : ~K(i)) => v >= node.hard
  BY DEF WithinBounds
<1>4. \/ q = <<>>
      \/ q = <<"min">>
      \/ q = <<"used", "min">>
      \/ q = <<"span", "used", "min">>
  BY DEF Sizes, AtLeast
<1>5. ASSUME NEW i \in DOMAIN q, IsNearest(b, q, i)
      PROVE  v \in Nat
  <2>1. q[i] \in Sizes
    BY <1>4 DEF Sizes
  <2>2. SizeIn(b, q[i]) = b[q[i]] /\ SizeIn(b, q[i]) # Unknown
    BY <1>5, <2>1 DEF SizeIn, IsNearest, KnownIn, Sizes
  <2>3. SizeIn(b, q[i]) \in Nat
    BY <2>1, <2>2 DEF Natural
  <2> QED
    BY <1>2, <1>5, <2>3
<1>6. CASE \A i \in DOMAIN q : ~K(i)
  BY <1>1, <1>3, <1>6
<1>7. CASE \E i \in DOMAIN q : K(i)
  <2>1. \E i \in DOMAIN q : K(i) /\ \A j \in 1 .. (i - 1) : ~K(j)
    <3>1. \/ DOMAIN q = {}
          \/ DOMAIN q = 1 .. 1
          \/ DOMAIN q = 1 .. 2
          \/ DOMAIN q = 1 .. 3
      <4>1. q = <<>> => DOMAIN q = {}
        OBVIOUS
      <4>2. q = <<"min">> => DOMAIN q = 1 .. 1
        OBVIOUS
      <4>3. q = <<"used", "min">> => DOMAIN q = 1 .. 2
        OBVIOUS
      <4>4. q = <<"span", "used", "min">> => DOMAIN q = 1 .. 3
        OBVIOUS
      <4> QED
        BY <1>4, <4>1, <4>2, <4>3, <4>4
    <3> HIDE DEF K, q
    <3>2. CASE K(1) /\ 1 \in DOMAIN q
      BY <3>2
    <3>3. CASE ~K(1) /\ K(2) /\ 2 \in DOMAIN q
      BY <3>3
    <3>4. CASE ~K(1) /\ ~K(2) /\ K(3) /\ 3 \in DOMAIN q
      BY <3>4
    <3> QED
      BY <1>7, <3>1, <3>2, <3>3, <3>4
  <2> QED
    BY <1>5, <2>1 DEF IsNearest
<1> QED
  BY <1>6, <1>7
\* The slack is compared with the end of the parent.
LEMMA SlackIsChecked ==
    ASSUME NEW b \in [Sizes -> Int], node \in BoxRecord, NEW v \in Int,
           WithinBounds(b, "slack", v)
    PROVE  v <= node.parent
<1>1. AtMost["slack"] = <<"parent">>
  BY DEF AtMost
<1>2. node.parent \in Nat
  BY DEF BoxRecord
<1>3. DOMAIN <<"parent">> = 1 .. 1 /\ <<"parent">>[1] = "parent"
  OBVIOUS
<1>4. IsNearest(b, <<"parent">>, 1)
  BY <1>2, <1>3 DEF IsNearest, KnownIn, SizeIn, Unknown
<1>5. v <= SizeIn(b, <<"parent">>[1])
  BY <1>1, <1>3, <1>4 DEF WithinBounds
<1> QED
  BY <1>3, <1>5 DEF SizeIn

\* A size that fits is not negative, or is what a filter yields.
LEMMA FitsIsNatural ==
    ASSUME NEW b \in [Sizes -> Int], \A s \in Sizes : Natural(b[s]),
           node \in BoxRecord, NEW s \in Sizes, NEW v \in Int, Fits(b, s, v),
           AtFiltersDiscretion(s) => v \in Nat
    PROVE  v \in Nat
BY CheckedIsNatural DEF Fits

\* One more natural size.
LEMMA SetNatural ==
    ASSUME NEW b \in [Sizes -> Int], \A s \in Sizes : Natural(b[s]),
           NEW s \in Sizes, NEW v \in Nat
    PROVE  /\ \A t \in Sizes : Natural(Set(b, s, v)[t])
           /\ Set(b, s, v) \in [Sizes -> Int]
           /\ Set(b, s, v)[s] = v /\ Set(b, s, v)[s] # Unknown
           /\ \A t \in Sizes \ {s} : Set(b, s, v)[t] = b[t]
           /\ b["min"] # Unknown => Set(b, s, v)["min"] # Unknown
<1>1. /\ Set(b, s, v) \in [Sizes -> Int]
      /\ Set(b, s, v)[s] = v
      /\ \A t \in Sizes \ {s} : Set(b, s, v)[t] = b[t]
  BY DEF Set
<1> QED
  BY <1>1 DEF Natural, Unknown, Sizes

\* Writing a size and returning.
LEMMA WriteOrder ==
    ASSUME OrderInv, stack # <<>>, Heard, NEW s \in Sizes, s = top.fn,
           NEW v \in Nat, box' = Set(box, s, v), Return("ok"), node' = node,
           IInv', Natural(items'),
           s = "slack" => v = node.alloc /\ v <= node.parent,
           Sound => v = SizeOf[s] /\ (items' # Unknown => items' = node.alloc)
    PROVE  OrderInv' /\ Answers
<1>1. box \in [Sizes -> Int] /\ \A t \in Sizes : Natural(box[t])
  BY Basics DEF OrderInv, SizesInv, NaturalSizes
<1>2. /\ \A t \in Sizes : Natural(box'[t])
      /\ box'[s] = v /\ box'[s] # Unknown
      /\ \A t \in Sizes \ {s} : box'[t] = box[t]
      /\ box["min"] # Unknown => box'["min"] # Unknown
  BY <1>1, SetNatural
<1>3. NaturalSizes'
  BY <1>2 DEF NaturalSizes, Natural
<1>4. SlackIsAlloc'
  <2>1. CASE s = "slack"
    BY <1>2, <2>1 DEF SlackIsAlloc
  <2>2. CASE s # "slack"
    <3>1. box'["slack"] = box["slack"]
      BY <1>2, <2>2 DEF Sizes
    <3> QED
      BY <3>1 DEF SlackIsAlloc, OrderInv, SizesInv
  <2> QED
    BY <2>1, <2>2
<1>5. Sound' => Sound
  BY SameNode DEF Sound, Heard, Return
<1>6. SizesRight'
  <2> SUFFICES ASSUME Sound'
               PROVE  /\ \A t \in Sizes : box'[t] # Unknown => box'[t] = SizeOf[t]
                      /\ items' # Unknown => items' = node.alloc
    BY SameNode DEF SizesRight
  <2>1. Sound
    BY <1>5
  <2> QED
    BY <1>2, <2>1 DEF OrderInv, SizesInv, SizesRight
<1> QED
  BY <1>2, <1>3, <1>4, <1>6, ReturnOk DEF SizesInv

\* Setting a size, the last thing a backend does.
LEMMA SetOrder ==
    ASSUME OrderInv, stack # <<>>, Heard, NEW s \in Sizes, s = top.fn,
           NEW v \in Int, SetAndReturn(s, v), UNCHANGED <<node, overlay>>,
           items' \in Int, Natural(items'),
           AtFiltersDiscretion(s) => v \in Nat,
           s = "slack" => v = node.alloc,
           Fits(box, s, v) /\ Sound =>
               v = SizeOf[s] /\ (items' # Unknown => items' = node.alloc)
    PROVE  OrderInv' /\ Answers
<1>1. IInv'
  BY SetKeeps DEF OrderInv
<1>2. /\ box \in [Sizes -> Int] /\ \A t \in Sizes : Natural(box[t])
      /\ node \in BoxRecord
  BY Basics DEF OrderInv, SizesInv, NaturalSizes
<1>3. CASE Fits(box, s, v)
  <2>1. box' = Set(box, s, v) /\ Return("ok")
    BY <1>3 DEF SetAndReturn
  <2>2. v \in Nat
    BY <1>2, <1>3, FitsIsNatural
  <2>3. s = "slack" => v <= node.parent
    BY <1>2, <1>3, SlackIsChecked DEF Fits, AtFiltersDiscretion
  <2> QED
    BY <1>1, <1>3, <2>1, <2>2, <2>3, WriteOrder
<1>4. CASE ~Fits(box, s, v)
  <2>1. box' = box /\ Return("error") /\ node' = node
    BY <1>4 DEF SetAndReturn
  <2>2. NaturalSizes' /\ SlackIsAlloc'
    BY <2>1 DEF OrderInv, SizesInv, NaturalSizes, Natural, SlackIsAlloc
  <2> QED
    BY <1>1, <2>1, <2>2, ReturnError
<1> QED
  BY <1>3, <1>4

\* Setting a size that depends on nothing else that is written.
LEMMA StoreOrder ==
    ASSUME OrderInv, stack # <<>>, Heard, NEW s \in Sizes, s = top.fn,
           NEW v \in Int, Store(s, v),
           AtFiltersDiscretion(s) => v \in Nat,
           s = "slack" => v = node.alloc,
           Fits(box, s, v) /\ Sound => v = SizeOf[s]
    PROVE  OrderInv' /\ Answers
<1>1. items' = items /\ UNCHANGED <<node, overlay>> /\ SetAndReturn(s, v)
  BY DEF Store, Same
<1>2. items' \in Int /\ Natural(items')
  BY <1>1, Basics DEF OrderInv, SizesInv, NaturalSizes
<1>3. Sound => (items' # Unknown => items' = node.alloc)
  BY <1>1 DEF OrderInv, SizesInv, SizesRight
<1> QED
  BY <1>1, <1>2, <1>3, SetOrder

\* Setting the least and the greatest span together.
LEMMA Store2Order ==
    ASSUME OrderInv, stack # <<>>, Heard,
           NEW s \in {"min", "max"}, NEW t \in {"min", "max"}, s = top.fn, s # t,
           NEW v \in Nat, NEW w \in Nat, Store2(s, v, t, w),
           Fits(box, s, v) /\ Fits(Set(box, s, v), t, w) /\ Sound =>
               v = SizeOf[s] /\ w = SizeOf[t]
    PROVE  OrderInv' /\ Answers
<1> DEFINE b == Set(box, s, v)
           c == Set(b, t, w)
<1>0. s \in Sizes /\ t \in Sizes /\ s # "slack" /\ t # "slack"
  BY DEF Sizes
<1>1. IInv'
  BY <1>0, Store2Keeps DEF OrderInv
<1>2. /\ box \in [Sizes -> Int] /\ \A x \in Sizes : Natural(box[x])
      /\ Natural(items) /\ node' = node /\ items' = items
  BY Basics DEF OrderInv, SizesInv, NaturalSizes, Store2, Same
<1>3. /\ \A x \in Sizes : Natural(b[x])
      /\ b \in [Sizes -> Int] /\ b[s] = v /\ b[s] # Unknown
      /\ \A x \in Sizes \ {s} : b[x] = box[x]
      /\ box["min"] # Unknown => b["min"] # Unknown
  <2>1. /\ b \in [Sizes -> Int] /\ b[s] = v
        /\ \A x \in Sizes \ {s} : b[x] = box[x]
    BY <1>0, <1>2 DEF Set
  <2> HIDE DEF b
  <2>2. Natural(v) /\ v # Unknown
    BY DEF Natural, Unknown
  <2>3. \A x \in Sizes : Natural(b[x])
    BY <1>2, <2>1, <2>2, Zenon
  <2>4. box["min"] # Unknown => b["min"] # Unknown
    <3>1. "min" \in Sizes
      BY DEF Sizes
    <3> QED
      BY <2>1, <2>2, <3>1, Zenon
  <2> QED
    BY <2>1, <2>2, <2>3, <2>4, Zenon
<1> HIDE DEF b
<1>4. /\ \A x \in Sizes : Natural(c[x])
      /\ c \in [Sizes -> Int] /\ c[t] = w
      /\ \A x \in Sizes \ {t} : c[x] = b[x]
      /\ b["min"] # Unknown => c["min"] # Unknown
  BY <1>0, <1>3, SetNatural
<1> HIDE DEF c
<1>5. b["slack"] = box["slack"] /\ c["slack"] = box["slack"]
  BY <1>0, <1>3, <1>4 DEF Sizes
<1>6. box' \in {box, b, c} =>
        /\ NaturalSizes' /\ SlackIsAlloc'
        /\ box["min"] # Unknown => box'["min"] # Unknown
  <2> SUFFICES ASSUME box' \in {box, b, c}
               PROVE  /\ NaturalSizes' /\ SlackIsAlloc'
                      /\ box["min"] # Unknown => box'["min"] # Unknown
    OBVIOUS
  <2>1. \A x \in Sizes : Natural(box'[x])
    BY <1>2, <1>3, <1>4
  <2>2. box'["slack"] = box["slack"]
    BY <1>5
  <2> QED
    BY <1>2, <1>3, <1>4, <2>1, <2>2
      DEF NaturalSizes, Natural, SlackIsAlloc, OrderInv, SizesInv
<1>7. CASE Fits(box, s, v) /\ Fits(b, t, w)
  <2>1. box' = c /\ Return("ok")
    BY <1>7 DEF Store2, SetTwoAndReturn, b, c
  <2>2. box'[top.fn] # Unknown
    BY <1>0, <1>3, <1>4, <2>1
  <2>3. Sound' => Sound
    BY <1>2, <2>1, SameNode DEF Sound, Heard, Return
  <2>4. SizesRight'
    <3> SUFFICES ASSUME Sound'
                 PROVE  /\ \A x \in Sizes : box'[x] # Unknown => box'[x] = SizeOf[x]
                        /\ items' # Unknown => items' = node.alloc
      BY <1>2, SameNode DEF SizesRight
    <3>1. Sound /\ v = SizeOf[s] /\ w = SizeOf[t]
      BY <1>7, <2>3 DEF b
    <3>2. ASSUME NEW x \in Sizes, c[x] # Unknown PROVE c[x] = SizeOf[x]
      <4>1. x \in Sizes \ {s, t} => c[x] = box[x]
        BY <1>3, <1>4
      <4>2. c[s] = v
        BY <1>0, <1>3, <1>4
      <4>3. box[x] # Unknown => box[x] = SizeOf[x]
        BY <3>1 DEF OrderInv, SizesInv, SizesRight
      <4> QED
        BY <1>4, <3>1, <3>2, <4>1, <4>2, <4>3
    <3> QED
      BY <1>2, <2>1, <3>1, <3>2 DEF OrderInv, SizesInv, SizesRight
  <2> QED
    BY <1>1, <1>2, <1>6, <2>1, <2>2, <2>4, ReturnOk DEF SizesInv
<1>8. CASE ~(Fits(box, s, v) /\ Fits(b, t, w))
  <2>1. box' \in {box, b, c} /\ Return("error")
    BY <1>8 DEF Store2, SetTwoAndReturn, b
  <2> QED
    BY <1>1, <1>2, <1>6, <2>1, ReturnError
<1> QED
  BY <1>7, <1>8
-----------------------------------------------------------------------------
\* A node whose greatest span is its span has a size fixed by the compiler.
LEMMA FixedSize ==
    ASSUME MaxBackend = "asSpan"
    PROVE  /\ UsedBackend = "const" /\ SpanBackend = "asUsed"
           /\ MaxOf = node.hard /\ SpanOf = node.hard
           /\ \A u : UsedOr(u) = node.hard
<1>1. UsedBackend = "const"
  BY DEF MaxBackend, UsedBackend
<1>2. SpanBackend = "asUsed"
  BY DEF MaxBackend, SpanBackend
<1>3. MaxOf = node.hard /\ \A u : UsedOr(u) = node.hard
  BY <1>1 DEF MaxOf, UsedOr
<1> QED
  BY <1>1, <1>2, <1>3 DEF SpanOf

\* The backends of a filter, and those that no filter has.
LEMMA FilterBackends ==
    /\ node.kind = "filter" =>
          MaxBackend = "asSlack" /\ SpanBackend \in {"itemSize", "asSlack"}
    /\ SpanBackend \in {"itemSize", "asSlack"} => node.kind = "filter"
    /\ UsedBackend \in {"asSpan", "apply"} => node.kind = "filter"
    /\ node.kind = "filter" => UsedBackend \in {"asSpan", "apply"}
BY DEF MaxBackend, SpanBackend, UsedBackend

\* Only a filter's output may be its span.
LEMMA UsedIsOwn ==
    ASSUME node.kind # "filter"
    PROVE  \A u : UsedOr(u) = UsedOr(Unknown)
<1>1. UsedBackend \notin {"asSpan", "apply"}
  BY FilterBackends
<1> QED
  BY <1>1 DEF UsedOr

\* An attribute @span that has a value is the least and the greatest span.
LEMMA SpanAttr ==
    ASSUME Consistent, EnabledDeclared, node.kind = "composite",
           "span" \in node.enabled
    PROVE  /\ MinOf = node.attr["span"] /\ MaxOf = node.attr["span"]
           /\ SpanOf = node.attr["span"]
<1>1. /\ "span" \in node.declared
      /\ "minspan" \notin node.enabled /\ "maxspan" \notin node.enabled
  BY DEF Consistent, EnabledDeclared
<1>2. MinBackend = "expr" /\ MaxBackend = "expr"
  BY <1>1 DEF MinBackend, MaxBackend
<1>3. Enabled(MinAttrs) /\ First(MinAttrs) = "span"
  BY <1>1 DEF Enabled, First, MinAttrs
<1>4. Enabled(<<"span">>) /\ First(<<"span">>) = "span"
  BY <1>1 DEF Enabled, First
<1>5. MinOf = node.attr["span"]
  BY <1>2, <1>3 DEF MinOf, OneOf, Value
<1>6. MaxOf = node.attr["span"]
  BY <1>1, <1>2, <1>4 DEF MaxOf, OneOf, Value
<1> QED
  BY <1>5, <1>6 DEF SpanOf

\* Which attribute counts.
LEMMA WhichAttr ==
    /\ Enabled(MinAttrs) <=> "minspan" \in node.enabled \/ "span" \in node.enabled
    /\ Enabled(MaxAttrs) <=> "maxspan" \in node.enabled \/ "span" \in node.enabled
    /\ Enabled(<<"span">>) <=> "span" \in node.enabled
    /\ First(MinAttrs) =
          IF "minspan" \in node.enabled THEN "minspan" ELSE "span"
    /\ First(MaxAttrs) =
          IF "maxspan" \in node.enabled THEN "maxspan" ELSE "span"
    /\ "span" \in node.enabled => Value(<<"span">>) = node.attr["span"]
<1>1. /\ DOMAIN MinAttrs = 1 .. 2 /\ MinAttrs[1] = "minspan" /\ MinAttrs[2] = "span"
      /\ DOMAIN MaxAttrs = 1 .. 2 /\ MaxAttrs[1] = "maxspan" /\ MaxAttrs[2] = "span"
      /\ DOMAIN <<"span">> = 1 .. 1 /\ <<"span">>[1] = "span"
  BY DEF MinAttrs, MaxAttrs
<1>2. /\ Enabled(MinAttrs) <=> "minspan" \in node.enabled \/ "span" \in node.enabled
      /\ Enabled(MaxAttrs) <=> "maxspan" \in node.enabled \/ "span" \in node.enabled
      /\ Enabled(<<"span">>) <=> "span" \in node.enabled
  BY <1>1 DEF Enabled
<1>3. /\ First(MinAttrs) =
            IF "minspan" \in node.enabled THEN "minspan" ELSE "span"
      /\ First(MaxAttrs) =
            IF "maxspan" \in node.enabled THEN "maxspan" ELSE "span"
  BY <1>1 DEF First
<1>4. "span" \in node.enabled => Value(<<"span">>) = node.attr["span"]
  BY <1>1 DEF Value, First
<1> QED
  BY <1>2, <1>3, <1>4

\* A node with attributes that count is a composite.
LEMMA ExprIsComposite ==
    MinBackend = "expr" \/ MaxBackend = "expr" \/ SpanBackend = "expr"
      => node.kind = "composite"
BY DEF MinBackend, MaxBackend, SpanBackend

\* What the definitions of the sizes are.
LEMMA SizesOf ==
    /\ SizeOf["min"] = MinOf /\ SizeOf["max"] = MaxOf /\ SizeOf["span"] = SpanOf
    /\ SizeOf["used"] = UsedOr(SpanOf) /\ SizeOf["slack"] = node.alloc
BY DEF SizeOf

\* A frame that goes on is good, by function.
LEMMA NextFrame ==
    ASSUME NEW place \in Places, stack # <<>>, top \in Frame,
           \/ top.fn = "min" /\ MinFrame(Frame1(place))
           \/ top.fn = "span" /\ SpanFrame(Frame1(place))
           \/ top.fn = "max" /\ MaxFrame(Frame1(place))
           \/ top.fn = "used" /\ UsedFrame(Frame1(place))
    PROVE  Frame1(place) \in Good
<1>1. Frame1(place) \in Frame /\ Frame1(place).fn = top.fn
  BY DEF Frame1, Frame
<1> QED
  BY <1>1 DEF Good, GoodFrame

\* What a place may wait for.
LEMMA CalledFrom ==
    /\ "min" \in CalledAt("min") /\ "max" \in CalledAt("max")
    /\ "span" \in CalledAt("span") /\ "used" \in CalledAt("used")
    /\ "slack" \in CalledAt("slack") /\ "slack" \in CalledAt("bound")
    /\ "max" \in CalledAt("expr") /\ "max" \in CalledAt("item")
    /\ "max" \in CalledAt("contents")
    /\ "max" \in CalledAt("apply") /\ "span" \in CalledAt("apply")
BY DEF CalledAt, Sizes

\* A size that is known is right.
LEMMA KnownIsRight ==
    ASSUME OrderInv, Sound
    PROVE  /\ \A s \in Sizes : box[s] # Unknown => box[s] = SizeOf[s]
           /\ items # Unknown => items = node.alloc
           /\ Consistent /\ EnabledDeclared
BY DEF OrderInv, SizesInv, SizesRight, Sound

-----------------------------------------------------------------------------
\* The computation of the least span.
LEMMA MinStartOrder ==
    ASSUME OrderInv, MinStart
    PROVE  OrderInv' /\ Answers
<1>1. stack # <<>> /\ top.fn = "min" /\ top.at = "start"
  BY DEF MinStart, At
<1>2. Heard
  BY <1>1, NobodyWaits
<1>3. CASE box.min # Unknown /\ Done("ok")
  BY <1>1, <1>2, <1>3, DoneOrder
<1>4. CASE MinBackend = "hardMin" /\ Store("min", node.hard)
  <2>1. SizeOf["min"] = node.hard
    BY <1>4, SizesOf DEF MinOf
  <2>2. node.hard \in Int /\ node.hard \in Nat
    BY Basics
  <2> QED
    BY <1>1, <1>2, <1>4, <2>1, <2>2, StoreOrder DEF Sizes
<1>5. CASE MinBackend = "expr" /\ Evaluate
  <2>1. Frame1("expr") \in Good
    BY <1>1, <1>5, Basics, NextFrame DEF MinFrame, Frame1, Places
  <2> QED
    BY <1>1, <1>2, <1>5, <2>1, EvaluateOrder
<1> QED
  BY <1>3, <1>4, <1>5 DEF MinStart

\* The least span is the attribute that has a value, or the compiler's.
LEMMA MinExprOrder ==
    ASSUME OrderInv, MinExpr
    PROVE  OrderInv' /\ Answers
<1>1. stack # <<>> /\ top.fn = "min" /\ top.at = "expr"
  BY DEF MinExpr, At
<1>2. MinBackend = "expr" /\ node.kind = "composite"
  BY <1>1, TopIsGood, ExprIsComposite DEF GoodFrame, MinFrame
<1>3. /\ Value(MinAttrs) \in Int /\ node.hard \in Nat
      /\ EnabledDeclared
  BY Basics, ValueIsInt DEF OrderInv
<1>4. CASE Done("error")
  BY <1>1, <1>4, ErrorOrder
<1>5. CASE ret = "ok" /\ ~Enabled(MinAttrs) /\ Store("min", node.hard)
  <2>1. SizeOf["min"] = node.hard
    BY <1>2, <1>5, SizesOf DEF MinOf, OneOf
  <2> QED
    BY <1>1, <1>3, <1>5, <2>1, StoreOrder DEF Sizes, Heard
<1>6. CASE /\ ret = "ok" /\ Enabled(MinAttrs) /\ ~Bad(MinAttrs)
           /\ First(MinAttrs) = "span"
           /\ Store2("min", Value(MinAttrs), "max", Value(MinAttrs))
  <2>1. Value(MinAttrs) \in Nat
    BY <1>3, <1>6 DEF Bad
  <2>2. "span" \in node.enabled /\ Value(MinAttrs) = node.attr["span"]
    BY <1>6, WhichAttr DEF Value
  <2>3. Sound => /\ Value(MinAttrs) = SizeOf["min"]
                 /\ Value(MinAttrs) = SizeOf["max"]
    BY <1>2, <1>3, <2>2, SpanAttr, SizesOf DEF Sound
  <2> QED
    BY <1>1, <1>6, <2>1, <2>3, Store2Order DEF Heard
<1>7. CASE /\ ret = "ok" /\ Enabled(MinAttrs) /\ ~Bad(MinAttrs)
           /\ Store("min", Value(MinAttrs))
  <2>1. SizeOf["min"] = Value(MinAttrs)
    BY <1>2, <1>7, SizesOf DEF MinOf, OneOf
  <2>2. ~AtFiltersDiscretion("min")
    BY DEF AtFiltersDiscretion
  <2> QED
    BY <1>1, <1>3, <1>7, <2>1, <2>2, StoreOrder DEF Sizes, Heard
<1> QED
  BY <1>4, <1>5, <1>6, <1>7 DEF MinExpr, Failed

\* The computation of the span.
LEMMA SpanStartOrder ==
    ASSUME OrderInv, SpanStart
    PROVE  OrderInv' /\ Answers
<1>1. stack # <<>> /\ top.fn = "span" /\ top.at = "start"
  BY DEF SpanStart, At
<1>2. Heard
  BY <1>1, NobodyWaits
<1>3. CASE box.span # Unknown /\ Done("ok")
  BY <1>1, <1>2, <1>3, DoneOrder
<1>4. CASE Ask("min", "min")
  <2>1. Frame1("min") \in Good
    BY <1>1, Basics, NextFrame DEF SpanFrame, Frame1, Places
  <2> QED
    BY <1>1, <1>2, <1>4, <2>1, CalledFrom, AskOrder DEF Functions, Sizes, Places
<1> QED
  BY <1>3, <1>4 DEF SpanStart

\* Inside a computation of the greatest span, the bounds are not compared.
LEMMA SpanAfterMinOrder ==
    ASSUME OrderInv, SpanAfterMin
    PROVE  OrderInv' /\ Answers
<1>1. stack # <<>> /\ top.fn = "span" /\ top.at = "min"
  BY DEF SpanAfterMin, At
<1>2. CASE Done("error")
  BY <1>1, <1>2, ErrorOrder
<1>3. CASE ret = "ok" /\ computing /\ Go("backend")
  <2>1. Apart
    BY <1>1, <1>3, WhileComputing DEF Apart
  <2>2. Frame1("backend") \in Good
    BY <1>1, <2>1, Basics, NextFrame DEF SpanFrame, Frame1, Places
  <2> QED
    BY <1>1, <1>3, <2>2, GoOrder DEF Heard
<1>4. CASE ret = "ok" /\ Ask("max", "max")
  <2>1. box.min # Unknown
    BY <1>1, <1>4 DEF OrderInv, Answered, Sizes
  <2>2. Frame1("max") \in Good
    BY <1>1, <2>1, Basics, NextFrame DEF SpanFrame, Frame1, Places
  <2> QED
    BY <1>1, <1>4, <2>2, CalledFrom, AskOrder DEF Functions, Sizes, Places, Heard
<1> QED
  BY <1>2, <1>3, <1>4 DEF SpanAfterMin, Failed

\* The span is decided by its bounds when they meet.
LEMMA SpanAfterMaxOrder ==
    ASSUME OrderInv, SpanAfterMax
    PROVE  OrderInv' /\ Answers
<1>1. stack # <<>> /\ top.fn = "span" /\ top.at = "max"
  BY DEF SpanAfterMax, At
<1>2. box["min"] # Unknown
  BY <1>1, TopIsGood DEF GoodFrame, SpanFrame
<1>3. Sound => box["min"] = MinOf /\ (box["max"] # Unknown => box["max"] = MaxOf)
  BY <1>2, KnownIsRight, SizesOf DEF Sizes
<1>4. CASE Done("error")
  BY <1>1, <1>4, ErrorOrder
<1>5. CASE ret = "ok" /\ box["min"] = box["max"] /\ Store("span", box["max"])
  <2>1. Sound => box["max"] = SizeOf["span"]
    BY <1>2, <1>3, <1>5, SizesOf DEF SpanOf
  <2>2. box["max"] \in Int /\ ~AtFiltersDiscretion("span")
    BY Basics DEF Sizes, AtFiltersDiscretion
  <2> QED
    BY <1>1, <1>5, <2>1, <2>2, StoreOrder DEF Sizes, Heard
<1>6. CASE ret = "ok" /\ box["min"] # box["max"] /\ Go("backend")
  <2>1. Sound => Apart
    <3>1. box["max"] # Unknown \/ computing
      BY <1>1, <1>6 DEF OrderInv, Answered, Sizes
    <3>2. CASE computing
      BY <1>1, <3>2, WhileComputing DEF Apart
    <3>3. CASE box["max"] # Unknown
      BY <1>3, <1>6, <3>3 DEF Apart
    <3> QED
      BY <3>1, <3>2, <3>3
  <2>2. Frame1("backend") \in Good
    BY <1>1, <2>1, Basics, NextFrame DEF SpanFrame, Frame1, Places
  <2> QED
    BY <1>1, <1>6, <2>2, GoOrder DEF Heard
<1> QED
  BY <1>4, <1>5, <1>6 DEF SpanAfterMax, Failed

\* Otherwise the backend of the span decides it.
LEMMA SpanCallBackendOrder ==
    ASSUME OrderInv, SpanCallBackend
    PROVE  OrderInv' /\ Answers
<1>1. stack # <<>> /\ top.fn = "span" /\ top.at = "backend"
  BY DEF SpanCallBackend, At
<1>2. Heard
  BY <1>1, NobodyWaits
<1>3. Sound => Apart
  BY <1>1, TopIsGood DEF GoodFrame, SpanFrame
<1>4. CASE SpanBackend = "expr" /\ Evaluate
  <2>1. Frame1("expr") \in Good
    BY <1>1, <1>3, <1>4, Basics, NextFrame DEF SpanFrame, Frame1, Places
  <2> QED
    BY <1>1, <1>2, <1>4, <2>1, EvaluateOrder
<1>5. CASE SpanBackend = "asUsed" /\ Ask("used", "used")
  <2>1. Frame1("used") \in Good
    BY <1>1, <1>3, <1>5, Basics, NextFrame DEF SpanFrame, Frame1, Places
  <2> QED
    BY <1>1, <1>2, <1>5, <2>1, CalledFrom, AskOrder DEF Functions, Sizes, Places
<1>6. CASE SpanBackend = "asSlack" /\ Ask("slack", "slack")
  <2>1. Frame1("slack") \in Good
    BY <1>1, <1>3, <1>6, Basics, NextFrame DEF SpanFrame, Frame1, Places
  <2> QED
    BY <1>1, <1>2, <1>6, <2>1, CalledFrom, AskOrder DEF Functions, Sizes, Places
<1>7. CASE SpanBackend = "itemSize" /\ Ask("max", "item")
  <2>1. Frame1("item") \in Good
    BY <1>1, <1>3, <1>7, Basics, NextFrame DEF SpanFrame, Frame1, Places
  <2> QED
    BY <1>1, <1>2, <1>7, <2>1, CalledFrom, AskOrder DEF Functions, Sizes, Places
<1> QED
  BY <1>4, <1>5, <1>6, <1>7 DEF SpanCallBackend

\* The attribute @span, or the used size when it has no value.
LEMMA SpanExprOrder ==
    ASSUME OrderInv, SpanExpr
    PROVE  OrderInv' /\ Answers
<1>1. stack # <<>> /\ top.fn = "span" /\ top.at = "expr"
  BY DEF SpanExpr, At
<1>2. /\ SpanBackend = "expr" /\ node.kind = "composite"
      /\ Sound => Apart
  BY <1>1, TopIsGood, ExprIsComposite DEF GoodFrame, SpanFrame
<1>3. CASE Done("error")
  BY <1>1, <1>3, ErrorOrder
<1>4. CASE ret = "ok" /\ ~Enabled(<<"span">>) /\ Ask("used", "used")
  <2>1. Frame1("used") \in Good
    BY <1>1, <1>2, <1>4, Basics, NextFrame DEF SpanFrame, Frame1, Places
  <2> QED
    BY <1>1, <1>4, <2>1, CalledFrom, AskOrder DEF Functions, Sizes, Places, Heard
<1>5. CASE ret = "ok" /\ Enabled(<<"span">>) /\ Store("span", Value(<<"span">>))
  <2>1. Value(<<"span">>) \in Int
    BY <1>5, Basics, ValueIsInt
  <2>2. Sound => Value(<<"span">>) = SizeOf["span"]
    BY <1>2, <1>5, KnownIsRight, WhichAttr, SpanAttr, SizesOf
  <2>3. ~AtFiltersDiscretion("span")
    BY DEF AtFiltersDiscretion
  <2> QED
    BY <1>1, <1>5, <2>1, <2>2, <2>3, StoreOrder DEF Sizes, Heard
<1> QED
  BY <1>3, <1>4, <1>5 DEF SpanExpr, Failed

\* The span is what its backend asked for.
LEMMA SpanAfterCallOrder ==
    ASSUME OrderInv, SpanAfterCall
    PROVE  OrderInv' /\ Answers
<1>1. stack # <<>> /\ top.fn = "span" /\ top.at \in {"used", "slack", "item"}
  BY DEF SpanAfterCall, At
<1>2. /\ top.at = "used" =>
            SpanBackend = "asUsed" \/ (SpanBackend = "expr" /\ ~Enabled(<<"span">>))
      /\ top.at = "slack" => SpanBackend = "asSlack"
      /\ top.at = "item" => SpanBackend = "itemSize"
      /\ Sound => Apart
  BY <1>1, TopIsGood DEF GoodFrame, SpanFrame
<1>3. CASE Done("error")
  BY <1>1, <1>3, ErrorOrder
<1>4. ASSUME NEW v \in Int, ret = "ok", Store("span", v),
             Sound => v = SpanOf
      PROVE  OrderInv' /\ Answers
  <2>1. ~AtFiltersDiscretion("span")
    BY DEF AtFiltersDiscretion
  <2> QED
    BY <1>1, <1>4, <2>1, SizesOf, StoreOrder DEF Sizes, Heard
<1>5. CASE top.at = "used" /\ ret = "ok" /\ Store("span", box["used"])
  <2>1. box["used"] \in Int /\ box["used"] # Unknown
    BY <1>5, Basics, <1>1 DEF OrderInv, Answered, Sizes
  <2>2. ASSUME Sound PROVE box["used"] = SpanOf
    <3>1. box["used"] = UsedOr(SpanOf)
      BY <2>1, <2>2, KnownIsRight, SizesOf DEF Sizes
    <3>2. CASE MaxBackend = "asSpan"
      BY <3>1, <3>2, FixedSize
    <3>3. CASE MinOf # MaxOf
      <4>1. node.kind # "filter"
        BY <1>2, <1>5, FilterBackends
      <4>2. UsedOr(SpanOf) = UsedOr(Unknown)
        BY <4>1, UsedIsOwn
      <4>3. SpanOf = UsedOr(Unknown)
        BY <1>2, <1>5, <3>3 DEF SpanOf, OneOf
      <4> QED
        BY <3>1, <4>2, <4>3
    <3> QED
      BY <1>2, <2>2, <3>2, <3>3 DEF Apart
  <2> QED
    BY <1>4, <1>5, <2>1, <2>2
<1>6. ASSUME Sound, SpanBackend \in {"asSlack", "itemSize"}
      PROVE  SpanOf = IF SpanBackend = "asSlack" THEN node.alloc ELSE node.content
  <2>1. MinOf # MaxOf
    BY <1>2, <1>6, FilterBackends DEF Apart
  <2> QED
    BY <1>6, <2>1 DEF SpanOf
<1>7. CASE top.at = "slack" /\ ret = "ok" /\ Store("span", box["slack"])
  <2>1. box["slack"] \in Int /\ box["slack"] # Unknown
    BY <1>7, Basics, <1>1 DEF OrderInv, Answered, Sizes
  <2>2. box["slack"] = node.alloc
    BY <2>1 DEF OrderInv, SizesInv, SlackIsAlloc
  <2> QED
    BY <1>2, <1>4, <1>6, <1>7, <2>1, <2>2
<1>8. CASE top.at = "item" /\ ret = "ok" /\ Store("span", node.content)
  <2>1. node.content \in Int
    BY Basics
  <2> QED
    BY <1>2, <1>4, <1>6, <1>8, <2>1
<1> QED
  BY <1>1, <1>3, <1>5, <1>7, <1>8 DEF SpanAfterCall, Failed, At

\* The computation of the greatest span.
LEMMA MaxStartOrder ==
    ASSUME OrderInv, MaxStart
    PROVE  OrderInv' /\ Answers
<1>1. stack # <<>> /\ top.fn = "max" /\ top.at = "start"
  BY DEF MaxStart, At
<1>2. Heard
  BY <1>1, NobodyWaits
<1>3. CASE MaxIsDone /\ Done("ok")
  BY <1>1, <1>2, <1>3, DoneOrder DEF MaxIsDone
<1>4. CASE /\ ~MaxIsDone /\ computing' = TRUE /\ Goto("backend")
           /\ NoSet /\ UNCHANGED <<ret, failed>>
  <2>1. IInv'
    BY MaxKeeps DEF OrderInv
  <2>2. Sound' <=> Sound
    BY <1>4, SameBox, SameNode DEF Sound
  <2>3. Good \subseteq Good'
    BY <1>4, <2>2, SameBox, FramesStay
  <2>4. Frame1("backend") \in Good
    BY <1>1, Basics, NextFrame DEF MaxFrame, Frame1, Places
  <2>5. StackInv'
    BY <1>1, <1>4, <2>3, <2>4, Basics, SameBox, Moved
      DEF OrderInv, Frame1, Places, MaxIsDone
  <2>6. stack' # <<>> /\ top'.at = "backend"
    <3>1. [fn |-> top.fn, at |-> "backend"] \in Frame
      BY <2>4 DEF Frame1, Good
    <3> QED
      BY <1>1, <1>4, <3>1, Basics, Places1 DEF Goto, top
  <2>7. Answered' /\ ErrorsGoUp' /\ Answers
    BY <1>2, <1>4, <2>6 DEF Answered, ErrorsGoUp, Answers, Sizes, Heard
  <2> QED
    BY <1>4, <2>1, <2>2, <2>5, <2>7, SameBox, SameNode DEF OrderInv, SizesInv
<1> QED
  BY <1>3, <1>4 DEF MaxStart

\* The backend of the greatest span.
LEMMA MaxCallBackendOrder ==
    ASSUME OrderInv, MaxCallBackend
    PROVE  OrderInv' /\ Answers
<1>1. stack # <<>> /\ top.fn = "max" /\ top.at = "backend"
  BY DEF MaxCallBackend, At
<1>2. Heard
  BY <1>1, NobodyWaits
<1>3. CASE MaxBackend = "expr" /\ Evaluate
  <2>1. Frame1("expr") \in Good
    BY <1>1, <1>3, Basics, NextFrame DEF MaxFrame, Frame1, Places
  <2> QED
    BY <1>1, <1>2, <1>3, <2>1, EvaluateOrder
<1>4. CASE MaxBackend = "asSpan" /\ Ask("span", "span")
  <2>1. Frame1("span") \in Good
    BY <1>1, <1>4, Basics, NextFrame DEF MaxFrame, Frame1, Places
  <2> QED
    BY <1>1, <1>2, <1>4, <2>1, CalledFrom, AskOrder DEF Functions, Sizes, Places
<1>5. CASE MaxBackend = "asSlack" /\ Ask("slack", "slack")
  <2>1. Frame1("slack") \in Good
    BY <1>1, <1>5, Basics, NextFrame DEF MaxFrame, Frame1, Places
  <2> QED
    BY <1>1, <1>2, <1>5, <2>1, CalledFrom, AskOrder DEF Functions, Sizes, Places
<1> QED
  BY <1>3, <1>4, <1>5 DEF MaxCallBackend

\* The attributes of the greatest span, which the slack bounds.
LEMMA MaxExprOrder ==
    ASSUME OrderInv, MaxExpr
    PROVE  OrderInv' /\ Answers
<1>1. stack # <<>> /\ top.fn = "max" /\ top.at = "expr"
  BY DEF MaxExpr, At
<1>2. MaxBackend = "expr"
  BY <1>1, TopIsGood DEF GoodFrame, MaxFrame
<1>3. CASE Done("error")
  BY <1>1, <1>3, ErrorOrder
<1>4. CASE ret = "ok" /\ ~Enabled(MaxAttrs) /\ Ask("slack", "slack")
  <2>1. Frame1("slack") \in Good
    BY <1>1, <1>2, <1>4, Basics, NextFrame DEF MaxFrame, Frame1, Places
  <2> QED
    BY <1>1, <1>4, <2>1, CalledFrom, AskOrder DEF Functions, Sizes, Places, Heard
<1>5. CASE ret = "ok" /\ Enabled(MaxAttrs) /\ ~Bad(MaxAttrs) /\ Ask("slack", "bound")
  <2>1. Frame1("bound") \in Good
    BY <1>1, <1>2, <1>5, Basics, NextFrame DEF MaxFrame, Frame1, Places
  <2> QED
    BY <1>1, <1>5, <2>1, CalledFrom, AskOrder DEF Functions, Sizes, Places, Heard
<1> QED
  BY <1>3, <1>4, <1>5 DEF MaxExpr, Failed

\* A span that is larger than the slack is refused: the least span, which is the
\* same, does not fit in the greatest.
LEMMA SpanInSlack ==
    ASSUME NEW b \in [Sizes -> Int], node \in BoxRecord, overlay \in BOOLEAN,
           NEW v \in Nat, NEW w \in Nat, b["span"] # Unknown => b["span"] = v,
           Fits(b, "max", w), Fits(Set(b, "max", w), "min", v)
    PROVE  v <= w
<1> DEFINE c == Set(b, "max", w)
<1>1. /\ c \in [Sizes -> Int] /\ c["max"] = w
      /\ c["used"] = b["used"] /\ c["span"] = b["span"]
  BY DEF Set, Sizes
<1>2. WithinBounds(b, "max", w) /\ WithinBounds(c, "min", v)
  BY DEF Fits, AtFiltersDiscretion
<1> HIDE DEF c
<1>3. /\ b["span"] # Unknown => w >= b["span"]
      /\ b["span"] = Unknown /\ overlay /\ b["used"] # Unknown => w >= b["used"]
  BY <1>2, BoundsOfMax
<1>4. /\ overlay /\ c["used"] # Unknown => v <= c["used"]
      /\ ~(overlay /\ c["used"] # Unknown) /\ c["span"] = Unknown
           /\ c["max"] # Unknown => v <= c["max"]
  BY <1>1, <1>2, BoundsOfMin
<1>5. b["used"] \in Int /\ w # Unknown
  BY DEF Sizes, Unknown
<1> QED
  BY <1>1, <1>3, <1>4, <1>5

\* The greatest span is the attribute, or the slack when that is less.
LEMMA MaxBoundOrder ==
    ASSUME OrderInv, MaxBound
    PROVE  OrderInv' /\ Answers
<1> DEFINE v == Value(MaxAttrs)
           w == Lesser(v, box["slack"])
<1>1. stack # <<>> /\ top.fn = "max" /\ top.at = "bound"
  BY DEF MaxBound, At
<1>2. /\ MaxBackend = "expr" /\ node.kind = "composite"
      /\ Enabled(MaxAttrs) /\ ~Bad(MaxAttrs)
  BY <1>1, TopIsGood, ExprIsComposite DEF GoodFrame, MaxFrame
<1>3. v \in Nat
  BY <1>2, Basics, ValueIsInt DEF Bad
<1>4. CASE Done("error")
  BY <1>1, <1>4, ErrorOrder
<1>5. ASSUME ret = "ok"
      PROVE  box["slack"] = node.alloc /\ w \in Nat /\ w = Lesser(v, node.alloc)
  <2>1. box["slack"] # Unknown
    BY <1>1, <1>5 DEF OrderInv, Answered
  <2>2. box["slack"] = node.alloc
    BY <2>1 DEF OrderInv, SizesInv, SlackIsAlloc
  <2> HIDE DEF v
  <2> QED
    BY <1>3, <2>2, Basics DEF Lesser
<1>6. CASE /\ ret = "ok" /\ First(MaxAttrs) = "span"
           /\ Store2("max", w, "min", v)
  <2>1. "span" \in node.enabled /\ v = node.attr["span"]
    BY <1>2, <1>6, WhichAttr DEF Value
  <2>2. ASSUME Fits(box, "max", w), Fits(Set(box, "max", w), "min", v), Sound
        PROVE  w = SizeOf["max"] /\ v = SizeOf["min"]
    <3>1. MinOf = v /\ MaxOf = v /\ SpanOf = v
      BY <1>2, <2>1, <2>2, KnownIsRight, SpanAttr
    <3>2. box["span"] # Unknown => box["span"] = v
      BY <2>2, <3>1, KnownIsRight, SizesOf DEF Sizes
    <3> HIDE DEF v, w
    <3>3. v <= w
      BY <1>3, <1>5, <1>6, <2>2, <3>2, Basics, SpanInSlack
    <3>4. w <= v
      BY <1>3, <1>5, <1>6, Basics DEF Lesser
    <3>5. v = w
      BY <1>3, <1>5, <1>6, <3>3, <3>4
    <3> QED
      BY <3>1, <3>5, SizesOf
  <2> HIDE DEF v, w
  <2> QED
    BY <1>1, <1>3, <1>5, <1>6, <2>2, Store2Order DEF Heard
<1>7. CASE ret = "ok" /\ First(MaxAttrs) # "span" /\ Store("max", w)
  <2>1. "maxspan" \in node.enabled /\ v = node.attr["maxspan"]
    BY <1>2, <1>7, WhichAttr DEF Value
  <2>2. w = SizeOf["max"]
    BY <1>2, <1>5, <1>7, <2>1, SizesOf DEF MaxOf
  <2>3. ~AtFiltersDiscretion("max")
    BY DEF AtFiltersDiscretion
  <2> HIDE DEF v, w
  <2> QED
    BY <1>1, <1>5, <1>7, <2>2, <2>3, StoreOrder DEF Sizes, Heard
<1> QED
  BY <1>4, <1>6, <1>7 DEF MaxBound, Failed

\* The greatest span is the span of a fixed size, or the slack.
LEMMA MaxAfterCallOrder ==
    ASSUME OrderInv, MaxAfterCall
    PROVE  OrderInv' /\ Answers
<1>1. stack # <<>> /\ top.fn = "max" /\ top.at \in {"span", "slack"}
  BY DEF MaxAfterCall, At
<1>2. /\ top.at = "span" => MaxBackend = "asSpan"
      /\ top.at = "slack" =>
            MaxBackend = "asSlack" \/ (MaxBackend = "expr" /\ ~Enabled(MaxAttrs))
  BY <1>1, TopIsGood DEF GoodFrame, MaxFrame
<1>3. ~AtFiltersDiscretion("max")
  BY DEF AtFiltersDiscretion
<1>4. CASE Done("error")
  BY <1>1, <1>4, ErrorOrder
<1>5. CASE top.at = "span" /\ ret = "ok" /\ Store("max", box["span"])
  <2>1. box["span"] \in Int /\ box["span"] # Unknown
    BY <1>5, Basics, <1>1 DEF OrderInv, Answered, Sizes
  <2>2. Sound => box["span"] = SizeOf["max"]
    BY <1>2, <1>5, <2>1, KnownIsRight, FixedSize, SizesOf DEF Sizes
  <2> QED
    BY <1>1, <1>3, <1>5, <2>1, <2>2, StoreOrder DEF Sizes, Heard
<1>6. CASE top.at = "slack" /\ ret = "ok" /\ Store("max", box["slack"])
  <2>1. box["slack"] \in Int /\ box["slack"] # Unknown
    BY <1>6, Basics, <1>1 DEF OrderInv, Answered, Sizes
  <2>2. box["slack"] = node.alloc
    BY <2>1 DEF OrderInv, SizesInv, SlackIsAlloc
  <2>3. MaxOf = node.alloc
    BY <1>2, <1>6, WhichAttr DEF MaxOf, OneOf
  <2> QED
    BY <1>1, <1>3, <1>6, <2>1, <2>2, <2>3, SizesOf, StoreOrder DEF Sizes, Heard
<1> QED
  BY <1>1, <1>4, <1>5, <1>6 DEF MaxAfterCall, Failed, At

\* A used size asked for while the greatest span is computed is fixed.
LEMMA UsedIsAlone ==
    ASSUME OrderInv, stack # <<>>, top.fn = "used", UsedBackend # "const"
    PROVE  ~computing
BY WhileComputing, FixedSize

\* The computation of the used size.
LEMMA UsedStartOrder ==
    ASSUME OrderInv, UsedStart
    PROVE  OrderInv' /\ Answers
<1>1. stack # <<>> /\ top.fn = "used" /\ top.at = "start"
  BY DEF UsedStart, At
<1>2. Heard
  BY <1>1, NobodyWaits
<1>3. CASE box.used # Unknown /\ Done("ok")
  BY <1>1, <1>2, <1>3, DoneOrder
<1>4. ASSUME NEW v \in Nat, Store("used", v), Sound => v = UsedOr(SpanOf)
      PROVE  OrderInv' /\ Answers
  BY <1>1, <1>2, <1>4, SizesOf, StoreOrder DEF Sizes
<1>5. ASSUME NEW f \in Functions, NEW place \in Places \ {"start"},
             Ask(f, place), f \in CalledAt(place), UsedFrame(Frame1(place))
      PROVE  OrderInv' /\ Answers
  <2>1. Frame1(place) \in Good
    BY <1>1, <1>5, Basics, NextFrame
  <2> QED
    BY <1>1, <1>2, <1>5, <2>1, AskOrder
<1>6. CASE UsedBackend = "const" /\ Store("used", node.hard)
  BY <1>4, <1>6, Basics DEF UsedOr
<1>7. CASE UsedBackend = "count" /\ Store("used", node.content)
  BY <1>4, <1>7, Basics DEF UsedOr
<1>8. CASE UsedBackend \in {"asMaxSpan", "slackItems"} /\ Ask("max", "max")
  <2>1. UsedFrame(Frame1("max"))
    BY <1>8 DEF UsedFrame, Frame1
  <2> QED
    BY <1>5, <1>8, <2>1, CalledFrom DEF Functions, Sizes, Places
<1>9. CASE UsedBackend = "asSlack" /\ items # Unknown /\ Store("used", items)
  <2>1. items \in Nat
    BY <1>9 DEF OrderInv, SizesInv, NaturalSizes, Natural
  <2>2. Sound => items = UsedOr(SpanOf)
    BY <1>9, KnownIsRight DEF UsedOr
  <2> QED
    BY <1>4, <1>9, <2>1, <2>2
<1>10. CASE UsedBackend = "asSlack" /\ Ask("slack", "slack")
  <2>1. UsedFrame(Frame1("slack"))
    BY <1>10 DEF UsedFrame, Frame1
  <2> QED
    BY <1>5, <1>10, <2>1, CalledFrom DEF Functions, Sizes, Places
<1>11. CASE UsedBackend = "asSpan" /\ Ask("span", "span")
  <2>1. UsedFrame(Frame1("span"))
    BY <1>11 DEF UsedFrame, Frame1
  <2> QED
    BY <1>5, <1>11, <2>1, CalledFrom DEF Functions, Sizes, Places
<1>12. CASE UsedBackend = "contents" /\ Has("constItems") /\ Store("used", node.content)
  BY <1>4, <1>12, Basics DEF UsedOr
<1>13. CASE UsedBackend = "contents" /\ computing
  BY <1>1, <1>13, UsedIsAlone
<1>14. CASE UsedBackend = "contents" /\ ~Has("constItems") /\ Ask("max", "contents")
  <2>1. UsedFrame(Frame1("contents"))
    BY <1>14 DEF UsedFrame, Frame1
  <2> QED
    BY <1>5, <1>14, <2>1, CalledFrom DEF Functions, Sizes, Places
<1>15. CASE UsedBackend = "apply" /\ (Ask("span", "apply") \/ Ask("max", "apply"))
  <2>1. UsedFrame(Frame1("apply"))
    BY <1>15 DEF UsedFrame, Frame1
  <2> QED
    BY <1>5, <1>15, <2>1, CalledFrom DEF Functions, Sizes, Places
<1> QED
  BY <1>3, <1>6, <1>7, <1>8, <1>9, <1>10, <1>11, <1>12, <1>13, <1>14, <1>15
    DEF UsedStart

\* The used size is the greatest span, or the items that fit, or the span.
LEMMA UsedAfterCallOrder ==
    ASSUME OrderInv, UsedAfterCall
    PROVE  OrderInv' /\ Answers
<1>1. stack # <<>> /\ top.fn = "used" /\ top.at \in {"max", "span"}
  BY DEF UsedAfterCall, At
<1>2. /\ top.at = "max" => UsedBackend \in {"asMaxSpan", "slackItems"}
      /\ top.at = "span" =>
            UsedBackend = "asSpan" \/ (UsedBackend = "apply" /\ ~Has("data"))
  BY <1>1, TopIsGood DEF GoodFrame, UsedFrame
<1>3. CASE Done("error")
  BY <1>1, <1>3, ErrorOrder
<1>4. ASSUME NEW v \in Nat, ret = "ok", Store("used", v),
             Sound => v = UsedOr(SpanOf)
      PROVE  OrderInv' /\ Answers
  BY <1>1, <1>4, SizesOf, StoreOrder DEF Sizes, Heard
<1>5. CASE /\ top.at = "max" /\ ret = "ok"
           /\ Store("used", IF UsedBackend = "asMaxSpan" THEN box["max"]
                            ELSE box["max"] - (box["max"] % ItemSize))
  <2> DEFINE m == box["max"]
             r == m - (m % ItemSize)
             v == IF UsedBackend = "asMaxSpan" THEN m ELSE r
  <2>1. ~computing
    BY <1>1, <1>2, <1>5, UsedIsAlone
  <2>2. m # Unknown
    BY <1>1, <1>5, <2>1 DEF OrderInv, Answered, Sizes
  <2>3. m \in Nat
    BY <2>2 DEF OrderInv, SizesInv, NaturalSizes, Natural, Sizes
  <2>4. Sound => m = MaxOf
    BY <2>2, KnownIsRight, SizesOf DEF Sizes
  <2>5. Sound => v = UsedOr(SpanOf)
    BY <1>2, <1>5, <2>4 DEF UsedOr
  <2>6. r \in Nat
    <3> HIDE DEF m
    <3> QED
      BY <2>3 DEF ItemSize
  <2>7. v \in Nat
    <3> HIDE DEF m, r, UsedBackend
    <3> QED
      BY <2>3, <2>6
  <2> HIDE DEF v
  <2> QED
    BY <1>4, <1>5, <2>5, <2>7 DEF v
<1>6. CASE top.at = "span" /\ ret = "ok" /\ Store("used", box["span"])
  <2>1. box["span"] # Unknown
    BY <1>1, <1>6 DEF OrderInv, Answered, Sizes
  <2>2. box["span"] \in Nat
    BY <2>1 DEF OrderInv, SizesInv, NaturalSizes, Natural, Sizes
  <2>3. Sound => box["span"] = UsedOr(SpanOf)
    BY <1>2, <1>6, <2>1, KnownIsRight, SizesOf DEF Sizes, UsedOr
  <2> QED
    BY <1>4, <1>6, <2>2, <2>3
<1> QED
  BY <1>1, <1>3, <1>5, <1>6 DEF UsedAfterCall, Failed, At

\* Without a nearer bound, a used size is compared with the end of the parent.
LEMMA UsedInParent ==
    ASSUME NEW b \in [Sizes -> Int], node \in BoxRecord, NEW v \in Int,
           b["span"] = Unknown, b["max"] = Unknown, WithinBounds(b, "used", v)
    PROVE  v <= node.parent
<1> DEFINE q == AtMost["used"]
<1>1. q = <<"span", "max", "parent">>
  BY DEF AtMost
<1>2. node.parent \in Nat
  BY DEF BoxRecord
<1>3. DOMAIN q = 1 .. 3 /\ q[1] = "span" /\ q[2] = "max" /\ q[3] = "parent"
  BY <1>1
<1>4. IsNearest(b, q, 3)
  BY <1>2, <1>3 DEF IsNearest, KnownIn, SizeIn, Unknown
<1>5. v <= SizeIn(b, q[3])
  BY <1>3, <1>4 DEF WithinBounds
<1> QED
  BY <1>3, <1>5 DEF SizeIn

\* A byte array without a count takes the slack; in a right-aligned box whose span
\* is not known yet, the count it computes is refused.
LEMMA UsedOfSlackOrder ==
    ASSUME OrderInv, UsedOfSlack
    PROVE  OrderInv' /\ Answers
<1>1. stack # <<>> /\ top.fn = "used" /\ top.at = "slack"
  BY DEF UsedOfSlack, At
<1>2. UsedBackend = "asSlack"
  BY <1>1, TopIsGood DEF GoodFrame, UsedFrame
<1>3. CASE Done("error")
  BY <1>1, <1>3, ErrorOrder
<1>4. CASE /\ ret = "ok" /\ items' = SlackItems
           /\ SetAndReturn("used", SlackItems) /\ UNCHANGED <<node, overlay>>
  <2> DEFINE v == SlackItems
  <2>1. box["slack"] # Unknown
    BY <1>1, <1>4 DEF OrderInv, Answered, Sizes
  <2>2. box["slack"] = node.alloc /\ node.alloc <= node.parent
    BY <2>1 DEF OrderInv, SizesInv, SlackIsAlloc
  <2>3. box["span"] = Unknown \/ box["span"] \in Nat
    BY DEF OrderInv, SizesInv, NaturalSizes, Natural, Sizes
  <2>4. v \in Nat
    BY <2>2, <2>3, Basics DEF SlackItems
  <2>5. MaxOf = node.alloc /\ SpanOf = node.alloc /\ UsedOr(SpanOf) = node.alloc
    <3>1. node.kind = "byte_array" /\ Has("variable")
      BY <1>2 DEF UsedBackend
    <3>2. MaxBackend = "asSlack" /\ SpanBackend = "asUsed"
      BY <3>1 DEF MaxBackend, SpanBackend
    <3> QED
      BY <1>2, <3>2 DEF MaxOf, SpanOf, UsedOr
  <2>6. ASSUME Fits(box, "used", v), Sound
        PROVE  v = node.alloc
    <3>1. CASE ~node.ralign
      BY <2>2, <3>1 DEF SlackItems
    <3>2. CASE node.ralign /\ box["span"] # Unknown
      BY <2>5, <2>6, <3>2, KnownIsRight, SizesOf DEF SlackItems, Sizes
    <3>3. CASE node.ralign /\ box["span"] = Unknown
      <4>1. v = node.parent + 1
        BY <3>3 DEF SlackItems
      <4>2. WithinBounds(box, "used", v)
        BY <2>6, <3>3 DEF Fits, AtFiltersDiscretion
      <4> HIDE DEF v
      <4>3. CASE box["max"] = Unknown
        BY <2>4, <3>3, <4>1, <4>2, <4>3, Basics, UsedInParent
      <4>4. CASE box["max"] # Unknown
        <5>1. box["max"] = node.alloc
          BY <2>5, <2>6, <4>4, KnownIsRight, SizesOf DEF Sizes
        <5>2. v <= box["max"]
          BY <2>4, <3>3, <4>2, <4>4, Basics, BoundsOfUsed
        <5> QED
          BY <2>2, <4>1, <5>1, <5>2, Basics
      <4> QED
        BY <4>3, <4>4
    <3> QED
      BY <3>1, <3>2, <3>3
  <2>7. items' = v /\ SetAndReturn("used", v)
    BY <1>4
  <2> HIDE DEF v
  <2>8. items' \in Int /\ Natural(items') /\ v \in Int
    BY <2>4, <2>7 DEF Natural
  <2>9. Fits(box, "used", v) /\ Sound =>
           v = SizeOf["used"] /\ (items' # Unknown => items' = node.alloc)
    BY <2>5, <2>6, <2>7, SizesOf
  <2> QED
    BY <1>1, <1>4, <2>4, <2>7, <2>8, <2>9, SetOrder DEF Sizes, Heard
<1> QED
  BY <1>3, <1>4 DEF UsedOfSlack, Failed

\* The children of a greedy node may take all that the node may span.
LEMMA GreedyTakesAll ==
    ASSUME OrderInv, ~computing, box["max"] # Unknown
    PROVE  /\ ChildLimit \in Nat
           /\ Sound /\ UsedBackend = "contents" /\ Has("greedy") /\ ~Has("constItems")
                => ChildLimit = MaxOf
<1> DEFINE q == <<"used", "span", "max", "slack", "parent">>
           i == CHOOSE j \in DOMAIN q : IsClosest(q, j)
<1>1. /\ DOMAIN q = 1 .. 5
      /\ q[1] = "used" /\ q[2] = "span" /\ q[3] = "max" /\ q[4] = "slack"
      /\ q[5] = "parent"
  OBVIOUS
<1>2. \A s \in Sizes : SizeIn(box, s) = box[s]
  BY DEF SizeIn, Sizes
<1>3. \E j \in 1 .. 5 : IsClosest(q, j)
  <2>1. CASE box["used"] # Unknown
    BY <1>1, <1>2, <2>1 DEF IsClosest, Sizes
  <2>2. CASE box["used"] = Unknown /\ box["span"] # Unknown
    BY <1>1, <1>2, <2>2 DEF IsClosest, Sizes
  <2>3. CASE box["used"] = Unknown /\ box["span"] = Unknown
    BY <1>1, <1>2, <2>3 DEF IsClosest, Sizes
  <2> QED
    BY <2>1, <2>2, <2>3
<1>4. ChildLimit = SizeIn(box, q[i])
  BY DEF ChildLimit, KnownEnd
<1>5. i \in 1 .. 5 /\ IsClosest(q, i)
  BY <1>1, <1>3
<1> HIDE DEF i
<1>6. i \in 1 .. 3
  <2> SUFFICES ASSUME i \in 4 .. 5 PROVE FALSE
    BY <1>5
  <2>1. 3 \in 1 .. (i - 1)
    OBVIOUS
  <2>2. SizeIn(box, q[3]) = Unknown
    BY <1>5, <2>1 DEF IsClosest
  <2> QED
    BY <1>1, <1>2, <2>2 DEF Sizes
<1>7. q[i] \in {"used", "span", "max"} /\ q[i] \in Sizes
  BY <1>1, <1>6 DEF Sizes
<1>8. ChildLimit = box[q[i]] /\ ChildLimit # Unknown
  BY <1>2, <1>4, <1>5, <1>7 DEF IsClosest
<1>9. ChildLimit \in Nat
  BY <1>7, <1>8 DEF OrderInv, SizesInv, NaturalSizes, Natural
<1>10. ASSUME Sound, UsedBackend = "contents", Has("greedy"), ~Has("constItems")
       PROVE  ChildLimit = MaxOf
  <2>1. \A u : UsedOr(u) = MaxOf
    BY <1>10 DEF UsedOr
  <2>2. SpanOf = MaxOf
    <3>1. CASE SpanBackend = "expr" /\ "span" \in node.enabled
      BY <1>10, <3>1, KnownIsRight, SpanAttr, ExprIsComposite
    <3>2. CASE SpanBackend = "expr" /\ "span" \notin node.enabled
      BY <2>1, <3>2, WhichAttr DEF SpanOf, OneOf
    <3>3. CASE SpanBackend # "expr"
      <4>1. SpanBackend = "asUsed"
        BY <1>10, <3>3, FilterBackends DEF SpanBackend
      <4> QED
        BY <2>1, <4>1 DEF SpanOf
    <3> QED
      BY <3>1, <3>2, <3>3
  <2>3. ChildLimit = SizeOf[q[i]]
    BY <1>7, <1>8, <1>10, KnownIsRight
  <2> QED
    BY <1>7, <2>1, <2>2, <2>3, SizesOf
<1> QED
  BY <1>9, <1>10

\* The used size of a node is what its children take.
LEMMA UsedOfContentsOrder ==
    ASSUME OrderInv, UsedOfContents
    PROVE  OrderInv' /\ Answers
<1>1. stack # <<>> /\ top.fn = "used" /\ top.at = "contents"
  BY DEF UsedOfContents, At
<1>2. UsedBackend = "contents" /\ ~Has("constItems")
  BY <1>1, TopIsGood DEF GoodFrame, UsedFrame
<1>3. ~computing
  BY <1>1, <1>2, UsedIsAlone
<1>4. CASE Done("error")
  BY <1>1, <1>4, ErrorOrder
<1>5. CASE ret = "ok" /\ Has("greedy") /\ Store("used", ChildLimit)
  <2>1. box["max"] # Unknown
    BY <1>1, <1>3, <1>5 DEF OrderInv, Answered
  <2>2. ChildLimit \in Nat /\ (Sound => ChildLimit = MaxOf)
    BY <1>2, <1>3, <1>5, <2>1, GreedyTakesAll
  <2>3. UsedOr(SpanOf) = MaxOf
    BY <1>2, <1>5 DEF UsedOr
  <2> HIDE DEF ChildLimit
  <2> QED
    BY <1>1, <1>5, <2>2, <2>3, SizesOf, StoreOrder DEF Sizes, Heard
<1>6. CASE ret = "ok" /\ ~Has("greedy") /\ Store("used", node.content)
  <2>1. UsedOr(SpanOf) = node.content
    BY <1>2, <1>6 DEF UsedOr
  <2> QED
    BY <1>1, <1>6, <2>1, Basics, SizesOf, StoreOrder DEF Sizes, Heard
<1> QED
  BY <1>3, <1>4, <1>5, <1>6 DEF UsedOfContents, Failed

\* The output of a filter is its own data, or the span of its box.
LEMMA UsedByFilterOrder ==
    ASSUME OrderInv, UsedByFilter
    PROVE  OrderInv' /\ Answers
<1>1. stack # <<>> /\ top.fn = "used" /\ top.at = "apply" /\ UsedBackend = "apply"
  BY DEF UsedByFilter, At
<1>2. IInv'
  BY UsedKeeps DEF OrderInv
<1>3. CASE Done("error")
  BY <1>1, <1>3, ErrorOrder
<1>4. CASE /\ ret = "ok" /\ Has("data") /\ box' = Set(box, "used", node.out)
           /\ Return("ok") /\ UNCHANGED <<node, items>>
  <2>1. SizeOf["used"] = node.out /\ node.out \in Nat
    BY <1>1, <1>4, Basics, SizesOf DEF UsedOr
  <2>2. node' = node /\ items' = items
    BY <1>4
  <2>3. Natural(items') /\ (Sound /\ items' # Unknown => items' = node.alloc)
    BY <2>2 DEF OrderInv, SizesInv, NaturalSizes, SizesRight
  <2> QED
    BY <1>1, <1>2, <1>4, <2>1, <2>2, <2>3, WriteOrder DEF Sizes, Heard
<1>5. CASE /\ ret = "ok" /\ ~Has("data") /\ Call("span", "span")
           /\ UNCHANGED <<node, box, items, ret, failed, computing>>
  <2>1. /\ node' = node /\ box' = box /\ items' = items /\ ret' = ret
        /\ failed' = failed /\ computing' = computing
    BY <1>5
  <2>2. Sound' <=> Sound
    BY <2>1, SameNode DEF Sound
  <2>3. Good \subseteq Good'
    BY <2>1, <2>2, FramesStay
  <2>4. Frame1("span") \in Good
    BY <1>1, <1>5, Basics, NextFrame DEF UsedFrame, Frame1, Places
  <2>5. ~computing
    BY <1>1, UsedIsAlone
  <2>6. StackInv'
    BY <1>1, <1>5, <2>1, <2>3, <2>4, <2>5, Basics, CalledFrom, Pushed
      DEF OrderInv, Frame1, Functions, Sizes, Places
  <2>7. stack' # <<>> /\ top'.at = "start"
    <3>1. /\ [fn |-> "span", at |-> "start"] \in Frame
          /\ [fn |-> top.fn, at |-> "span"] \in Frame
      BY <1>1, Basics DEF Frame, Places, Functions, Sizes
    <3> QED
      BY <1>1, <1>5, <3>1, Basics, Places2 DEF Call, top
  <2>8. Answered' /\ ErrorsGoUp' /\ Answers
    BY <1>5, <2>1, <2>7 DEF Answered, ErrorsGoUp, Answers, Sizes
  <2>9. SizesInv'
    BY <2>1, <2>2, SameNode
      DEF OrderInv, SizesInv, NaturalSizes, Natural, SlackIsAlloc, SizesRight
  <2> QED
    BY <1>2, <2>1, <2>6, <2>8, <2>9, SameNode DEF OrderInv
<1> QED
  BY <1>3, <1>4, <1>5 DEF UsedByFilter, Failed

\* The slack is what the parent allots.
LEMMA SlackStartOrder ==
    ASSUME OrderInv, SlackStart
    PROVE  OrderInv' /\ Answers
<1>1. stack # <<>> /\ top.fn = "slack" /\ top.at = "start"
  BY DEF SlackStart, At
<1>2. Heard
  BY <1>1, NobodyWaits
<1>3. CASE box.slack # Unknown /\ Done("ok")
  BY <1>1, <1>2, <1>3, DoneOrder
<1>4. CASE Done("error")
  BY <1>1, <1>4, ErrorOrder
<1>5. CASE Store("slack", node.alloc)
  BY <1>1, <1>2, <1>5, Basics, SizesOf, StoreOrder DEF Sizes
<1> QED
  BY <1>3, <1>4, <1>5 DEF SlackStart

-----------------------------------------------------------------------------
\* A step that leaves the sizes, the answer and the failures alone.
LEMMA QuietOrder ==
    ASSUME OrderInv, IInv',
           UNCHANGED <<node, box, computing, items, ret, failed>>
    PROVE  /\ Good \subseteq Good' /\ EnabledDeclared' /\ SizesInv'
<1>1. /\ node' = node /\ box' = box /\ items' = items /\ ret' = ret
      /\ failed' = failed /\ computing' = computing
  OBVIOUS
<1>2. Sound' <=> Sound
  BY <1>1, SameNode DEF Sound
<1>3. Good \subseteq Good'
  BY <1>1, <1>2, FramesStay
<1> QED
  BY <1>1, <1>2, <1>3, SameNode
    DEF OrderInv, SizesInv, NaturalSizes, Natural, SlackIsAlloc, SizesRight

\* Asking for a size, when no answer is being computed.
LEMMA QueryOrder ==
    ASSUME OrderInv, NEW s \in Sizes, Query(s)
    PROVE  OrderInv' /\ Answers
<1> DEFINE f == [fn |-> s, at |-> "start"]
<1>1. /\ stack = <<>> /\ stack' = <<f>>
      /\ UNCHANGED <<node, box, computing, items, ret, failed>>
  BY DEF Query, Silent, NoSet, Same
<1>2. IInv'
  BY OtherKeeps DEF OrderInv
<1>3. Good \subseteq Good' /\ EnabledDeclared' /\ SizesInv'
  BY <1>1, <1>2, QuietOrder
<1>4. f \in Good'
  BY <1>3, StartIsGood DEF Functions
<1>5. Len(stack') = 1 /\ stack'[1] = f /\ ~Computes(f) /\ stack' # <<>> /\ top' = f
      /\ Len(stack) = 0
  BY <1>1 DEF Computes, top
<1>6. ~computing
  BY <1>5 DEF OrderInv, StackInv, OneComputes
<1>7. Heard
  BY <1>1, NobodyWaits
<1> HIDE DEF f
<1>8. StackInv'
  BY <1>1, <1>4, <1>5, <1>6
    DEF StackInv, GoodFrames, Calls, OneComputes, Above
<1>9. f.at \notin Sizes \cup {"bound", "contents"}
  BY DEF f, Sizes
<1>10. Answered' /\ ErrorsGoUp' /\ Answers
  BY <1>1, <1>5, <1>7, <1>9 DEF Answered, ErrorsGoUp, Answers, Heard
<1> QED
  BY <1>2, <1>3, <1>8, <1>10 DEF OrderInv

\* The box becomes an overlay, or nothing happens.
LEMMA OverlayOrder ==
    ASSUME OrderInv, ApplyOverlay \/ UNCHANGED vars
    PROVE  OrderInv' /\ Answers
<1>1. /\ stack' = stack
      /\ UNCHANGED <<node, box, computing, items, ret, failed>>
  BY DEF ApplyOverlay, vars
<1>2. IInv'
  BY NextIInv DEF OrderInv, Next
<1>3. Good \subseteq Good' /\ EnabledDeclared' /\ SizesInv'
  BY <1>1, <1>2, QuietOrder
<1>4. top' = top /\ MaxBackend' = MaxBackend
  BY <1>1, SameNode DEF top
<1>5. StackInv'
  BY <1>1, <1>3, <1>4
    DEF OrderInv, StackInv, GoodFrames, Calls, OneComputes, Above
<1>6. Answered' /\ ErrorsGoUp'
  BY <1>1, <1>4 DEF OrderInv, Answered, ErrorsGoUp
<1>7. Answers
  BY <1>1 DEF Answers
<1> QED
  BY <1>2, <1>3, <1>5, <1>6, <1>7 DEF OrderInv

-----------------------------------------------------------------------------
\* Nobody has asked anything of a box that was just made.
LEMMA InitOrder == Init => OrderInv
<1> SUFFICES ASSUME Init PROVE OrderInv
  OBVIOUS
<1>1. /\ stack = <<>> /\ Len(stack) = 0 /\ ~computing /\ ret = "ok"
      /\ items = Unknown /\ \A s \in Sizes : box[s] = Unknown
  BY DEF Init
<1>2. EnabledDeclared
  BY BoxesAssumption DEF Init, EnabledDeclared
<1>3. StackInv
  BY <1>1 DEF StackInv, GoodFrames, Calls, OneComputes, Above
<1>4. Answered /\ ErrorsGoUp
  BY <1>1 DEF Answered, ErrorsGoUp
<1>5. SizesInv
  BY <1>1 DEF SizesInv, NaturalSizes, Natural, SlackIsAlloc, SizesRight, Sizes
<1> QED
  BY <1>2, <1>3, <1>4, <1>5, InitIInv DEF OrderInv

\* Every step keeps the inductive invariant, and answers with a known size.
LEMMA NextOrder == OrderInv /\ [Next]_vars => OrderInv' /\ Answers
<1> SUFFICES ASSUME OrderInv, [Next]_vars PROVE OrderInv' /\ Answers
  OBVIOUS
<1>1. CASE MinStart \/ MinExpr
  BY <1>1, MinStartOrder, MinExprOrder
<1>2. CASE SpanStart \/ SpanAfterMin \/ SpanAfterMax
  BY <1>2, SpanStartOrder, SpanAfterMinOrder, SpanAfterMaxOrder
<1>3. CASE SpanCallBackend \/ SpanExpr \/ SpanAfterCall
  BY <1>3, SpanCallBackendOrder, SpanExprOrder, SpanAfterCallOrder
<1>4. CASE MaxStart \/ MaxCallBackend \/ MaxExpr
  BY <1>4, MaxStartOrder, MaxCallBackendOrder, MaxExprOrder
<1>5. CASE MaxBound \/ MaxAfterCall
  BY <1>5, MaxBoundOrder, MaxAfterCallOrder
<1>6. CASE UsedStart \/ UsedAfterCall \/ UsedOfSlack
  BY <1>6, UsedStartOrder, UsedAfterCallOrder, UsedOfSlackOrder
<1>7. CASE UsedOfContents \/ UsedByFilter \/ SlackStart
  BY <1>7, UsedOfContentsOrder, UsedByFilterOrder, SlackStartOrder
<1>8. CASE \E s \in Sizes : Query(s)
  BY <1>8, QueryOrder
<1>9. CASE ApplyOverlay \/ UNCHANGED vars
  BY <1>9, OverlayOrder
<1> QED
  BY <1>1, <1>2, <1>3, <1>4, <1>5, <1>6, <1>7, <1>8, <1>9 DEF Next, Step

\* Whoever asks first, and in whatever order, every size that becomes known is
\* the one the node defines, as long as nothing failed and at most one of the
\* span attributes is declared (box_compute_min_span_size() and the others in
\* core/browse.c, which call each other).
THEOREM OrderDoesNotMatterAlways == Spec => []OrderDoesNotMatter
<1>1. OrderInv => OrderDoesNotMatter
  BY DEF OrderInv, SizesInv, SizesRight, Sound, OrderDoesNotMatter
<1> QED
  BY <1>1, InitOrder, NextOrder, PTL DEF Spec

\* A computation that reports success has made the size it was asked for known:
\* the assertion of box_compute_offset_internal() never fails.
THEOREM AnswersAreKnownAlways == Spec => AnswersAreKnown
<1>1. Answers => (Len(stack) = 1 /\ stack' = <<>> /\ ret' = "ok"
                     => box'[top.fn] # Unknown)
  BY DEF Answers
<1>2. OrderInv /\ [Next]_vars =>
        [Len(stack) = 1 /\ stack' = <<>> /\ ret' = "ok"
            => box'[top.fn] # Unknown]_vars
  BY <1>1, NextOrder
<1> QED
  BY <1>2, InitOrder, NextOrder, PTL DEF Spec, AnswersAreKnown
=============================================================================
