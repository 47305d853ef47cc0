------------------------------ MODULE Structs ------------------------------
(***************************************************************************)
(* Structures: their statements, which of them a name stands for, when the *)
(* schema is compiled (core/ast.c) and when it is evaluated (core/scope.c),*)
(* and where their fields are in the data.  A field without a name shares  *)
(* its members with the structure around it; when it has none to share, it *)
(* is hidden.                                                              *)
(***************************************************************************)
EXTENDS Integers, Sequences, SequencesExt, FiniteSetsExt

CONSTANTS
    Names,          \* the names of members
    Schemas         \* the schemas a run chooses from

NoName == ""
Leaf == ""

(***************************************************************************)
(* A schema has types, "root" among them, and data of some length.  A type *)
(* lists named expressions (let) and fields; a field is of another type or *)
(* a leaf of some size, or fills what the others leave.  A condition is    *)
(* evaluated in the data: what it gives is part of the schema here.        *)
(***************************************************************************)
Cond == {"none", "true", "false"}
LetRecord   == [name : Names, cond : Cond]
FieldRecord == [name : Names \cup {NoName}, sub : STRING, size : Nat,
                cond : Cond, fill : BOOLEAN]

VARIABLE schema     \* never changes

Fields(ty) == schema.types[ty].fields
Lets(ty)   == schema.types[ty].lets
Holds(s)   == s.cond # "false"

\* compile_field_cb(): an unnamed field with nothing to expose is hidden.
Hidden(f) ==
    /\ f.name = NoName
    /\ f.sub # Leaf => Fields(f.sub) = <<>> /\ Lets(f.sub) = <<>>
Anonymous(f) == f.name = NoName /\ ~Hidden(f)

Live(ty) == {i \in DOMAIN Fields(ty) : Holds(Fields(ty)[i])}

\* A box is the fields that were entered, from the root.
BoxType[p \in Seq(Nat)] ==
    IF p = <<>> THEN "root" ELSE Fields(BoxType[Front(p)])[Last(p)].sub
TypeOf(p)   == BoxType[p]
FieldsOf(p) == Fields(TypeOf(p))
InAnonymous(p) == p # <<>> /\ Anonymous(FieldsOf(Front(p))[Last(p)])

-----------------------------------------------------------------------------
(***************************************************************************)
(* Where the fields are: the fields of a structure follow each other, and  *)
(* what fills gets what the others leave.                                  *)
(***************************************************************************)
RECURSIVE Spreads(_)
SpreadsField(f) == f.fill \/ (f.sub # Leaf /\ Spreads(f.sub))
Spreads(ty) == \E i \in DOMAIN Fields(ty) : SpreadsField(Fields(ty)[i])

RECURSIVE LeastSize(_)
LeastOf(f) ==
    IF f.fill THEN 0 ELSE IF f.sub # Leaf THEN LeastSize(f.sub) ELSE f.size
LeastSize(ty) == MapThenSumSet(LAMBDA i : LeastOf(Fields(ty)[i]), Live(ty))

\* The size of a field in a box of some size.
SizeIn(size, ty, f) ==
    IF SpreadsField(f) THEN size - LeastSize(ty) + LeastOf(f) ELSE LeastOf(f)
BoxSize[p \in Seq(Nat)] ==
    IF p # <<>> THEN SizeIn(BoxSize[Front(p)], TypeOf(Front(p)), FieldsOf(Front(p))[Last(p)])
    ELSE IF Spreads("root") THEN schema.data ELSE LeastSize("root")
Size[p \in Seq(Nat), i \in Nat] == SizeIn(BoxSize[p], TypeOf(p), FieldsOf(p)[i])

\* The size of the fields before one, in its box.
Before[p \in Seq(Nat), i \in Nat] ==
    MapThenSumSet(LAMBDA j : Size[p, j], {j \in Live(TypeOf(p)) : j < i})
BoxStart[p \in Seq(Nat)] ==
    IF p = <<>> THEN 0 ELSE BoxStart[Front(p)] + Before[Front(p), Last(p)]
Begin(p, i)  == BoxStart[p] + Before[p, i]
Finish(p, i) == Begin(p, i) + Size[p, i]
BoxEnd(p) == BoxStart[p] + BoxSize[p]

\* The items of a structure that a client sees: those of an anonymous field
\* stand where it is.
Visible[p \in Seq(Nat)] ==
    LET Seen(i) ==
            LET f == FieldsOf(p)[i] IN
            IF ~Holds(f) \/ Hidden(f) THEN <<>>
            ELSE IF Anonymous(f) THEN Visible[Append(p, i)]
            ELSE <<[box |-> p, field |-> i, name |-> f.name]>>
    IN  FlattenSeq([i \in DOMAIN FieldsOf(p) |-> Seen(i)])

\* Statements as the parser makes them, and data.
WellFormed(s) ==
    /\ \A ty \in DOMAIN s.types :
          /\ s.types[ty].lets \in Seq(LetRecord)
          /\ s.types[ty].fields \in Seq(FieldRecord)
    /\ "root" \in DOMAIN s.types /\ s.data \in Nat

ASSUME SchemasAssumption == \A s \in Schemas : WellFormed(s)

-----------------------------------------------------------------------------
(***************************************************************************)
(* Fields placed from the end (compile_span_size_composite()).             *)
(***************************************************************************)
IsHeader(ty, i) ==
    Spreads(ty) /\ \A j \in 1 .. i : ~SpreadsField(Fields(ty)[j])
IsTrailer(ty, i) ==
    /\ \E j \in 1 .. i - 1 : SpreadsField(Fields(ty)[j])
    /\ \A j \in i .. Len(Fields(ty)) :
          ~SpreadsField(Fields(ty)[j]) /\ Fields(ty)[j].cond = "none"

\* tracker_create_item_box_internal(): a box is aligned to the right when what it
\* is in is, unless it is in its header, and in the trailer otherwise.
RightAligned[p \in Seq(Nat)] ==
    /\ p # <<>>
    /\ IF RightAligned[Front(p)] THEN ~IsHeader(TypeOf(Front(p)), Last(p))
       ELSE IsTrailer(TypeOf(Front(p)), Last(p))

-----------------------------------------------------------------------------
(***************************************************************************)
(* The member that a name stands for, in the data: the first statement of  *)
(* the structure with the name whose condition holds, of its lets and then *)
(* of its fields, or else that of the first anonymous field that has one.  *)
(* A member is the box it is in and its statement.                         *)
(***************************************************************************)
NoMember == [box |-> <<>>, kind |-> "none", at |-> 0]
Member(p, kind, i) == [box |-> p, kind |-> kind, at |-> i]

Named(stmts, name) == SelectInSeq(stmts, LAMBDA s : s.name = name /\ Holds(s))

\* scope_get_first_statement_internal()
FirstStatement(p, name) ==
    LET l == Named(Lets(TypeOf(p)), name)
        f == Named(FieldsOf(p), name)
    IN  IF l # 0 THEN Member(p, "let", l)
        ELSE IF f # 0 THEN Member(p, "field", f) ELSE NoMember

\* identifier_is_visible_in_block_stmt_lists()
IsDeclared[ty \in STRING, name \in Names] ==
    \/ \E i \in DOMAIN Lets(ty) : Lets(ty)[i].name = name
    \/ \E i \in DOMAIN Fields(ty) :
          LET f == Fields(ty)[i] IN
          f.name = name \/ (Anonymous(f) /\ IsDeclared[f.sub, name])

\* scope_lookup_statement_in_anonymous_field_recur()
MayDeclare(f, name) == Anonymous(f) /\ IsDeclared[f.sub, name] /\ Holds(f)

\* scope_lookup_statement_recur().  What a schema says of a condition is that it
\* evaluates, and of a field that its box can be made.
Lookup[p \in Seq(Nat), name \in Names] ==
    LET m == FirstStatement(p, name)
        within == {i \in DOMAIN FieldsOf(p) :
                      /\ MayDeclare(FieldsOf(p)[i], name)
                      /\ Lookup[Append(p, i), name] # NoMember}
    IN  IF m # NoMember THEN m
        ELSE IF within = {} THEN NoMember ELSE Lookup[Append(p, Min(within)), name]

-----------------------------------------------------------------------------
(***************************************************************************)
(* The statements the compiler finds for a name, by decreasing priority,   *)
(* until one has no condition (lookup_visible_statements_in_lists_internal)*)
(***************************************************************************)
UpToUnconditional(ms, CondOf(_)) ==
    LET e == SelectInSeq(ms, LAMBDA m : CondOf(m) = "none")
    IN  IF e = 0 THEN ms ELSE SubSeq(ms, 1, e)

StatementOf(m) ==
    IF m.kind = "let" THEN Lets(TypeOf(m.box))[m.at] ELSE FieldsOf(m.box)[m.at]

\* Mutant: fields prime over named expressions.
MutByPriority(lets, fields, inner) == fields \o lets \o inner
ByPriority(lets, fields, inner) == lets \o fields \o inner

Declared[p \in Seq(Nat), name \in Names] ==
    LET Of(stmts, kind) ==
            SelectSeq([i \in DOMAIN stmts |-> Member(p, kind, i)],
                      LAMBDA m : stmts[m.at].name = name)
        Within(i) ==
            IF Anonymous(FieldsOf(p)[i]) THEN Declared[Append(p, i), name] ELSE <<>>
    IN  ByPriority(Of(Lets(TypeOf(p)), "let"), Of(FieldsOf(p), "field"),
                   FlattenSeq([i \in DOMAIN FieldsOf(p) |-> Within(i)]))

VisibleStatements(p, name) ==
    UpToUnconditional(Declared[p, name], LAMBDA m : StatementOf(m).cond)

\* resolve_identifier_as_scoped_statement(): one statement is resolved at once,
\* several leave a polymorphic node that is looked up in the data.
Resolved(p, name) ==
    LET ms == VisibleStatements(p, name) IN
    CASE ms = <<>> -> NoMember [] Len(ms) = 1 -> ms[1] [] OTHER -> Lookup[p, name]
=============================================================================
