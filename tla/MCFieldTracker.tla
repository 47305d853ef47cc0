--------------------------- MODULE MCFieldTracker ---------------------------
(* Schemas of a few types: fields in anonymous fields, before, after and in  *)
(* what fills the data; names that several statements have; data that is     *)
(* too short.  No type begins with padding: browse.c:2519 gives the first     *)
(* item that follows it the offset of the padding.  No trailer starts before *)
(* the data, but that of MCShortSchemas.                                     *)
EXTENDS FieldTracker, TLC

MCNames == {"a", "b", "c"}

F(name, sub, size, cond, fill) ==
    [name |-> name, sub |-> sub, size |-> size, cond |-> cond, fill |-> fill]
Word(name, size) == F(name, Leaf, size, "none", FALSE)
When(name, size, cond) == F(name, Leaf, size, cond, FALSE)
Pad(size) == Word(NoName, size)
Rest(name) == F(name, Leaf, 0, "none", TRUE)
Sub(name, ty) == F(name, ty, 0, "none", FALSE)
SubIf(name, ty, cond) == F(name, ty, 0, cond, FALSE)
Let(name, cond) == [name |-> name, cond |-> cond]

T(lets, fields) == [lets |-> lets, fields |-> fields]
Schema(types, data) == [types |-> types, data |-> data]

\* Anonymous fields two deep, hidden ones, one that is not there.
Nested == Schema(
    ("root" :> T(<<>>, <<Sub(NoName, "x"), Pad(2), Word("c", 1), Sub("b", "z")>>)) @@
    ("x" :> T(<<>>, <<Word("a", 1), Sub(NoName, "y"), When("c", 3, "false")>>)) @@
    ("y" :> T(<<>>, <<Word("b", 2), Pad(1)>>)) @@
    ("z" :> T(<<>>, <<Word("a", 2), Sub(NoName, "y")>>)), 14)

\* A part that fills the data, in an anonymous field, and a trailer after it.
Trailer == Schema(
    ("root" :> T(<<>>, <<Word("a", 1), Sub(NoName, "x"), Pad(1), Sub("c", "y"), Sub(NoName, "y")>>)) @@
    ("x" :> T(<<>>, <<Word("b", 1), Rest("c"), Word("b", 2)>>)) @@
    ("y" :> T(<<>>, <<Word("a", 1), Pad(1), Word("b", 2)>>)), 16)

\* Names in lets and fields, with and without conditions, here and there.
Many == Schema(
    ("root" :> T(<<Let("b", "false")>>,
                 <<When("a", 1, "false"), Sub(NoName, "x"), SubIf(NoName, "y", "true"),
                   When("a", 2, "true")>>)) @@
    ("x" :> T(<<Let("a", "true"), Let("c", "none")>>, <<When("b", 1, "false"), Word("c", 1)>>)) @@
    ("y" :> T(<<Let("b", "true")>>, <<Word("b", 1), SubIf(NoName, "x", "false")>>)), 8)

\* Data that ends in a field.
Short == Schema(
    ("root" :> T(<<>>, <<Word("a", 2), When("b", 3, "true"), Pad(2), Word("b", 2)>>)), 6)

Empty == Schema("root" :> T(<<Let("a", "none")>>, <<>>), 0)

\* A trailer that is longer than the data.
ShortTrailer == Schema(
    ("root" :> T(<<>>, <<Rest("a"), Sub("b", "y")>>)) @@
    ("y" :> T(<<>>, <<When("c", 3, "true")>>)), 2)
MCShortSchemas == {ShortTrailer}

MCSchemas == {Nested, Trailer, Many, Short, Empty}
=============================================================================
