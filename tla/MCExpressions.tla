---------------------------- MODULE MCExpressions ----------------------------
(***************************************************************************)
(* Instances of Expressions: a file, a type that is declared in it, and a  *)
(* block that is.                                                          *)
(***************************************************************************)
EXTENDS Expressions

MCBlock == {"file", "type", "inner"}
MCOuter == [b \in MCBlock |-> IF b = "file" THEN None ELSE "file"]

Lit(n) == [op |-> "value", val |-> Integer(n)]
Yes    == [op |-> "value", val |-> Boolean(TRUE)]
Id(x)  == [op |-> "name", name |-> x]
Member(of, x)   == [op |-> "member", of |-> of, name |-> x]
Binary(o, a, b) == [op |-> o, args |-> <<a, b>>]
Not1(a)         == [op |-> "!", args |-> <<a>>]

Let(x, e)    == [name |-> x, is |-> "let", expr |-> e, conds |-> <<>>]
Field(x, is) == [name |-> x, is |-> is, expr |-> None, conds |-> <<>>]
If(e, s)     == [s EXCEPT !.conds = <<[expr |-> e, sense |-> TRUE]>> \o @]
Else(e, s)   == [s EXCEPT !.conds = <<[expr |-> e, sense |-> FALSE]>> \o @]

IsOne == Binary("==", Id("f"), Lit(1))

\* The statements of which there are some.
FileLets ==
    {Let("x", Lit(2)), Let("x", Yes), If(Id("c"), Let("x", Binary("+", Id("f"), Lit(3)))),
     Else(Id("c"), If(IsOne, Let("x", Binary("*", Id("f"), Lit(2))))), If(Id("c"), Field("x", "integer")),
     Let("y", Binary("+", Id("x"), Lit(1))), Let("y", Not1(Id("x"))), Let("x", Id("y")),
     Let("x", Binary("-", Id("x"), Lit(1))), If(Id("c"), Field("t", "inner"))}
TypeLets ==
    {Let("y", Binary("<", Id("x"), Lit(3))), Let("z", Id("x")), If(IsOne, Let("x", Id("f"))),
     Field("x", "integer")}
InnerLets == {Let("x", Lit(0)), If(Id("c"), Let("z", Yes)), Field("f", "integer")}

UpTo2(S) == {<<>>} \cup {<<s>> : s \in S} \cup {<<s, t>> : s, t \in S}
UpTo1(S) == {<<>>} \cup {<<s>> : s \in S}

Schema(file, type, inner) ==
    [b \in MCBlock |->
        IF b = "file"
        THEN <<Field("f", "integer"), Let("c", Binary(">", Id("f"), Lit(0)))>> \o file
             \o <<Field("t", "type"), If(Id("c"), Field("n", "inner"))>>
        ELSE IF b = "type" THEN type ELSE inner]
Calculator == [b \in MCBlock |-> <<>>]

\* The schemas that are evaluated as they are written: no name that may be a composite
\* or another thing, no constant under a condition, no type with a name of its own
\* where it is used by a name that is polymorphic, no condition on what it decides,
\* which MCEndless has.
MCPrograms ==
    {Calculator} \cup
    {Schema(f, t, n) : f \in UpTo2(FileLets), t \in UpTo2(TypeLets), n \in UpTo1(InnerLets)}
MCEndless == {Schema(<<If(Id("x"), Let("x", IsOne))>>, <<>>, <<>>)}

MCContents == {[b \in MCBlock |-> n] : n \in {0, 1}}

MCRequests ==
    [p \in MCPrograms \cup MCEndless |->
        IF p = Calculator
        THEN {Binary(o, Lit(a), Lit(b)) : o \in OpNames \ Unary, a \in Int64, b \in Int64}
        ELSE {Id("x"), Id("y"), Id("z"), Member("t", "y"), Member("t", "x"), Member("n", "x"), Member("n", "t"),
              Binary("+", Id("x"), Id("x")), Binary("==", Id("x"), Id("y"))}]
=============================================================================
