------------------------------ MODULE Operators ------------------------------
(***************************************************************************)
(* The operators of expressions (core/expr.c): the table of evaluators, by *)
(* operator and type of operands, and what each one computes.  A string is *)
(* known by a number; booleans are 0 and 1; integers are Width bits wide.  *)
(***************************************************************************)
EXTENDS Integers, Sequences, FiniteSets, FiniteSetsExt

CONSTANT Width      \* the bits of an int64_t

ASSUME WidthAssumption == Width \in Nat \ {0, 1}

Types == {"integer", "boolean", "string", "bytes"}
Integer(n)   == [type |-> "integer", v |-> n]
Boolean(b)   == [type |-> "boolean", v |-> IF b THEN 1 ELSE 0]
String(n)    == [type |-> "string", v |-> n]
Bytes(n)     == [type |-> "bytes", v |-> n]

Least == -(2 ^ (Width - 1))
Int64 == Least .. 2 ^ (Width - 1) - 1
\* Arithmetic is that of the machine: it wraps.
Wrapped(n) == ((n - Least) % 2 ^ Width) + Least

Bit(n, i)  == (n \div 2 ^ i) % 2
Bitwise2(F(_, _), a, b) ==
    Wrapped(SumSet({IF F(Bit(a, i), Bit(b, i)) = 1 THEN 2 ^ i ELSE 0 : i \in 0 .. Width - 1}))
And1(p, q) == p * q
Or1(p, q)  == p + q - p * q
Xor1(p, q) == (p + q) % 2

\* Division rounds towards zero, and its remainder has the sign of the dividend.
Magnitude(n) == IF n < 0 THEN -n ELSE n
Quotient(a, b)  == LET q == Magnitude(a) \div Magnitude(b) IN IF (a < 0) = (b < 0) THEN q ELSE -q
Remainder(a, b) == LET r == Magnitude(a) % Magnitude(b) IN IF a < 0 THEN -r ELSE r

\* A shift takes the low bits of its count.
LeftShift(a, n)  == Wrapped(a * 2 ^ (n % Width))
RightShift(a, n) == a \div 2 ^ (n % Width)

-----------------------------------------------------------------------------
(***************************************************************************)
(* The evaluators.  Each has a type for its operands, and one of result.   *)
(***************************************************************************)
Equality   == {"==", "!="}
Ordering   == {"<", "<=", ">", ">="}
Logic      == {"||", "&&", "!"}
Bits       == {"|", "&", "^", "~", "<<", ">>"}
Arithmetic == {"+", "-", "*", "/", "%", "plus", "minus"}
OpNames    == Equality \cup Ordering \cup Logic \cup Bits \cup Arithmetic
Unary      == {"!", "~", "plus", "minus"}

Evaluators ==
    [opd : {"integer", "boolean", "string"}, res : {"boolean"}, ops : {Equality}]
    \cup [opd : {"integer"}, res : {"boolean"}, ops : {Ordering}]
    \cup [opd : {"boolean"}, res : {"boolean"}, ops : {Logic}]
    \cup [opd : {"integer"}, res : {"integer"}, ops : {Bits, Arithmetic}]

\* expr_lookup_evaluator(): all the types an operand may have are those of the evaluator.
Matches(op, masks) ==
    {e \in Evaluators : op \in e.ops /\ \A i \in DOMAIN masks : masks[i] \subseteq {e.opd}}

\* Mutant: >= is >.
MutCompares(op, a, b) ==
    CASE op = "==" -> a = b  [] op = "!=" -> a # b
      [] op = "<"  -> a < b  [] op = "<=" -> a <= b
      [] op = ">"  -> a > b  [] op = ">=" -> a > b
\* The operators that compare.
Compares(op, a, b) ==
    CASE op = "==" -> a = b  [] op = "!=" -> a # b
      [] op = "<"  -> a < b  [] op = "<=" -> a <= b
      [] op = ">"  -> a > b  [] op = ">=" -> a >= b

Connects(op, a, b) ==
    CASE op = "||" -> a = 1 \/ b = 1  [] op = "&&" -> a = 1 /\ b = 1  [] op = "!" -> a = 0

OfBits(op, a, b) ==
    CASE op = "|"  -> Bitwise2(Or1, a, b)   [] op = "&"  -> Bitwise2(And1, a, b)
      [] op = "^"  -> Bitwise2(Xor1, a, b)  [] op = "~"  -> Bitwise2(Xor1, a, -1)
      [] op = "<<" -> LeftShift(a, b)       [] op = ">>" -> RightShift(a, b)

OfNumbers(op, a, b) ==
    CASE op = "+" -> Wrapped(a + b)      [] op = "-" -> Wrapped(a - b)
      [] op = "*" -> Wrapped(a * b)      [] op = "/" -> Quotient(a, b)
      [] op = "%" -> Remainder(a, b)     [] op = "plus" -> a
      [] op = "minus" -> Wrapped(-a)

\* The processor stops the program at a division that has no result.
Traps(op, a, b) == op \in {"/", "%"} /\ (b = 0 \/ (a = Least /\ b = -1))

\* eval_fn of the evaluator that was found: its operands are not checked again.
EvalFn(op, args) ==
    LET a == args[1].v  b == args[Len(args)].v
    IN  IF op \in Equality \cup Ordering THEN Boolean(Compares(op, a, b))
        ELSE IF op \in Logic THEN Boolean(Connects(op, a, b))
        ELSE IF op \in Bits THEN Integer(OfBits(op, a, b))
        ELSE Integer(OfNumbers(op, a, b))
=============================================================================
