----------------------------- MODULE Expressions -----------------------------
(***************************************************************************)
(* The expressions of a schema and those of a client: how names are bound, *)
(* operators typed and constants folded when they are compiled (ast.c), and*)
(* how they are evaluated in the scope of a box (expr.c, scope.c).         *)
(***************************************************************************)
EXTENDS Operators, SequencesExt

CONSTANTS
    Block,      \* the blocks of the schema
    Outer,      \* the block that a block is declared in, None for the file's
    Root,       \* the file's block
    None,
    Programs,   \* the schemas: the statements of each block
    Contents,   \* what may be in the integer fields of each block
    Requests    \* the expressions that a client asks for, of each schema

ASSUME BlockAssumption ==
    /\ Root \in Block /\ Outer \in [Block -> Block \cup {None}] /\ Outer[Root] = None
    /\ \A p \in Programs : DOMAIN p = Block
    /\ Contents \subseteq [Block -> Int64] /\ Programs \subseteq DOMAIN Requests

VARIABLES
    program,    \* the statements of each block
    data,       \* the number in the integer fields of each block
    schema,     \* "new", or what the compiler made of it
    last        \* the last expression evaluated: its scope and its result

vars == <<program, data, schema, last>>

(***************************************************************************)
(* Statements: a name for an expression (is = "let"), a field of integers  *)
(* ("integer") or of the type of a block.  A statement holds if all of its *)
(* conditions do: of the conditions around it, the outermost first, each   *)
(* with the sense it has there.  A statement is known by its place.        *)
(***************************************************************************)
Stmt(s)      == program[s[1]][s[2]]
IsLet(s)     == Stmt(s).is = "let"
IsBlock(s)   == Stmt(s).is \in Block
IsFree(s)    == Stmt(s).conds = <<>>
Statements   == UNION {{<<b, i>> : i \in DOMAIN program[b]} : b \in Block}

\* The blocks around a block, from itself.
RECURSIVE Path(_)
Path(b) == IF b = None THEN <<>> ELSE <<b>> \o Path(Outer[b])

\* Those of a name in a block: named expressions prime over fields.
InBlock(x, b) ==
    LET all == [i \in DOMAIN program[b] |-> <<b, i>>]
    IN  SelectSeq(all, LAMBDA s : Stmt(s).name = x /\ IsLet(s))
        \o SelectSeq(all, LAMBDA s : Stmt(s).name = x /\ ~IsLet(s))

UpToFree(list) ==
    IF \E k \in DOMAIN list : IsFree(list[k])
    THEN SubSeq(list, 1, CHOOSE k \in DOMAIN list :
                            IsFree(list[k]) /\ \A j \in 1 .. k - 1 : ~IsFree(list[j]))
    ELSE list

\* Mutant: the blocks around are looked at first.
MutVisible(x, env) ==
    UpToFree(FlattenSeq([k \in DOMAIN env |-> InBlock(x, env[Len(env) + 1 - k])]))
\* lookup_all_visible_statements(): from the inner block out, up to one without condition.
Visible(x, env) == UpToFree(FlattenSeq([k \in DOMAIN env |-> InBlock(x, env[k])]))

-----------------------------------------------------------------------------
(***************************************************************************)
(* Boxes: a box is the fields that lead to it, from that of the file.      *)
(***************************************************************************)
RECURSIVE BlockOf(_)
BlockOf(box) ==
    IF box = <<>> THEN Root ELSE program[BlockOf(Front(box))][Last(box)].is

Scopes(box)  == [k \in 1 .. Len(box) + 1 |-> SubSeq(box, 1, Len(box) + 1 - k)]
Blocks(box)  == [k \in 1 .. Len(box) + 1 |-> BlockOf(Scopes(box)[k])]

\* expr_evaluate_dpath_anchor_common(): the closest box of the block of a statement,
\* or the current one if there is none.
AnchorBox(b, box) ==
    LET k == SelectInSeq(Scopes(box), LAMBDA q : BlockOf(q) = b)
    IN  IF k = 0 THEN box ELSE Scopes(box)[k]

-----------------------------------------------------------------------------
(***************************************************************************)
(* Compilation: the types the value of an expression may have, and that    *)
(* value, if the compiler knows it.                                        *)
(***************************************************************************)
Operation(e) == e.op \in OpNames
Typed(types, native) == [st |-> "ok", types |-> types, native |-> native]
Rejected(st) == [st |-> st, types |-> {}, native |-> {}]

\* compile_rexpr_operator_type(): the operands, through the names they are.
CompiledOperator(op, args) ==
    LET bad    == {i \in DOMAIN args : args[i].st # "ok"}
        found  == Matches(op, [i \in DOMAIN args |-> args[i].types])
        values == [i \in DOMAIN args |-> CHOOSE v \in args[i].native : TRUE]
    IN  IF bad # {} THEN args[Min(bad)]
        ELSE IF found = {} \/ \E i \in DOMAIN args : args[i].types = {}
             THEN Rejected("refused")
        ELSE IF \E i \in DOMAIN args : args[i].native = {}
             THEN Typed({e.res : e \in found}, {})
        ELSE IF Traps(op, values[1].v, values[Len(values)].v) THEN Rejected("trap")
        ELSE Typed({e.res : e \in found}, {EvalFn(op, values)})

\* Mutant: only the first of the statements of a name is compiled with it.
MutCompiledName(each) ==
    IF each = <<>> THEN Rejected("refused")
    ELSE IF Len(each) = 1 \/ each[1].st # "ok" THEN each[1]
    ELSE Typed(each[1].types, {})
\* compile_rexpr_named_expr(), compile_rexpr_field(), or compile_rexpr_polymorphic() of
\* the statements that a name may be: their types add up.
CompiledName(each) ==
    LET bad == {k \in DOMAIN each : each[k].st # "ok"}
    IN  IF each = <<>> THEN Rejected("refused")
        ELSE IF bad # {} THEN each[Min(bad)]
        ELSE IF Len(each) = 1 THEN each[1]
        ELSE Typed(UNION {each[k].types : k \in DOMAIN each}, {})

\* The block that the anchor of a member is of, as far as the compiler can tell.
AnchorType(x, env) ==
    LET list == Visible(x, env)
    IN  IF Len(list) = 1 /\ IsBlock(list[1]) THEN Stmt(list[1]).is ELSE None

RECURSIVE Compiled(_, _, _)

\* A named expression, or a field; a composite has no type of value.  A dependency
\* on what is being compiled is circular.
CompiledStmt(s, busy) ==
    IF IsBlock(s) THEN Typed({}, {})
    ELSE IF ~IsLet(s) THEN Typed({"integer"}, {})
    ELSE IF s \in busy THEN Rejected("refused")
    ELSE Compiled(Stmt(s).expr, Path(s[1]), busy \cup {s})

\* compile_node_type_int()
Compiled(e, env, busy) ==
    CASE e.op = "value" -> Typed({e.val.type}, {e.val})
      [] e.op = "name" ->
            LET list == Visible(e.name, env)
            IN  CompiledName([k \in DOMAIN list |-> CompiledStmt(list[k], busy)])
      [] e.op = "member" ->
            LET of   == AnchorType(e.of, env)
                list == UpToFree(InBlock(e.name, of))
                each == [k \in DOMAIN list |-> CompiledStmt(list[k], busy)]
            IN  IF Len(Visible(e.of, env)) > 1 THEN Typed(Types, {})
                ELSE IF of = None THEN Rejected("refused") ELSE CompiledName(each)
      [] Operation(e) ->
            CompiledOperator(e.op, [i \in DOMAIN e.args |-> Compiled(e.args[i], env, busy)])

\* compile_conditional()
CompiledCond(c, env) ==
    LET r == Compiled(c.expr, env, {})
    IN  IF r.st = "ok" /\ r.types # {"boolean"} THEN "refused" ELSE r.st

\* bitpunch_compile_schema(): all the statements, and their conditions.
Outcomes ==
    {CompiledStmt(s, {}).st : s \in Statements}
    \cup UNION {{CompiledCond(Stmt(s).conds[k], Path(s[1])) : k \in DOMAIN Stmt(s).conds} :
                    s \in Statements}

-----------------------------------------------------------------------------
(***************************************************************************)
(* Evaluation, in the scope of a box: a value, or what is in its place.    *)
(* A statement that is evaluated within its own evaluation never ends.     *)
(***************************************************************************)
Ok(val) == [st |-> "ok", val |-> val]
Not(st) == [st |-> st, val |-> Bytes(0)]
Found(s, m) == [st |-> "ok", s |-> s, m |-> m]

RECURSIVE Eval(_, _, _, _)

RECURSIVE HoldAll(_, _, _, _)
\* evaluate_conditional_internal()
HoldAll(conds, env, m, busy) ==
    IF conds = <<>> THEN Ok(Boolean(TRUE))
    ELSE LET c == Head(conds)  r == Eval(c.expr, env, m, busy)
         IN  IF r.st # "ok" THEN r
             ELSE IF r.val # Boolean(c.sense) THEN Ok(Boolean(FALSE))
             ELSE HoldAll(Tail(conds), env, m, busy)

Holds(s, m, busy) ==
    IF <<s, m>> \in busy THEN Not("endless")
    ELSE HoldAll(Stmt(s).conds, Path(s[1]), m, busy \cup {<<s, m>>})

RECURSIVE FirstHolding(_, _)
\* The first of a list of statements and boxes that holds, with Holds of each.
FirstHolding(list, busy) ==
    IF list = <<>> THEN Not("absent")
    ELSE LET c == Head(list)  r == Holds(c.s, c.m, busy)
         IN  IF r.st # "ok" THEN r
             ELSE IF r.val = Boolean(TRUE) THEN c
             ELSE FirstHolding(Tail(list), busy)

\* filter_lookup_statement_internal()
InBox(x, q) == LET list == InBlock(x, BlockOf(q)) IN [k \in DOMAIN list |-> Found(list[k], q)]

\* expr_evaluate_named_expr_internal(), expr_evaluate_field(): the one statement a
\* name is; expr_evaluate_polymorphic_internal(): the first there is by that name in
\* the boxes around, whatever they are.
Candidates(list, x, box) ==
    IF Len(list) = 1 THEN <<Found(list[1], AnchorBox(list[1][1], box))>>
    ELSE FlattenSeq([k \in 1 .. Len(box) + 1 |-> InBox(x, Scopes(box)[k])])

\* The statement and the box that an expression refers to.
Located(e, env, box, busy) ==
    IF e.op = "name" THEN FirstHolding(Candidates(Visible(e.name, env), e.name, box), busy)
    ELSE LET a == FirstHolding(Candidates(Visible(e.of, env), e.of, box), busy)
         IN  IF a.st # "ok" THEN a
             ELSE IF ~IsBlock(a.s) THEN Not("absent")
             ELSE FirstHolding(InBox(e.name, Append(a.m, a.s[2])), busy)

\* evaluate_scoped_statement_internal()
ValueOf(f, busy) ==
    IF f.st # "ok" THEN Not(f.st)
    ELSE IF IsBlock(f.s) THEN Ok(Bytes(0))
    ELSE IF ~IsLet(f.s) THEN Ok(Integer(data[f.s[1]]))
    ELSE Eval(Stmt(f.s).expr, Path(f.s[1]), f.m, busy \cup {<<f.s, f.m>>})

\* expr_evaluate_binary_operator(), expr_evaluate_unary_operator(): both operands are.
Applied(op, opd, args) ==
    LET bad == {i \in DOMAIN args : args[i].st # "ok"}
    IN  IF bad # {} THEN args[Min(bad)]
        ELSE IF \E i \in DOMAIN args : args[i].val.type # opd THEN Not("confused")
        ELSE IF Traps(op, args[1].val.v, args[Len(args)].val.v) THEN Not("trap")
        ELSE Ok(EvalFn(op, [i \in DOMAIN args |-> args[i].val]))

\* expr_evaluate_internal()
Eval(e, env, box, busy) ==
    CASE e.op = "value" -> Ok(e.val)
      [] e.op \in {"name", "member"} ->
            ValueOf(Located(e, env, box, busy), busy)
      [] Operation(e) ->
            LET c == Compiled(e, env, {})
                m == Matches(e.op, [i \in DOMAIN e.args |-> Compiled(e.args[i], env, {}).types])
            IN  IF c.native # {} THEN Ok(CHOOSE v \in c.native : TRUE)
                ELSE Applied(e.op, (CHOOSE x \in m : TRUE).opd,
                             [i \in DOMAIN e.args |-> Eval(e.args[i], env, box, busy)])

-----------------------------------------------------------------------------
(***************************************************************************)
(* A schema is compiled, and expressions are evaluated, in the scope of a  *)
(* box of its: then the blocks around are those of the boxes around.       *)
(***************************************************************************)
\* The boxes that the client has: those it can come to by the fields there are.
RECURSIVE BoxesIn(_)
BoxesIn(box) ==
    {box} \cup UNION {BoxesIn(Append(box, i)) :
        i \in {j \in DOMAIN program[BlockOf(box)] :
                 LET s == <<BlockOf(box), j>>
                 IN  IsBlock(s) /\ Holds(s, box, {}) = Ok(Boolean(TRUE))}}

\* bitpunch_compile_schema(), as the schema is loaded.
Load ==
    /\ schema = "new"
    /\ \E st \in IF Outcomes \subseteq {"ok"} THEN {"ok"} ELSE Outcomes \ {"ok"} : schema' = st
    /\ UNCHANGED <<program, data, last>>

\* bitpunch_eval_expr(): compiled with the names of the boxes around, and evaluated.
EvalExpr ==
    /\ schema = "ok" /\ last = None
    /\ \E box \in BoxesIn(<<>>), e \in Requests[program] :
          LET c == Compiled(e, Blocks(box), {})
          IN  last' = [box |-> box, expr |-> e, types |-> c.types,
                       result |-> IF c.st # "ok" THEN Not(c.st)
                                  ELSE Eval(e, Blocks(box), box, {})]
    /\ UNCHANGED <<program, data, schema>>

Init ==
    /\ program \in Programs /\ data \in Contents
    /\ schema = "new" /\ last = None

Next == Load \/ EvalExpr

Spec == Init /\ [][Next]_vars

-----------------------------------------------------------------------------
(***************************************************************************)
(* What an expression means, without compiler: a name is the first of the  *)
(* statements that are visible where it is written and that holds.         *)
(***************************************************************************)
RECURSIVE Meaning(_, _, _, _)

\* If a statement holds in a box: "yes", "no", or why this is not known.
Stands(s, m, busy) ==
    LET conds  == Stmt(s).conds
        value  == [k \in DOMAIN conds |-> Meaning(conds[k].expr, Path(s[1]), m, busy \cup {<<s, m>>})]
        failed == {k \in DOMAIN conds : value[k] # Ok(Boolean(conds[k].sense))}
    IN  IF <<s, m>> \in busy THEN "endless"
        ELSE IF failed = {} THEN "yes"
        ELSE IF value[Min(failed)].st = "ok" THEN "no" ELSE value[Min(failed)].st

\* The first of some statements that stands, in the boxes they are of.
Meant(list, busy) ==
    LET k == SelectInSeq(list, LAMBDA c : Stands(c.s, c.m, busy) # "no")
    IN  IF k = 0 THEN Not("absent")
        ELSE LET st == Stands(list[k].s, list[k].m, busy)
             IN  IF st = "yes" THEN list[k] ELSE Not(st)

Written(x, env, box) ==
    LET list == FlattenSeq([k \in DOMAIN env |-> InBlock(x, env[k])])
    IN  [k \in DOMAIN list |-> Found(list[k], AnchorBox(list[k][1], box))]

MeaningOf(f, busy) ==
    IF f.st # "ok" THEN Not(f.st)
    ELSE IF IsBlock(f.s) THEN Ok(Bytes(0))
    ELSE IF ~IsLet(f.s) THEN Ok(Integer(data[f.s[1]]))
    ELSE Meaning(Stmt(f.s).expr, Path(f.s[1]), f.m, busy \cup {<<f.s, f.m>>})

Meaning(e, env, box, busy) ==
    CASE e.op = "value" -> Ok(e.val)
      [] e.op = "name" -> MeaningOf(Meant(Written(e.name, env, box), busy), busy)
      [] e.op = "member" ->
            LET a == Meant(Written(e.of, env, box), busy)
            IN  IF a.st # "ok" THEN Not(a.st)
                ELSE IF ~IsBlock(a.s) THEN Not("absent")
                ELSE MeaningOf(Meant(InBox(e.name, Append(a.m, a.s[2])), busy), busy)
      [] Operation(e) ->
            LET args == [i \in DOMAIN e.args |-> Meaning(e.args[i], env, box, busy)]
                bad  == {i \in DOMAIN args : args[i].st # "ok"}
                fits == {x \in Evaluators : e.op \in x.ops
                            /\ \A i \in DOMAIN args : args[i].val.type = x.opd}
            IN  IF bad # {} THEN args[Min(bad)]
                ELSE IF fits = {} THEN Not("confused")
                ELSE IF Traps(e.op, args[1].val.v, args[Len(args)].val.v) THEN Not("trap")
                ELSE Ok(EvalFn(e.op, [i \in DOMAIN args |-> args[i].val]))

-----------------------------------------------------------------------------
\* An operator is never applied to values of another type than its evaluator is for,
\* which checks nothing, and a value has one of the types that the compiler gave to
\* its expression, if it gave any (compile_rexpr_polymorphic_type(): "possible value
\* and dpath types add up").
TypesAreSound ==
    last # None =>
        /\ last.result.st # "confused"
        /\ last.result.st = "ok" /\ last.types # {} => last.result.val.type \in last.types

\* What is folded when it is compiled, and what is looked up in the boxes around when
\* it is evaluated, is what was written: the value is that of the innermost statement
\* in sight whose conditions hold (the order that lookup_all_visible_statements()
\* documents), and there is none only if there is no such statement.
ValueIsWritten ==
    last # None /\ last.result.st # "refused" =>
        last.result = Meaning(last.expr, Blocks(last.box), last.box, {})

\* Circular dependencies are detected (test_circular_dependency.py:9): what the compiler
\* does not refuse is not evaluated within its own evaluation.  It sees no circle
\* through a condition, which depends on nothing (compile_stmt_list_generic()).
EvaluationEnds == last # None => last.result.st # "endless"

\* What a name leads to, through the expressions of the statements of that name.
RECURSIVE Mentioned(_), LeadTo(_)
Mentioned(e) ==
    CASE e.op = "value" -> {}
      [] e.op = "name" -> {e.name}
      [] e.op = "member" -> {e.of, e.name}
      [] Operation(e) -> UNION {Mentioned(e.args[i]) : i \in DOMAIN e.args}
LeadTo(N) ==
    LET lets == {s \in Statements : IsLet(s) /\ Stmt(s).name \in N}
        more == N \cup UNION {Mentioned(Stmt(s).expr) : s \in lets}
    IN  IF more = N THEN N ELSE LeadTo(more)

\* A circle of expressions alone is refused by the compiler (compile_rexpr_named_expr()),
\* whichever of the statements of each name closes it: an evaluation is only without
\* end if a condition leads to a name that has one.  (A member of a name with several
\* statements is not compiled further: the schemas of the run write none.)
CirclesAreRefused ==
    LET decided == {s \in Statements : Stmt(s).conds # <<>>}
        deciding == UNION {{Stmt(s).conds[k].expr : k \in DOMAIN Stmt(s).conds} : s \in decided}
    IN  last # None /\ last.result.st = "endless" =>
            LeadTo(UNION {Mentioned(e) : e \in deciding}) \cap {Stmt(s).name : s \in decided} # {}

\* What the operators of numbers give, told by another relation than their own
\* computation: the opposite of an operator undoes it, or the bits tell.
Relates(op, a, b, r) ==
    CASE op = "==" -> (r = 1) = (Wrapped(a - b) = 0)
      [] op = "!=" -> (r = 1) = (Wrapped(a - b) # 0)
      [] op = "<"  -> (r = 1) = (\E d \in 1 .. 2 ^ Width : a + d = b)
      [] op = "<=" -> (r = 1) = (\E d \in 0 .. 2 ^ Width : a + d = b)
      [] op = ">"  -> (r = 1) = (\E d \in 1 .. 2 ^ Width : b + d = a)
      [] op = ">=" -> (r = 1) = (\E d \in 0 .. 2 ^ Width : b + d = a)
      [] op = "|"  -> \A i \in 0 .. Width - 1 : (Bit(r, i) = 0) = (Bit(a, i) = 0 /\ Bit(b, i) = 0)
      [] op = "&"  -> \A i \in 0 .. Width - 1 : (Bit(r, i) = 1) = (Bit(a, i) = 1 /\ Bit(b, i) = 1)
      [] op = "^"  -> \A i \in 0 .. Width - 1 : (Bit(r, i) = 1) = (Bit(a, i) # Bit(b, i))
      [] op = "+"  -> Wrapped(r - b) = a
      [] op = "-"  -> Wrapped(r + b) = a
      [] op = "*"  -> \E k \in -2 ^ Width .. 2 ^ Width : a * b = r + k * 2 ^ Width
      [] op = "/"  -> \E m \in -Magnitude(b) + 1 .. Magnitude(b) - 1 : a = r * b + m /\ m * a >= 0
      [] op = "%"  -> \E q \in Int64 : a = q * b + r /\ Magnitude(r) < Magnitude(b) /\ r * a >= 0
      [] op = "<<" -> b \in 0 .. Width - 1 => \A i \in 0 .. Width - 1 :
                        Bit(r, i) = IF i < b THEN 0 ELSE Bit(a, i - b)
      [] op = ">>" -> b \in 0 .. Width - 1 => \A i \in 0 .. Width - 1 :
                        Bit(r, i) = Bit(a, IF i + b < Width THEN i + b ELSE Width - 1)

\* The operators that take two numbers compute what they stand for, in the width of
\* the machine.
NumbersAreRight ==
    last # None /\ last.result.st = "ok" /\ Operation(last.expr) /\ last.expr.op \notin Unary
        /\ (\A i \in {1, 2} : last.expr.args[i].op = "value"
                              /\ last.expr.args[i].val.type = "integer") =>
        Relates(last.expr.op, last.expr.args[1].val.v, last.expr.args[2].val.v, last.result.val.v)
=============================================================================
