------------------------------- MODULE Board -------------------------------
(***************************************************************************)
(* The board of a client (api/board.c): a list of named expressions, from  *)
(* the client, from the program that hosts it (data sources, functions,    *)
(* filters) and from one specification in use.  The list is parsed again   *)
(* whenever it changes, to forget what was compiled.  The client evaluates *)
(* names in the board or in an item that an evaluation gave, and goes      *)
(* through the list with an iterator that holds a pointer into it.         *)
(* An expression is some data or one name; data is known by who gave it.   *)
(***************************************************************************)
EXTENDS Integers, Sequences, SequencesExt, FiniteSetsExt, Sublists

CONSTANTS
    Name,       \* the names
    Specs,      \* the specifications: sequences of [name, text]
    MaxNames    \* how many names the client and the program add

Data == "data"          \* the text of an expression that names nothing
Foreign == "foreign"    \* the text of an extern declaration
NoSpec == <<>>

ASSUME BoardAssumption ==
    /\ MaxNames \in Nat /\ {Data, Foreign} \cap Name = {}
    /\ \A s \in Specs : s # NoSpec /\ s \in Seq([name : Name, text : Name \cup {Data, Foreign}])

VARIABLES
    names,      \* the list of named expressions
    used,       \* the specification in use
    asLoaded,   \* its names are those of the compilation that loaded it
    root,       \* how far the board is compiled
    iter,       \* the iterator: has it yet to give removed names, then a position
    item,       \* the client has an item
    answer      \* the last call's, when it evaluated a name

vars == <<names, used, asLoaded, root, iter, item, answer>>

Unbound == 0
Gone == -1              \* what was bound is not in the list any more
Extern == -2            \* bound to an item that the program may add
End == 0
NoIterator == [gone |-> FALSE, at |-> End]
Failures == {<<"refused">>, <<"nodata">>}
Endless == <<"endless">>    \* the recursion that ends the program, its stack full
NoAnswer == [of |-> Data, value |-> <<"none">>]

Entry(n, t, from) ==
    [name |-> n, text |-> t, from |-> from,
     bound |-> Unbound, done |-> FALSE, met |-> "new"]

Named(L, n) == SelectInSeq(L, LAMBDA e : e.name = n)
External(L, n) == SelectInSeq(L, LAMBDA e : e.from = "program" /\ e.name = n)
Of(L, from) == {i \in 1 .. Len(L) : L[i].from = from}

\* The list and the iterator, which a change of the list concerns too.
List == [names |-> names, iter |-> iter]

(***************************************************************************)
(* The list (core/scope.c, TAILQ)                                          *)
(***************************************************************************)

Linked(b, e) == [b EXCEPT !.names = Append(@, e)]

\* Where a place of the list is once those of S are removed.
Moved(kept, i) == IF i <= 0 THEN i ELSE IF i \in kept THEN Rank(kept, i) ELSE Gone

\* A removed name keeps its pointer to the one that followed it.
\* Mutant: it is cut off, as QUEUE_MACRO_DEBUG_TRASH would.
MutUnlinked(b, S) ==
    LET kept == DOMAIN b.names \ S
        L    == Sublist(b.names, kept)
    IN  [names |-> [k \in DOMAIN L |-> [L[k] EXCEPT !.bound = Moved(kept, @)]],
         iter  |-> IF b.iter.at \in S THEN [gone |-> TRUE, at |-> End]
                   ELSE [b.iter EXCEPT !.at = Moved(kept, @)]]
Unlinked(b, S) ==
    LET kept == DOMAIN b.names \ S
        L    == Sublist(b.names, kept)
        at   == b.iter.at
        next == Rank(kept, at - 1) + 1
    IN  [names |-> [k \in DOMAIN L |-> [L[k] EXCEPT !.bound = Moved(kept, @)]],
         iter  |-> IF at = End THEN b.iter
                   ELSE [gone |-> b.iter.gone \/ at \in S,
                         at   |-> IF next \in DOMAIN L THEN next ELSE End]]

\* scope_import_all_named_exprs_from_scope(): what a specification only declares
\* is not imported.  Its names are bound to one another when it was compiled.
Imported(b, s, compiled) ==
    LET defs == Sublist(s, {i \in DOMAIN s : s[i].text # Foreign})
        Target(n) == IF Named(defs, n) = 0 THEN Extern ELSE Len(b.names) + Named(defs, n)
        Import(d) ==
            [Entry(d.name, d.text, "spec") EXCEPT
                !.bound = IF compiled /\ d.text \in Name THEN Target(d.text) ELSE Unbound,
                !.done = compiled]
    IN  [b EXCEPT !.names = @ \o [k \in DOMAIN defs |-> Import(defs[k])]]

\* Mutant: the names of a specification are found by their names.
MutOfSpec(L) ==
    {i \in 1 .. Len(L) : Named(used, L[i].name) # 0}
\* The names that hold the expressions of the specification in use.
OfSpec(L) == Of(L, "spec")

\* board_refresh(): the client's expressions are parsed again where they are, those
\* of the specification again after all the others.
Refreshed(b, s) ==
    LET Again(e) == IF e.from = "client" THEN [e EXCEPT !.bound = Unbound, !.done = FALSE] ELSE e
        parsed   == [b EXCEPT !.names = [i \in DOMAIN @ |-> Again(@[i])]]
    IN  IF s = NoSpec THEN parsed ELSE Imported(Unlinked(parsed, OfSpec(parsed.names)), s, FALSE)

(***************************************************************************)
(* Compilation (bitpunch_compile_schema())                                 *)
(***************************************************************************)

IsLink(e) == e.text \in Name

\* Every reference that has a target is bound to the first of its name.
\* Mutant: to the last.
MutResolved(L) ==
    [i \in DOMAIN L |->
        IF IsLink(L[i]) /\ L[i].bound = Unbound
        THEN [L[i] EXCEPT !.bound = SelectLastInSeq(L, LAMBDA e : e.name = L[i].text)] ELSE L[i]]
Resolved(L) ==
    [i \in DOMAIN L |->
        IF IsLink(L[i]) /\ L[i].bound = Unbound
        THEN [L[i] EXCEPT !.bound = Named(L, L[i].text)] ELSE L[i]]

Unresolved(L) == \E i \in DOMAIN L : IsLink(L[i]) /\ L[i].bound = Unbound

\* Where the references of a name lead, step by step, as long as they are of the
\* places of S; 0 once there is nothing to follow.
Walk(L, k, S) ==
    LET f[n \in 0 .. Len(L)] ==
            IF n = 0 THEN k
            ELSE IF f[n - 1] \in S /\ L[f[n - 1]].bound > 0 THEN L[f[n - 1]].bound ELSE 0
    IN  f

\* The resolver of dependencies goes through what is not compiled, in a circle or not.
\* A name that is not resolved has nothing to compile.
ToCompile(L) == {i \in DOMAIN L : ~L[i].done}
Circular(L, k) == Walk(L, k, ToCompile(L))[Len(L)] # 0
Compiled(L, K) ==
    LET reached == UNION {{Walk(L, k, ToCompile(L))[n] : n \in 0 .. Len(L)} : k \in K}
    IN  [i \in DOMAIN L |-> IF i \in reached THEN [L[i] EXCEPT !.done = TRUE] ELSE L[i]]

\* References are resolved once: a board whose references did not all resolve is
\* resolved too.  It is compiled once, before its names are, which only follow
\* (ast.c:1693): one that is stuck on a circle compiles from then on.
Schema(L) ==
    LET R == IF root = "no" THEN Resolved(L) ELSE L IN
    IF root \in {"stuck", "compiled"} THEN [ok |-> TRUE, names |-> L, root |-> root]
    ELSE IF root = "no" /\ Unresolved(R) THEN [ok |-> FALSE, names |-> R, root |-> "resolved"]
    ELSE IF \E k \in DOMAIN R : Circular(R, k) THEN [ok |-> FALSE, names |-> R, root |-> "stuck"]
    ELSE [ok |-> TRUE, names |-> Compiled(R, DOMAIN R), root |-> "compiled"]

\* A specification loads if its names have what they need in it, and in no circle
\* (load_schema_common()); otherwise the call changes nothing.
Loads(s) ==
    LET L == Imported([names |-> <<>>, iter |-> NoIterator], s, TRUE).names IN
    /\ \A i \in DOMAIN s : IsLink(s[i]) => Named(s, s[i].text) # 0
    /\ \A k \in DOMAIN L : Walk(L, k, DOMAIN L)[Len(L)] = 0

\* What a compiled name gives: the data of the name its references lead to.
Value(L, k) ==
    LET way  == Walk(L, k, DOMAIN L)
        last == L[way[CHOOSE n \in 0 .. Len(L) : way[n] # 0 /\ (n = Len(L) \/ way[n + 1] = 0)]]
        item_ == External(L, last.text)
    IN  IF way[Len(L)] # 0 THEN Endless
        ELSE IF last.text = Data THEN <<last.from, last.name>>
        ELSE IF last.bound # Extern THEN <<"nodata">>
        ELSE IF item_ = 0 THEN <<"missing">> ELSE <<"program", last.text>>

(***************************************************************************)
(* The calls                                                               *)
(***************************************************************************)

\* No call follows an endless recursion.
Running == answer.value # Endless

Becomes(b) == names' = b.names /\ iter' = b.iter

\* The board is refreshed, with some specification in use.
Refresh(b, s) ==
    /\ Becomes(Refreshed(b, s))
    /\ root' = "no" /\ asLoaded' = FALSE

\* bitpunch_board_add_expr(), bitpunch_board_add_let_expression(): the list is
\* refreshed, then has one more.
Add(n, t, from) ==
    /\ Running
    /\ Cardinality(Of(names, "client") \cup Of(names, "program")) < MaxNames
    /\ from = "program" => t = Data
    /\ Becomes(Linked(Refreshed(List, used), Entry(n, t, from)))
    /\ root' = "no" /\ asLoaded' = FALSE
    /\ answer' = NoAnswer
    /\ UNCHANGED <<used, item>>

\* bitpunch_board_remove_by_name()
RemoveName(n) ==
    LET S == {i \in DOMAIN names : names[i].name = n} IN
    /\ Running /\ S # {}
    /\ Refresh(Unlinked(List, S), used)
    /\ answer' = NoAnswer
    /\ UNCHANGED <<used, item>>

\* bitpunch_board_forget_spec()
Forgotten ==
    IF used = NoSpec THEN List ELSE Refreshed(Unlinked(List, OfSpec(names)), NoSpec)

ForgetSpec ==
    /\ Running /\ used # NoSpec
    /\ Becomes(Forgotten) /\ root' = "no"
    /\ used' = NoSpec /\ asLoaded' = FALSE
    /\ answer' = NoAnswer
    /\ UNCHANGED item

\* bitpunch_board_use_spec() of a specification that loads: a first one leaves the
\* board as compiled as it was.
UseSpec(s) ==
    /\ Running /\ Loads(s)
    /\ Becomes(Imported(Forgotten, s, TRUE))
    /\ root' = IF used = NoSpec THEN root ELSE "no"
    /\ used' = s /\ asLoaded' = TRUE
    /\ answer' = NoAnswer
    /\ UNCHANGED item

\* A refusal: the board is refreshed, for what the attempt resolved.
Refuse(n, L) ==
    /\ answer' = [of |-> n, value |-> <<"refused">>]
    /\ Refresh([List EXCEPT !.names = L], used)
    /\ UNCHANGED item

Answer(n, c) ==
    LET v == Value(c.names, Named(c.names, n)) IN
    /\ answer' = [of |-> n, value |-> v]
    /\ names' = c.names /\ root' = c.root
    /\ item' = (item \/ v \notin Failures \cup {<<"missing">>, Endless})
    /\ UNCHANGED <<iter, asLoaded>>

\* bitpunch_eval_expr() in the board: its root box compiles all of it, then the name
\* is compiled, which on a stuck board was not.
Evaluate(n) ==
    LET k == Named(names, n)
        c == Schema(names)
    IN
    /\ Running
    /\ \/ /\ k = 0 \/ ~c.ok \/ Circular(c.names, k)
          /\ Refuse(n, c.names)
       \/ /\ k # 0 /\ c.ok /\ ~Circular(c.names, k)
          /\ Answer(n, [names |-> Compiled(c.names, {k}), root |-> c.root])
    /\ UNCHANGED used

\* bitpunch_eval_expr() in an item: the name is compiled, then the board is, and the
\* board is not refreshed when it is the one that does not compile.
EvaluateInItem(n) ==
    LET k == Named(names, n)
        c == Schema(Compiled(names, {k}))
    IN
    /\ Running /\ item
    /\ \/ /\ k = 0 \/ Circular(names, k)
          /\ Refuse(n, names)
       \/ /\ k # 0 /\ ~Circular(names, k)
          /\ IF c.ok THEN Answer(n, c)
             ELSE /\ answer' = [of |-> n, value |-> <<"refused">>]
                  /\ names' = c.names /\ root' = c.root
                  /\ UNCHANGED <<iter, asLoaded, item>>
    /\ UNCHANGED used

Marked(met) == [i \in DOMAIN names |-> [names[i] EXCEPT !.met = met]]

\* Board_iter(): the iterator is at the first name, and owes them all.  The client
\* goes through the list with one iterator at a time.
Iterate ==
    /\ Running /\ names # <<>> /\ iter = NoIterator
    /\ iter' = [iter EXCEPT !.at = 1]
    /\ names' = Marked("owed")
    /\ answer' = NoAnswer
    /\ UNCHANGED <<used, asLoaded, root, item>>

\* ScopeIter_iternext(): the name it points to, removed or not.
NextName ==
    LET Gives(it, L) ==
            /\ iter' = it
            /\ names' = IF it = NoIterator THEN Marked("new") ELSE L
    IN
    /\ Running
    /\ \/ iter.gone /\ \E more \in BOOLEAN : Gives([iter EXCEPT !.gone = more], names)
       \/ /\ ~iter.gone /\ iter.at # End
          /\ Gives([iter EXCEPT !.at = IF @ = Len(names) THEN End ELSE @ + 1],
                   [names EXCEPT ![iter.at].met = "given"])
    /\ answer' = NoAnswer
    /\ UNCHANGED <<used, asLoaded, root, item>>

Init ==
    /\ names = <<>> /\ used = NoSpec /\ asLoaded = FALSE /\ root = "no"
    /\ iter = NoIterator /\ item = FALSE /\ answer = NoAnswer

Next ==
    \/ \E n \in Name, t \in Name \cup {Data}, from \in {"client", "program"} : Add(n, t, from)
    \/ \E n \in Name : RemoveName(n)
    \/ \E s \in Specs : UseSpec(s)
    \/ ForgetSpec
    \/ \E n \in Name : Evaluate(n)
    \/ \E n \in Name : EvaluateInItem(n)
    \/ Iterate
    \/ NextName

Spec == Init /\ [][Next]_vars

(***************************************************************************)
(* Correctness                                                             *)
(***************************************************************************)

\* Whatever is added, removed, used or forgotten while a client goes through the
\* list (Board_iter(), ScopeIter_iternext()), a name that stays is given once: those
\* not given yet are at the iterator or after it, the others before.
NamesAreGivenOnce ==
    \A i \in DOMAIN names :
        /\ names[i].met = "owed" => iter.at # End /\ iter.at <= i
        /\ names[i].met = "given" => iter.at = End \/ i < iter.at

\* What a name of the list stands for, from the texts alone: each reference is to the
\* first of its name in the board or, in a specification since it was loaded, to that
\* of the specification; it stands for nothing if there is none, or in a circle.
Nothing == <<"nothing">>
Means(k) ==
    LET Within(i) == asLoaded /\ names[i].from = "spec"
        Target(i) ==
            IF Within(i) THEN SelectInSeq(names, LAMBDA e : e.from = "spec" /\ e.name = names[i].text)
            ELSE Named(names, names[i].text)
        leads[hops \in 0 .. Len(names)] ==
            [i \in 0 .. Len(names) |->
                IF i = 0 \/ hops = 0 THEN Nothing
                ELSE IF names[i].text = Data THEN <<names[i].from, names[i].name>>
                ELSE IF ~Within(i) \/ Target(i) # 0 THEN leads[hops - 1][Target(i)]
                ELSE IF External(names, names[i].text) = 0 THEN <<"missing">>
                ELSE <<"program", names[i].text>>]
    IN  leads[Len(names)][k]
StandsFor(n) == Means(Named(names, n))

\* A name of the board means nothing: a board that is not compiled fails for it.
Broken == (\E i \in DOMAIN names : Means(i) = Nothing) /\ root \in {"no", "resolved"}

\* The board did not resolve for an item, and was not refreshed: what it names may
\* have come since and stays unresolved.
Marred == root # "no" /\ Unresolved(names)

\* An evaluation (bitpunch_eval_expr()), in the board or in an item, gives what the
\* name stands for in the board as it is, whatever was compiled, failed, removed or
\* imported before; it fails only if the name has no meaning, if one has none on a
\* board that is yet to compile, or on a board that an item marred; and it recurses
\* without end only for a name without a meaning (MCBoardEndless.cfg shows one).
EvaluationIsRight ==
    [][answer' # NoAnswer =>
          \/ answer'.value = StandsFor(answer'.of)
          \/ answer'.value = Endless /\ StandsFor(answer'.of) = Nothing
          \/ /\ answer'.value \in Failures
             /\ Broken \/ Marred \/ StandsFor(answer'.of) = Nothing]_vars


\* Circular dependencies are detected (test_circular_dependency.py:9).
NoCircleIsEvaluated == answer.value # Endless

\* The board is a Namespace: refreshing, which takes the names of the specification
\* out and back, and evaluations that fail lose none of the client's names.
Own(e) == [name |-> e.name, text |-> e.text, from |-> e.from]
own ==
    LET mine == Sublist(names, {i \in DOMAIN names : names[i].from # "spec"})
    IN  [i \in DOMAIN mine |-> Own(mine[i])]
Abstract == INSTANCE Namespace WITH
    Given <- {Own(Entry(n, t, f)) : n \in Name, t \in Name \cup {Data}, f \in {"client", "program"}}
IsNamespace == Abstract!Spec

=============================================================================
