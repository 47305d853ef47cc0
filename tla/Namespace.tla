----------------------------- MODULE Namespace -----------------------------
(***************************************************************************)
(* What a board promises of its names: those its client added, in the      *)
(* order they came, and those of the specification in use.  Evaluating an  *)
(* expression, or failing to, adds and takes away nothing.                 *)
(***************************************************************************)
EXTENDS Sequences, Sublists

CONSTANTS
    Given,      \* what a client may add: records with a name
    Name,       \* the names
    Specs,      \* the specifications
    NoSpec      \* none of them

VARIABLES
    own,        \* what the client added
    used        \* the specification in use

Init == own = <<>> /\ used = NoSpec

Add == \E e \in Given : own' = Append(own, e) /\ UNCHANGED used
Take == \E n \in Name : own' = Sublist(own, {i \in DOMAIN own : own[i].name # n}) /\ UNCHANGED used
Use == used' \in Specs \cup {NoSpec} /\ UNCHANGED own

Next == Add \/ Take \/ Use

Spec == Init /\ [][Next]_<<own, used>>
=============================================================================
