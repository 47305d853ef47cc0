------------------------------ MODULE MCBoard ------------------------------
(* Specifications that define a name by the other, by one that the program    *)
(* provides or for which a name of the board may be taken; two do not load.   *)
EXTENDS Board

MCSpecs ==
    {<<[name |-> "x", text |-> Data], [name |-> "y", text |-> "x"]>>,
     <<[name |-> "x", text |-> Foreign], [name |-> "y", text |-> "x"]>>,
     <<[name |-> "x", text |-> "y"], [name |-> "y", text |-> "x"]>>,
     <<[name |-> "y", text |-> "x"]>>}
=============================================================================
