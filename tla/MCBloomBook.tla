---------------------------- MODULE MCBloomBook ----------------------------
(* Words of which one is a false positive for another, or for two others.  *)
EXTENDS BloomBook, TLC

MCHash ==
    ("a" :> [short |-> 0, long |-> 0, bits |-> {1, 2}]) @@
    ("b" :> [short |-> 0, long |-> 4, bits |-> {2, 3}]) @@
    ("c" :> [short |-> 0, long |-> 0, bits |-> {1, 3}]) @@
    ("d" :> [short |-> 1, long |-> 1, bits |-> {1}])
=============================================================================
