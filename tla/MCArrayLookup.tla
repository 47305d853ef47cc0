--------------------------- MODULE MCArrayLookup ---------------------------
(* Arrays of five items, two to a mark, with two keys of which one is a false    *)
(* positive for the other.                                                       *)
EXTENDS ArrayLookup, TLC

MCHash ==
    ("a" :> [short |-> 0, long |-> 0, bits |-> {1}]) @@
    ("b" :> [short |-> 0, long |-> 0, bits |-> {1, 2}])

Array(keys, var, start, slack, indexed, bad) ==
    [keys |-> keys, var |-> var, start |-> start, unit |-> 2, slack |-> slack,
     indexed |-> indexed, bad |-> bad]

Starts == <<0, 1, 3, 4, 7, 9>>

Make(k, v, s, i, b) == Array(k, v, IF v THEN Starts ELSE <<>>, s, i, b)
ABBAB == <<"a", "b", "b", "a", "b">>
BBABA == <<"b", "b", "a", "b", "a">>
Same  == <<"a", "a", "a", "a", "a">>

\* Const and var, with and without slack, with a bad key, without keys, empty.
MCArrays ==
    {Make(ABBAB, FALSE, FALSE, TRUE, -1), Make(ABBAB, TRUE, TRUE, TRUE, -1),
     Make(BBABA, TRUE, FALSE, TRUE, 3), Make(Same, TRUE, FALSE, FALSE, -1),
     Array(<<>>, FALSE, <<>>, FALSE, TRUE, -1), Array(<<>>, TRUE, <<0>>, TRUE, TRUE, -1)}

\* Whose trackers return from the slices they enter.
MCSliced == {Make(BBABA, TRUE, FALSE, TRUE, -1)}

MCBoth == MCArrays \cup MCSliced
=============================================================================
